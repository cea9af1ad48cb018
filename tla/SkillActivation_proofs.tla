------------------------ MODULE SkillActivation_proofs ------------------------
(***************************************************************************)
(* Proofs about SkillActivation, for any bundles, skills, rollouts,        *)
(* commands and faults, with a reader or without: what is granted is a     *)
(* whole copy, the native skills are those of the bundle that is granted,  *)
(* and the pointer moves only to a copy that is in place.                  *)
(***************************************************************************)
EXTENDS SkillActivation, TLAPS

Reads == {"recover", "recovering", "recovered", "clearing", "read", "reject"}
Moves == {"unload", "load"}
Installs == {"ask", "build", "verify", "aside", "copy", "copied", "revert", "check", "undo", "repoint",
             "receipt", "publish", "point", "anchor", "post"}
Rollbacks == {"confirm", "begin", "manifest", "stage", "shelve", "swap", "switch", "mend", "mended",
              "unmoved", "clear", "restore"}
Steps == {"idle"} \cup Reads \cup Moves \cup Installs \cup Rollbacks
States ==
    [step : Steps, then : Steps, catch : Steps, load : OptBundle, drop : SUBSET SkillIds, bundle : OptBundle,
     prev : OptBundle, anchor : OptReceipt, receipt : OptReceipt, write : BOOLEAN]

me == proc["sync"]

\* What a synchronisation is doing, or is about to do when it has read or moved skills.
Doing == IF me.step \in Reads \cup Moves THEN me.then ELSE me.step

\* Where each reading and each exchange of native skills goes on.
Reading == \/ me.then \in {"build", "ask", "idle"} /\ me.catch = "idle"
           \/ me.then = "confirm" /\ me.catch = "restore"
Moving ==
    \/ me.then = "check" /\ me.catch = "revert" /\ me.load = New /\ me.drop = SkillsOf(Prev)
    \/ me.then = "repoint" /\ me.catch \in {"repoint", "idle"} /\ me.load = Prev /\ me.drop = Skills[New]
    \/ me.then = "shelve" /\ me.catch = "unmoved" /\ me.load = Prev /\ me.drop = Skills[New]
    \/ me.then = "mended" /\ me.catch = "restore" /\ me.load = New /\ me.drop = SkillsOf(Prev)

Shapes ==
    /\ proc \in [Processes -> States]
    /\ crashes \in Nat /\ errors \in Nat
    /\ Doing # "idle" => New \in Bundles
    /\ me.step \in Reads => Reading
    /\ me.step \in Moves => Moving
    /\ \A p \in Readers : proc[p].step \in {"idle"} \cup Reads /\ proc[p].then = "idle" /\ proc[p].catch = "idle"

\* The release that is being installed was verified.
Built == {"aside", "copy", "copied", "revert", "check", "undo", "repoint", "receipt", "publish", "point",
          "anchor", "post"} \cup Rollbacks
ReleaseOK == Doing \in Built => release[New].whole

Whole(d, b) == dir[d] \in Copies /\ dir[d].bundle = b /\ dir[d].whole

\* A copy with a receipt is whole.
Receipted ==
    /\ \A d \in Names : ~ Missing(d) /\ dir[d].receipt # None => dir[d].whole
    /\ \A b \in Bundles : release[b].receipt # None => release[b].whole

\* The phases in which the pointer, the active copy and the transaction are known.
AtPrev == {"verify", "aside", "copy", "copied", "revert", "check", "undo", "repoint", "receipt", "publish",
           "point"}
Active == {"check", "receipt", "publish", "point", "anchor", "post", "confirm", "begin", "manifest", "stage",
           "shelve"}
AtNew == {"anchor", "post", "confirm", "begin", "manifest", "stage", "shelve", "swap", "switch", "mend",
          "mended", "unmoved"}
Under == {"stage", "shelve", "swap", "switch", "mend", "mended", "unmoved"}

Pointing ==
    /\ Doing \in AtPrev => pointer = Prev
    /\ Doing \in AtNew => pointer = New
    /\ Doing \in Active => Whole("active", New)
    /\ Doing = "confirm" => me.step \in {"recover", "read", "confirm"}

\* The transaction of a rollback, when it is under way and when it was cut short.
Transacting ==
    /\ Doing \in Installs \cup {"confirm", "begin"} /\ me.step \notin Reads => txn = None
    /\ (Doing = "confirm" \/ me.step \in {"read", "reject"}) => txn = None
    /\ me.step = "manifest" => txn = NoBundle /\ Missing("staged") /\ Missing("backup")
    /\ Doing \in Under => txn = New
    /\ txn = None => Missing("staged") /\ Missing("backup")
    /\ txn \in Bundles => \/ Whole("backup", txn)
                          \/ Missing("backup") /\ (pointer = txn \/ Whole("active", txn))
    /\ (me.step = "stage" \/ Doing = "shelve") => Missing("backup")
    /\ (Doing = "shelve" /\ me.step # "unload") \/ me.step = "swap" => Prev = None \/ Whole("staged", Prev)
    /\ me.step = "unload" /\ me.then = "shelve" => Prev = None \/ dir["staged"] = CopyOf(Prev)
    /\ Prev = None /\ Doing \in {"stage", "shelve", "swap"} => Missing("staged")
    /\ me.step = "swap" => ~ Missing("backup")
    /\ me.step = "switch" => ~ Missing("backup") /\ (Prev = None \/ Whole("active", Prev))

\* Whoever is recovering one has its bundle in place, and then the pointer.
Recovering ==
    \A p \in Processes :
        /\ proc[p].step \in {"recovering", "recovered"} /\ txn \in Bundles
             => Missing("backup") /\ (pointer = txn \/ Whole("active", txn))
        /\ proc[p].step = "clearing" /\ txn \in Bundles => pointer = txn

\* While no reader has interfered.
Undisturbed == ~ Interferes /\ Receipted /\ Pointing /\ Transacting /\ Recovering

\* The native skills, while nobody has died and one call has failed.
Of(b) == [i \in SkillIds |-> IF i \in SkillsOf(b) THEN b ELSE None]
Whichever(b) == b = None \/ release[b].whole
Handling == {"revert", "undo", "repoint"} \cup Rollbacks

Native ==
    IF me.step = "load" THEN native = Of(None)
    ELSE IF me.step = "unload" THEN native = IF me.then \in {"check", "mended"} THEN Of(Prev) ELSE Of(New)
    ELSE IF me.step \in {"check", "receipt", "publish", "point", "undo"} THEN native = Of(New)
    ELSE IF me.step \in {"repoint", "shelve", "swap", "switch", "mend"} THEN native = Of(Prev)
    ELSE native = Of(pointer)

Quiet ==
    /\ Doing \in Handling => errors >= 1
    /\ txn # None => me.step \in {"manifest", "clear"} \/ Doing \in Under
    /\ \A p \in Processes : proc[p].step \notin {"recovering", "recovered", "clearing"}
    /\ Native
    /\ errors = 0 /\ ~ (me.step = "verify" /\ pointer = New) => Whichever(pointer)
    /\ Doing \in (Built \ {"revert", "clear", "restore"}) /\ (errors = 0 \/ Doing \in Handling) => Whichever(Prev)

SkillInv ==
    /\ TypeOK /\ Shapes /\ ReleaseOK
    /\ touched \/ Undisturbed
    /\ touched \/ crashes > 0 \/ errors > 1 \/ Quiet

-----------------------------------------------------------------------------
(* The records and functions the actions are made of.                      *)

\* What a step of the synchronisation leaves: its bundles, and what it is to do next.
SameJob == New' = New /\ Prev' = Prev
SameTurn == me'.then = me.then /\ me'.catch = me.catch /\ me'.load = me.load /\ me'.drop = me.drop
Still == \A q \in Readers : proc'[q] = proc[q]
Turned(x) == proc' \in [Processes -> States] /\ me'.step = x /\ SameJob /\ SameTurn /\ Still

LEMMA Actors ==
  ASSUME SkillAssumption
  PROVE  /\ "sync" \in Processes /\ Readers \subseteq Processes /\ "sync" \notin Readers
         /\ \A q \in Readers : q = "reader"
         /\ \A p \in Processes : p = "sync" \/ p \in Readers
BY DEF SkillAssumption, Processes

LEMMA BecomeIs ==
  ASSUME proc \in [Processes -> States], NEW p \in Processes, NEW t \in States, Become(p, t)
  PROVE  proc' \in [Processes -> States] /\ proc'[p] = t /\ \A q \in Processes \ {p} : proc'[q] = proc[q]
BY DEF Become

LEMMA GotoIs ==
  ASSUME proc \in [Processes -> States], NEW p \in Processes, NEW x \in Steps, Goto(p, x)
  PROVE  /\ proc' \in [Processes -> States]
         /\ proc'[p].step = x
         /\ proc'[p].then = proc[p].then /\ proc'[p].catch = proc[p].catch
         /\ proc'[p].load = proc[p].load /\ proc'[p].drop = proc[p].drop
         /\ proc'[p].bundle = proc[p].bundle /\ proc'[p].prev = proc[p].prev
         /\ \A q \in Processes \ {p} : proc'[q] = proc[q]
<1>. DEFINE t == [proc[p] EXCEPT !.step = x]
<1>1. proc[p] \in States
  OBVIOUS
<1>2. t \in States /\ t.step = x /\ t.then = proc[p].then /\ t.catch = proc[p].catch /\ t.load = proc[p].load
      /\ t.drop = proc[p].drop /\ t.bundle = proc[p].bundle /\ t.prev = proc[p].prev
  BY <1>1 DEF States
<1>3. proc' = [proc EXCEPT ![p] = t]
  BY DEF Goto
<1>. HIDE DEF t
<1>. QED BY <1>2, <1>3

LEMMA GotoTurns ==
  ASSUME SkillAssumption, proc \in [Processes -> States], NEW x \in Steps, Goto("sync", x)
  PROVE  Turned(x)
BY Actors, GotoIs DEF Turned, SameJob, SameTurn, Still, New, Prev, me

LEMMA NativelyIs ==
  ASSUME SkillAssumption, proc \in [Processes -> States],
         NEW load \in OptBundle, NEW drop \in SUBSET SkillIds, NEW then \in Steps, NEW catch \in Steps,
         Natively("sync", load, drop, then, catch)
  PROVE  /\ proc' \in [Processes -> States] /\ me'.step = "unload" /\ SameJob /\ Still
         /\ me'.load = load /\ me'.drop = drop /\ me'.then = then /\ me'.catch = catch
<1>. DEFINE t == [me EXCEPT !.step = "unload", !.load = load, !.drop = drop, !.then = then, !.catch = catch]
<1>1. me \in States /\ "unload" \in Steps
  BY Actors DEF me, Steps, Moves
<1>2. t \in States /\ t.step = "unload" /\ t.then = then /\ t.catch = catch /\ t.load = load
      /\ t.drop = drop /\ t.bundle = me.bundle /\ t.prev = me.prev
  BY <1>1 DEF States
<1>3. proc' = [proc EXCEPT !["sync"] = t]
  BY DEF Natively, Become, me
<1>. HIDE DEF t
<1>. QED BY <1>2, <1>3, Actors DEF SameJob, Still, New, Prev, me

LEMMA AsleepIs ==
  ASSUME SkillAssumption
  PROVE  /\ Asleep \in States /\ Asleep.step = "idle" /\ Asleep.then = "idle" /\ Asleep.catch = "idle"
         /\ Asleep.bundle = None
BY DEF Asleep, States, Steps, OptBundle, OptReceipt

\* Of one process: what it is when it has fallen asleep.
LEMMA SleepIs ==
  ASSUME SkillAssumption, proc \in [Processes -> States], Become("sync", Asleep)
  PROVE  proc' \in [Processes -> States] /\ me' = Asleep /\ me'.step = "idle" /\ Still
BY Actors, AsleepIs, BecomeIs DEF me, Still

LEMMA ReadPointerIs ==
  ASSUME SkillAssumption, proc \in [Processes -> States], NEW p \in Processes, NEW t \in States,
         NEW then \in Steps, NEW catch \in Steps, ReadPointer(p, t, then, catch)
  PROVE  /\ proc' \in [Processes -> States]
         /\ proc'[p].step = "recover" /\ proc'[p].then = then /\ proc'[p].catch = catch
         /\ proc'[p].bundle = t.bundle /\ proc'[p].prev = t.prev
         /\ \A q \in Processes \ {p} : proc'[q] = proc[q]
<1>. DEFINE u == [t EXCEPT !.step = "recover", !.then = then, !.catch = catch]
<1>1. u \in States /\ u.step = "recover" /\ u.then = then /\ u.catch = catch /\ u.bundle = t.bundle
      /\ u.prev = t.prev
  <2>1. "recover" \in Steps
    BY DEF Steps, Reads
  <2>. QED BY <2>1 DEF States
<1>2. proc' = [proc EXCEPT ![p] = u]
  BY DEF ReadPointer, Become
<1>. HIDE DEF u
<1>. QED BY <1>1, <1>2

\* Copies of bundles, and what stands for none.
LEMMA CopyFacts ==
  ASSUME SkillAssumption, TypeOK
  PROVE  /\ None \notin Copies /\ None \notin Bundles /\ NoBundle \notin Bundles /\ NoBundle # None
         /\ Absent \in Copies /\ Absent.receipt = None /\ Absent.whole = FALSE
         /\ \A b \in Bundles : /\ CopyOf(b) \in Copies /\ CopyOf(b).bundle = b
                               /\ CopyOf(b).receipt = release[b].receipt /\ CopyOf(b).whole = release[b].whole
                               /\ SkillsOf(b) = Skills[b] /\ SkillsOf(b) \subseteq SkillIds
         /\ SkillsOf(None) = {}
<1>1. None \notin Copies /\ None \notin Bundles /\ NoBundle \notin Bundles /\ NoBundle # None
  BY DEF SkillAssumption
<1>2. Absent \in Copies /\ Absent.receipt = None /\ Absent.whole = FALSE
  BY DEF Absent, Copies, OptBundle, OptReceipt
<1>3. ASSUME NEW b \in Bundles
      PROVE  /\ CopyOf(b) \in Copies /\ CopyOf(b).bundle = b
             /\ CopyOf(b).receipt = release[b].receipt /\ CopyOf(b).whole = release[b].whole
  BY DEF CopyOf, TypeOK, Copies, OptBundle
<1>4. ASSUME NEW b \in Bundles PROVE SkillsOf(b) = Skills[b] /\ SkillsOf(b) \subseteq SkillIds
  BY <1>1 DEF SkillsOf, SkillAssumption
<1>. QED BY <1>1, <1>2, <1>3, <1>4 DEF SkillsOf

\* Until a reader interferes; and until somebody dies or a second call fails.
LEMMA Undisturbing ==
  ASSUME SkillInv, Touch, ~ touched'
  PROVE  ~ touched /\ Undisturbed /\ ~ Interferes'
BY DEF SkillInv, Touch

LEMMA Quieting ==
  ASSUME SkillInv, Touch, ~ touched', crashes = 0, errors <= 1
  PROVE  Undisturbed /\ Quiet
<1>1. ~ touched /\ Undisturbed
  BY Undisturbing
<1>2. errors \in Nat
  BY DEF SkillInv, Shapes
<1>3. ~ (crashes > 0) /\ ~ (errors > 1)
  BY <1>2
<1>. QED BY <1>1, <1>3, Zenon DEF SkillInv

LEMMA TouchIs ==
  ASSUME TypeOK, Touch
  PROVE  touched' \in BOOLEAN
BY DEF TypeOK, Touch

\* While the synchronisation is at work and nobody interferes, no reader repairs.
LEMMA ReadersWait ==
  ASSUME SkillAssumption, ~ Interferes, me.step # "idle"
  PROVE  \A q \in Readers : ~ Repairs(q)
BY DEF Interferes, At, me

LEMMA NobodyRecovers ==
  ASSUME SkillAssumption, Undisturbed, Still, me.step # "idle",
         me'.step \notin {"recovering", "recovered", "clearing"}
  PROVE  \A p \in Processes : proc'[p].step \notin {"recovering", "recovered", "clearing"}
<1>1. ASSUME NEW q \in Readers PROVE proc'[q].step \notin {"recovering", "recovered", "clearing"}
  BY ReadersWait DEF Still, Repairs, Undisturbed
<1>2. proc'["sync"].step \notin {"recovering", "recovered", "clearing"}
  BY DEF me
<1>3. \A p \in Processes : p = "sync" \/ p \in Readers
  BY Actors
<1>. QED BY <1>1, <1>2, <1>3

\* When it begins to work nobody repairs either.
LEMMA NobodyRecoversNow ==
  ASSUME SkillAssumption, ~ Interferes', me'.step \notin {"idle", "recovering", "recovered", "clearing"}
  PROVE  \A p \in Processes : proc'[p].step \notin {"recovering", "recovered", "clearing"}
<1>1. ASSUME NEW q \in Readers PROVE proc'[q].step \notin {"recovering", "recovered", "clearing"}
  BY DEF Interferes, Repairs, At, me
<1>2. proc'["sync"].step \notin {"recovering", "recovered", "clearing"}
  BY DEF me
<1>3. \A p \in Processes : p = "sync" \/ p \in Readers
  BY Actors
<1>. QED BY <1>1, <1>2, <1>3

\* The managed directories after a step that changes two of them.
Moved(from, to) ==
  /\ dir' \in [Names -> Copies \cup {None}]
  /\ dir'[to] = dir[from] /\ dir'[from] = None
  /\ \A d \in Names \ {from, to} : dir'[d] = dir[d]

LEMMA MovedIs ==
  ASSUME TypeOK, NEW from \in Names, NEW to \in Names, from # to,
         dir' = [dir EXCEPT ![to] = dir[from], ![from] = None]
  PROVE  Moved(from, to)
<1>1. DEFINE one == [dir EXCEPT ![to] = dir[from]]
<1>2. one \in [Names -> Copies \cup {None}] /\ one[to] = dir[from] /\ \A d \in Names \ {to} : one[d] = dir[d]
  BY DEF TypeOK
<1>3. dir' = [one EXCEPT ![from] = None]
  OBVIOUS
<1>. HIDE DEF one
<1>. QED BY <1>2, <1>3 DEF Moved

\* A step that keeps one thing more in memory.
LEMMA KeepsPointer ==
  ASSUME SkillAssumption, TypeOK, proc \in [Processes -> States],
         Become("sync", [proc["sync"] EXCEPT !.step = "verify", !.prev = pointer])
  PROVE  proc' \in [Processes -> States] /\ me'.step = "verify" /\ New' = New /\ Prev' = pointer /\ Still
<1>. DEFINE t == [proc["sync"] EXCEPT !.step = "verify", !.prev = pointer]
<1>1. t \in States /\ t.step = "verify" /\ t.bundle = New /\ t.prev = pointer
  <2>1. pointer \in OptBundle /\ proc["sync"] \in States
    BY Actors DEF TypeOK
  <2>. QED BY <2>1 DEF States, Steps, Installs, New
<1>2. Become("sync", t)
  OBVIOUS
<1>. HIDE DEF t
<1>. QED BY <1>1, <1>2, BecomeIs, Actors DEF Still, New, Prev, me

LEMMA KeepsReceipt ==
  ASSUME SkillAssumption, proc \in [Processes -> States], NEW r \in Receipts,
         Become("sync", [proc["sync"] EXCEPT !.step = "publish", !.receipt = r])
  PROVE  Turned("publish")
<1>. DEFINE t == [proc["sync"] EXCEPT !.step = "publish", !.receipt = r]
            u == proc["sync"]
<1>1. t \in States /\ t.step = "publish" /\ t.bundle = u.bundle /\ t.prev = u.prev
      /\ t.then = u.then /\ t.catch = u.catch /\ t.load = u.load /\ t.drop = u.drop
  <2>1. "publish" \in Steps /\ u \in States
    BY Actors DEF Steps, Installs
  <2>. QED BY <2>1 DEF States, OptReceipt
<1>2. Become("sync", t)
  OBVIOUS
<1>. HIDE DEF t
<1>. QED BY <1>1, <1>2, BecomeIs, Actors DEF Turned, SameJob, SameTurn, Still, New, Prev, me

LEMMA KeepsFailure ==
  ASSUME SkillAssumption, proc \in [Processes -> States],
         Become("sync", [proc["sync"] EXCEPT !.step = "undo", !.write = TRUE])
  PROVE  Turned("undo")
<1>. DEFINE t == [proc["sync"] EXCEPT !.step = "undo", !.write = TRUE]
            u == proc["sync"]
<1>1. t \in States /\ t.step = "undo" /\ t.bundle = u.bundle /\ t.prev = u.prev
      /\ t.then = u.then /\ t.catch = u.catch /\ t.load = u.load /\ t.drop = u.drop
  <2>1. "undo" \in Steps /\ u \in States
    BY Actors DEF Steps, Installs
  <2>. QED BY <2>1 DEF States
<1>2. Become("sync", t)
  OBVIOUS
<1>. HIDE DEF t
<1>. QED BY <1>1, <1>2, BecomeIs, Actors DEF Turned, SameJob, SameTurn, Still, New, Prev, me

\* A change of one directory, or of one release.
Put(d) == dir' \in [Names -> Copies \cup {None}] /\ \A e \in Names \ {d} : dir'[e] = dir[e]
Release(b) == release' \in [Bundles -> Copies] /\ \A c \in Bundles \ {b} : release'[c] = release[c]

LEMMA NewReceiptIs ==
  ASSUME FreshIds # {}, NEW b \in Bundles
  PROVE  NewReceipt(b) \in Receipts
<1>1. (CHOOSE i \in FreshIds : TRUE) \in FreshIds
  OBVIOUS
<1>2. FreshIds \subseteq 1 .. MaxReceipts
  BY DEF FreshIds
<1>. QED BY <1>1, <1>2 DEF NewReceipt, Receipts

LEMMA Known ==
  ASSUME SkillAssumption, TypeOK, proc \in [Processes -> States]
  PROVE  /\ me \in States
         /\ pointer \in Bundles \cup {None} /\ New \in Bundles \cup {None} /\ Prev \in Bundles \cup {None}
         /\ pointer \in OptBundle /\ New \in OptBundle /\ Prev \in OptBundle
BY Actors DEF TypeOK, States, OptBundle, me, New, Prev

LEMMA ReceiptIsPut ==
  ASSUME TypeOK, ~ Missing("active"), NEW r \in OptReceipt, dir' = [dir EXCEPT !["active"].receipt = r]
  PROVE  /\ Put("active") /\ dir'["active"] \in Copies
         /\ dir'["active"].bundle = dir["active"].bundle /\ dir'["active"].whole = dir["active"].whole
<1>. DEFINE c == [dir["active"] EXCEPT !.receipt = r]
<1>1. dir["active"] \in Copies /\ dir \in [Names -> Copies \cup {None}] /\ "active" \in Names
  BY DEF TypeOK, Missing, Names
<1>2. c \in Copies /\ c.bundle = dir["active"].bundle /\ c.whole = dir["active"].whole
  BY <1>1 DEF Copies
<1>3. dir' = [dir EXCEPT !["active"] = c]
  OBVIOUS
<1>. HIDE DEF c
<1>. QED BY <1>1, <1>2, <1>3 DEF Put

Cleared ==
  /\ dir' \in [Names -> Copies \cup {None}]
  /\ dir'["staged"] = None /\ dir'["backup"] = None
  /\ \A d \in Names \ {"staged", "backup"} : dir'[d] = dir[d]

\* The copy set aside is active again, or the rejected one is where it was.
Restored ==
  \/ dir' = dir
  \/ Moved("rejected", "active")
  \/ /\ dir' \in [Names -> Copies \cup {None}]
     /\ dir'["active"] = dir["rollback"] /\ dir'["rollback"] = None /\ dir'["rejected"] = None
     /\ \A d \in Names \ {"active", "rollback", "rejected"} : dir'[d] = dir[d]

\* When the skills of a bundle are dropped nothing is left of it, and what is
\* loaded into nothing is all there is.
LEMMA UnloadedIs ==
  ASSUME NEW b, NEW drop, NEW more, native = Of(b), SkillsOf(b) \subseteq drop \cup more,
         native' = [i \in SkillIds |-> IF i \in drop \cup more THEN None ELSE native[i]]
  PROVE  native' = Of(None)
BY DEF Of

LEMMA LoadedIs ==
  ASSUME NEW b, native = Of(None), native' = [i \in SkillIds |-> IF i \in SkillsOf(b) THEN b ELSE native[i]]
  PROVE  native' = Of(b)
BY DEF Of

\* The synchronisation reads the pointer again, or for the first time.
LEMMA ReadsAgain ==
  ASSUME SkillAssumption, proc \in [Processes -> States], ReadPointer("sync", me, "confirm", "restore")
  PROVE  /\ proc' \in [Processes -> States] /\ SameJob /\ Still
         /\ me'.step = "recover" /\ me'.then = "confirm" /\ me'.catch = "restore"
<1>1. me \in States /\ "confirm" \in Steps /\ "restore" \in Steps
  BY Actors DEF me, Steps, Rollbacks
<1>. QED BY <1>1, ReadPointerIs, Actors DEF SameJob, Still, New, Prev, me

LEMMA ReadsFirst ==
  ASSUME SkillAssumption, TypeOK, proc \in [Processes -> States], NEW b \in OptBundle, NEW r \in OptReceipt,
         NEW then \in Steps,
         ReadPointer("sync", [Asleep EXCEPT !.bundle = b, !.anchor = r], then, "idle")
  PROVE  /\ proc' \in [Processes -> States] /\ New' = b /\ Still
         /\ me'.step = "recover" /\ me'.then = then /\ me'.catch = "idle"
<1>. DEFINE t == [Asleep EXCEPT !.bundle = b, !.anchor = r]
<1>1. t \in States /\ t.bundle = b /\ "idle" \in Steps
  BY AsleepIs DEF States, Steps
<1>2. ReadPointer("sync", t, then, "idle")
  OBVIOUS
<1>. HIDE DEF t
<1>. QED BY <1>1, <1>2, ReadPointerIs, Actors DEF Still, New, me

LEMMA ReadsOnly ==
  ASSUME SkillAssumption, proc \in [Processes -> States], ReadPointer("sync", Asleep, "idle", "idle")
  PROVE  /\ proc' \in [Processes -> States] /\ Still
         /\ me'.step = "recover" /\ me'.then = "idle" /\ me'.catch = "idle"
<1>1. Asleep \in States /\ "idle" \in Steps
  BY AsleepIs DEF Steps
<1>. QED BY <1>1, ReadPointerIs, Actors DEF Still, me

\* The release is taken down.
LEMMA BuildReleaseKeeps ==
  ASSUME SkillAssumption, SkillInv, BuildRelease
  PROVE  SkillInv'
<1>1. TypeOK /\ Shapes /\ ReleaseOK /\ proc \in [Processes -> States]
  BY DEF SkillInv, Shapes
<1>2. me.step = "build" /\ New \in Bundles /\ proc' \in [Processes -> States] /\ me'.step = "verify"
      /\ New' = New /\ Prev' = pointer /\ Still
  BY <1>1, KeepsPointer DEF BuildRelease, At, me, Shapes, Doing, Reads, Moves
<1>3. Release(New) /\ release'[New] = Absent
      /\ UNCHANGED <<pointer, dir, txn, native, anchor, assigned, crashes, errors>> /\ Touch
  BY <1>1, <1>2, CopyFacts DEF BuildRelease, Release, TypeOK, Keep, world, disk
<1>4. TypeOK'
  BY <1>1, <1>2, <1>3, CopyFacts, Known, TouchIs DEF TypeOK, Release
<1>5. Shapes' /\ ReleaseOK'
  BY <1>1, <1>2, <1>3, Actors DEF Shapes, ReleaseOK, Reading, Moving, Doing, SameJob, SameTurn, Still,
       Built, Reads, Moves, Installs, Rollbacks, Release
<1>6. ASSUME ~ touched' PROVE Undisturbed'
  <2>1. ~ touched /\ Undisturbed /\ ~ Interferes'
    BY <1>3, <1>6, Undisturbing
  <2>2. Receipted'
    BY <1>1, <1>2, <1>3, <2>1, CopyFacts, Known DEF Undisturbed, Receipted, Names, Missing, Pointing, Whole,
         Doing, Active, ReleaseOK, Built, SameJob, Reads, Moves, Release
  <2>3. Pointing'
    BY <1>1, <1>2, <1>3, <2>1, CopyFacts, Known DEF Undisturbed, Pointing, Whole, Names, Doing, AtPrev,
         AtNew, Active, SameJob, SameTurn, Reads, Moves, Reading, Release
  <2>4. Transacting'
    BY <1>1, <1>2, <1>3, <2>1, CopyFacts, Known DEF Undisturbed, Transacting, Pointing, Active, AtNew,
         Whole, Missing, Doing, Under, Names, SameJob, SameTurn, Reads, Moves, Installs, Release
  <2>5. Recovering'
    BY <1>2, <2>1, NobodyRecovers DEF Recovering, Release
  <2>. QED BY <2>1, <2>2, <2>3, <2>4, <2>5 DEF Undisturbed
<1>7. ASSUME ~ touched', crashes' = 0, errors' <= 1 PROVE Quiet'
  <2>1. Undisturbed /\ Quiet /\ ~ Interferes'
    BY <1>3, <1>7, Quieting, Undisturbing
  <2>2. Native'
    BY <1>1, <1>2, <1>3, <2>1, CopyFacts, Known DEF Undisturbed, Pointing, AtPrev, AtNew, Quiet, Native, Of,
         Doing, SameJob, SameTurn, Reads, Moves, Release
  <2>3. \A p \in Processes : proc'[p].step \notin {"recovering", "recovered", "clearing"}
    BY <1>2, <2>1, NobodyRecovers DEF Release
  <2>4. Doing' \in Handling => errors' >= 1
    BY <1>1, <1>2, <1>3, <2>1, CopyFacts, Known DEF Undisturbed, Pointing, Active, Whole, Missing, Quiet,
         Doing, Handling, Rollbacks, SameTurn, Reads, Moves, Release
  <2>5. txn' # None => me'.step \in {"manifest", "clear"} \/ Doing' \in Under
    BY <1>1, <1>2, <1>3, <2>1 DEF Quiet, Doing, Under, SameTurn, Reads, Moves, Release
  <2>6. errors' = 0 /\ ~ (me'.step = "verify" /\ pointer' = New') => Whichever(pointer)'
    BY <1>1, <1>2, <1>3, <2>1, CopyFacts, Known DEF Undisturbed, Pointing, ReleaseOK, Built, AtPrev, AtNew,
         Quiet, Handling, Rollbacks, Whichever, Doing, SameJob, Reads, Moves, Release
  <2>7. Doing' \in Built \ {"revert", "clear", "restore"}
        /\ (errors' = 0 \/ Doing' \in Handling) => Whichever(Prev)'
    BY <1>1, <1>2, <1>3, <2>1, CopyFacts, Known DEF Undisturbed, Pointing, ReleaseOK, Built, Handling,
         Rollbacks, AtPrev, AtNew, Quiet, Whichever, Doing, SameJob, SameTurn, Reads, Moves, Release
  <2>. QED BY <2>2, <2>3, <2>4, <2>5, <2>6, <2>7 DEF Quiet
<1>. QED BY <1>1, <1>4, <1>5, <1>6, <1>7 DEF SkillInv, Shapes

\* ... and built again.
LEMMA VerifyReleaseKeeps ==
  ASSUME SkillAssumption, SkillInv, VerifyRelease
  PROVE  SkillInv'
<1>1. TypeOK /\ Shapes /\ ReleaseOK /\ proc \in [Processes -> States]
  BY DEF SkillInv, Shapes
<1>2. me.step = "verify" /\ Turned("aside")
  BY <1>1, GotoTurns DEF VerifyRelease, At, me, Steps, Reads, Moves, Installs, Rollbacks
<1>3. New \in Bundles /\ Release(New) /\ release'[New].whole /\ release'[New].receipt = None
      /\ UNCHANGED <<pointer, dir, txn, native, anchor, assigned, crashes, errors>> /\ Touch
  BY <1>1, <1>2 DEF VerifyRelease, Release, TypeOK, Shapes, Doing, Reads, Moves, Copies, OptBundle,
       OptReceipt, Keep, world, disk
<1>4. TypeOK'
  BY <1>1, <1>2, <1>3, CopyFacts, Known, TouchIs DEF TypeOK, Turned, Release
<1>5. Shapes' /\ ReleaseOK'
  BY <1>1, <1>2, <1>3, Actors DEF Shapes, ReleaseOK, Reading, Moving, Doing, SameJob, SameTurn, Still,
       Built, Reads, Moves, Installs, Rollbacks, Turned, Release
<1>6. ASSUME ~ touched' PROVE Undisturbed'
  <2>1. ~ touched /\ Undisturbed /\ ~ Interferes'
    BY <1>3, <1>6, Undisturbing
  <2>2. Receipted'
    BY <1>1, <1>2, <1>3, <2>1, CopyFacts, Known DEF Undisturbed, Receipted, Names, Missing, Pointing, Whole,
         Doing, Active, ReleaseOK, Built, SameJob, Reads, Moves, Turned, Release
  <2>3. Pointing'
    BY <1>1, <1>2, <1>3, <2>1, CopyFacts, Known DEF Undisturbed, Pointing, Whole, Names, Doing, AtPrev,
         AtNew, Active, SameJob, SameTurn, Reads, Moves, Reading, Turned, Release
  <2>4. Transacting'
    BY <1>1, <1>2, <1>3, <2>1, CopyFacts, Known DEF Undisturbed, Transacting, Pointing, Active, AtNew,
         Whole, Missing, Doing, Under, Names, SameJob, SameTurn, Reads, Moves, Installs, Turned, Release
  <2>5. Recovering'
    BY <1>2, <2>1, NobodyRecovers DEF Recovering, Turned, Release
  <2>. QED BY <2>1, <2>2, <2>3, <2>4, <2>5 DEF Undisturbed
<1>7. ASSUME ~ touched', crashes' = 0, errors' <= 1 PROVE Quiet'
  <2>1. Undisturbed /\ Quiet /\ ~ Interferes'
    BY <1>3, <1>7, Quieting, Undisturbing
  <2>2. Native'
    BY <1>1, <1>2, <1>3, <2>1, CopyFacts, Known DEF Undisturbed, Pointing, AtPrev, AtNew, Quiet, Native, Of,
         Doing, SameJob, SameTurn, Reads, Moves, Turned, Release
  <2>3. \A p \in Processes : proc'[p].step \notin {"recovering", "recovered", "clearing"}
    BY <1>2, <2>1, NobodyRecovers DEF Turned, Release
  <2>4. Doing' \in Handling => errors' >= 1
    BY <1>1, <1>2, <1>3, <2>1, CopyFacts, Known DEF Undisturbed, Pointing, Active, Whole, Missing, Quiet,
         Doing, Handling, Rollbacks, SameTurn, Reads, Moves, Turned, Release
  <2>5. txn' # None => me'.step \in {"manifest", "clear"} \/ Doing' \in Under
    BY <1>1, <1>2, <1>3, <2>1 DEF Quiet, Doing, Under, SameTurn, Reads, Moves, Turned, Release
  <2>6. errors' = 0 /\ ~ (me'.step = "verify" /\ pointer' = New') => Whichever(pointer)'
    BY <1>1, <1>2, <1>3, <2>1, CopyFacts, Known DEF Undisturbed, Pointing, ReleaseOK, Built, AtPrev, AtNew,
         Quiet, Handling, Rollbacks, Whichever, Doing, SameJob, Reads, Moves, Turned, Release
  <2>7. Doing' \in Built \ {"revert", "clear", "restore"}
        /\ (errors' = 0 \/ Doing' \in Handling) => Whichever(Prev)'
    BY <1>1, <1>2, <1>3, <2>1, CopyFacts, Known DEF Undisturbed, Pointing, ReleaseOK, Built, Handling,
         Rollbacks, AtPrev, AtNew, Quiet, Whichever, Doing, SameJob, SameTurn, Reads, Moves, Turned, Release
  <2>. QED BY <2>2, <2>3, <2>4, <2>5, <2>6, <2>7 DEF Quiet
<1>. QED BY <1>1, <1>4, <1>5, <1>6, <1>7 DEF SkillInv, Shapes

\* The active bundle becomes the one to return to.
LEMMA SetAsideKeeps ==
  ASSUME SkillAssumption, SkillInv, SetAside
  PROVE  SkillInv'
<1>1. TypeOK /\ Shapes /\ ReleaseOK /\ proc \in [Processes -> States]
  BY DEF SkillInv, Shapes
<1>2. me.step = "aside" /\ Turned("copy")
  BY <1>1, GotoTurns DEF SetAside, At, me, Steps, Reads, Moves, Installs, Rollbacks
<1>3. Moved("active", "rollback")
      /\ UNCHANGED <<pointer, txn, native, release, anchor, assigned, crashes, errors>> /\ Touch
  BY <1>1, MovedIs DEF SetAside, Keep, world, Names
<1>4. TypeOK'
  BY <1>1, <1>2, <1>3, CopyFacts, Known, TouchIs DEF TypeOK, Turned, Moved
<1>5. Shapes' /\ ReleaseOK'
  BY <1>1, <1>2, <1>3, Actors DEF Shapes, ReleaseOK, Reading, Moving, Doing, SameJob, SameTurn, Still,
       Built, Reads, Moves, Installs, Rollbacks, Turned, Moved
<1>6. ASSUME ~ touched' PROVE Undisturbed'
  <2>1. ~ touched /\ Undisturbed /\ ~ Interferes'
    BY <1>3, <1>6, Undisturbing
  <2>2. Receipted'
    BY <1>1, <1>2, <1>3, <2>1, CopyFacts, Known DEF Undisturbed, Receipted, Names, Missing, Pointing, Whole,
         Doing, Active, ReleaseOK, Built, SameJob, Reads, Moves, Turned, Moved
  <2>3. Pointing'
    BY <1>1, <1>2, <1>3, <2>1, CopyFacts, Known DEF Undisturbed, Pointing, Whole, Names, Doing, AtPrev,
         AtNew, Active, SameJob, SameTurn, Reads, Moves, Reading, Turned, Moved
  <2>4. Transacting'
    BY <1>1, <1>2, <1>3, <2>1, CopyFacts, Known DEF Undisturbed, Transacting, Pointing, Active, AtNew,
         Whole, Missing, Doing, Under, Names, SameJob, SameTurn, Reads, Moves, Installs, Turned, Moved
  <2>5. Recovering'
    BY <1>2, <2>1, NobodyRecovers DEF Recovering, Turned, Moved
  <2>. QED BY <2>1, <2>2, <2>3, <2>4, <2>5 DEF Undisturbed
<1>7. ASSUME ~ touched', crashes' = 0, errors' <= 1 PROVE Quiet'
  <2>1. Undisturbed /\ Quiet /\ ~ Interferes'
    BY <1>3, <1>7, Quieting, Undisturbing
  <2>2. Native'
    BY <1>1, <1>2, <1>3, <2>1, CopyFacts, Known DEF Undisturbed, Pointing, AtPrev, AtNew, Quiet, Native, Of,
         Doing, SameJob, SameTurn, Reads, Moves, Turned, Moved
  <2>3. \A p \in Processes : proc'[p].step \notin {"recovering", "recovered", "clearing"}
    BY <1>2, <2>1, NobodyRecovers DEF Turned, Moved
  <2>4. Doing' \in Handling => errors' >= 1
    BY <1>1, <1>2, <1>3, <2>1, CopyFacts, Known DEF Undisturbed, Pointing, Active, Whole, Missing, Quiet,
         Doing, Handling, Rollbacks, SameTurn, Reads, Moves, Turned, Moved
  <2>5. txn' # None => me'.step \in {"manifest", "clear"} \/ Doing' \in Under
    BY <1>1, <1>2, <1>3, <2>1 DEF Quiet, Doing, Under, SameTurn, Reads, Moves, Turned, Moved
  <2>6. errors' = 0 /\ ~ (me'.step = "verify" /\ pointer' = New') => Whichever(pointer)'
    BY <1>1, <1>2, <1>3, <2>1, CopyFacts, Known DEF Undisturbed, Pointing, ReleaseOK, Built, AtPrev, AtNew,
         Quiet, Handling, Rollbacks, Whichever, Doing, SameJob, Reads, Moves, Turned, Moved
  <2>7. Doing' \in Built \ {"revert", "clear", "restore"}
        /\ (errors' = 0 \/ Doing' \in Handling) => Whichever(Prev)'
    BY <1>1, <1>2, <1>3, <2>1, CopyFacts, Known DEF Undisturbed, Pointing, ReleaseOK, Built, Handling,
         Rollbacks, AtPrev, AtNew, Quiet, Whichever, Doing, SameJob, SameTurn, Reads, Moves, Turned, Moved
  <2>. QED BY <2>2, <2>3, <2>4, <2>5, <2>6, <2>7 DEF Quiet
<1>. QED BY <1>1, <1>4, <1>5, <1>6, <1>7 DEF SkillInv, Shapes

\* A copy of the new one is made.
LEMMA BeginCopyKeeps ==
  ASSUME SkillAssumption, SkillInv, BeginCopy
  PROVE  SkillInv'
<1>1. TypeOK /\ Shapes /\ ReleaseOK /\ proc \in [Processes -> States]
  BY DEF SkillInv, Shapes
<1>2. me.step = "copy" /\ Turned("copied")
  BY <1>1, GotoTurns DEF BeginCopy, At, me, Steps, Reads, Moves, Installs, Rollbacks
<1>3. Put("active") /\ dir'["active"].receipt = None
      /\ UNCHANGED <<pointer, txn, native, release, anchor, assigned, crashes, errors>> /\ Touch
  <2>1. PICK b \in {New, None} : dir' = [dir EXCEPT !["active"] = [Absent EXCEPT !.bundle = b]]
    BY DEF BeginCopy
  <2>2. [Absent EXCEPT !.bundle = b] \in Copies /\ [Absent EXCEPT !.bundle = b].receipt = None
    BY <1>1, <2>1, Known DEF Absent, Copies, OptReceipt, OptBundle
  <2>. QED BY <1>1, <2>1, <2>2 DEF BeginCopy, Put, TypeOK, Names, Keep, world, disk
<1>4. TypeOK'
  BY <1>1, <1>2, <1>3, CopyFacts, Known, TouchIs DEF TypeOK, Turned, Put
<1>5. Shapes' /\ ReleaseOK'
  BY <1>1, <1>2, <1>3, Actors DEF Shapes, ReleaseOK, Reading, Moving, Doing, SameJob, SameTurn, Still,
       Built, Reads, Moves, Installs, Rollbacks, Turned, Put
<1>6. ASSUME ~ touched' PROVE Undisturbed'
  <2>1. ~ touched /\ Undisturbed /\ ~ Interferes'
    BY <1>3, <1>6, Undisturbing
  <2>2. Receipted'
    BY <1>1, <1>2, <1>3, <2>1, CopyFacts, Known DEF Undisturbed, Receipted, Names, Missing, Pointing, Whole,
         Doing, Active, ReleaseOK, Built, SameJob, Reads, Moves, Turned, Put
  <2>3. Pointing'
    BY <1>1, <1>2, <1>3, <2>1, CopyFacts, Known DEF Undisturbed, Pointing, Whole, Names, Doing, AtPrev,
         AtNew, Active, SameJob, SameTurn, Reads, Moves, Reading, Turned, Put
  <2>4. Transacting'
    BY <1>1, <1>2, <1>3, <2>1, CopyFacts, Known DEF Undisturbed, Transacting, Pointing, Active, AtNew,
         Whole, Missing, Doing, Under, Names, SameJob, SameTurn, Reads, Moves, Installs, Turned, Put
  <2>5. Recovering'
    BY <1>2, <2>1, NobodyRecovers DEF Recovering, Turned, Put
  <2>. QED BY <2>1, <2>2, <2>3, <2>4, <2>5 DEF Undisturbed
<1>7. ASSUME ~ touched', crashes' = 0, errors' <= 1 PROVE Quiet'
  <2>1. Undisturbed /\ Quiet /\ ~ Interferes'
    BY <1>3, <1>7, Quieting, Undisturbing
  <2>2. Native'
    BY <1>1, <1>2, <1>3, <2>1, CopyFacts, Known DEF Undisturbed, Pointing, AtPrev, AtNew, Quiet, Native, Of,
         Doing, SameJob, SameTurn, Reads, Moves, Turned, Put
  <2>3. \A p \in Processes : proc'[p].step \notin {"recovering", "recovered", "clearing"}
    BY <1>2, <2>1, NobodyRecovers DEF Turned, Put
  <2>4. Doing' \in Handling => errors' >= 1
    BY <1>1, <1>2, <1>3, <2>1, CopyFacts, Known DEF Undisturbed, Pointing, Active, Whole, Missing, Quiet,
         Doing, Handling, Rollbacks, SameTurn, Reads, Moves, Turned, Put
  <2>5. txn' # None => me'.step \in {"manifest", "clear"} \/ Doing' \in Under
    BY <1>1, <1>2, <1>3, <2>1 DEF Quiet, Doing, Under, SameTurn, Reads, Moves, Turned, Put
  <2>6. errors' = 0 /\ ~ (me'.step = "verify" /\ pointer' = New') => Whichever(pointer)'
    BY <1>1, <1>2, <1>3, <2>1, CopyFacts, Known DEF Undisturbed, Pointing, ReleaseOK, Built, AtPrev, AtNew,
         Quiet, Handling, Rollbacks, Whichever, Doing, SameJob, Reads, Moves, Turned, Put
  <2>7. Doing' \in Built \ {"revert", "clear", "restore"}
        /\ (errors' = 0 \/ Doing' \in Handling) => Whichever(Prev)'
    BY SMTT(60), <1>1, <1>2, <1>3, <2>1, CopyFacts, Known DEF Undisturbed, Pointing, ReleaseOK, Built,
         Handling, Rollbacks, AtPrev, AtNew, Quiet, Whichever, Doing, SameJob, SameTurn, Reads, Moves, Turned,
         Put
  <2>. QED BY <2>2, <2>3, <2>4, <2>5, <2>6, <2>7 DEF Quiet
<1>. QED BY <1>1, <1>4, <1>5, <1>6, <1>7 DEF SkillInv, Shapes

\* It is whole, and its native skills come next.
LEMMA EndCopyKeeps ==
  ASSUME SkillAssumption, SkillInv, EndCopy
  PROVE  SkillInv'
<1>1. TypeOK /\ Shapes /\ ReleaseOK /\ proc \in [Processes -> States]
  BY DEF SkillInv, Shapes
<1>2. me.step = "copied" /\ New \in Bundles /\ proc' \in [Processes -> States] /\ SameJob /\ Still
      /\ me'.step = "unload" /\ me'.then = "check" /\ me'.catch = "revert" /\ me'.load = New
      /\ me'.drop = SkillsOf(Prev)
  <2>1. me.step = "copied" /\ New \in Bundles /\ Natively("sync", New, SkillsOf(Prev), "check", "revert")
    BY <1>1 DEF EndCopy, At, me, Shapes, Doing, Reads, Moves
  <2>2. SkillsOf(Prev) \in SUBSET SkillIds
    BY <1>1, <2>1, Known, CopyFacts
  <2>3. {"check", "revert"} \subseteq Steps
    BY DEF Steps, Reads, Moves, Installs, Rollbacks
  <2>. QED BY SMTT(60), <1>1, <2>1, <2>2, <2>3, Known, NativelyIs
<1>3. Put("active") /\ Whole("active", New)'
      /\ UNCHANGED <<pointer, txn, native, release, anchor, assigned, crashes, errors>> /\ Touch
  BY <1>1, <1>2 DEF EndCopy, Put, Whole, TypeOK, Names, Copies, OptBundle, OptReceipt, SameJob, Keep, world,
       disk
<1>4. TypeOK'
  BY <1>1, <1>2, <1>3, CopyFacts, Known, TouchIs DEF TypeOK, Put
<1>5. Shapes' /\ ReleaseOK'
  BY <1>1, <1>2, <1>3, Actors DEF Shapes, ReleaseOK, Reading, Moving, Doing, SameJob, SameTurn, Still,
       Built, Reads, Moves, Installs, Rollbacks, Put
<1>6. ASSUME ~ touched' PROVE Undisturbed'
  <2>1. ~ touched /\ Undisturbed /\ ~ Interferes'
    BY <1>3, <1>6, Undisturbing
  <2>2. Receipted'
    BY <1>1, <1>2, <1>3, <2>1, CopyFacts, Known DEF Undisturbed, Receipted, Names, Missing, Pointing, Whole,
         Doing, Active, ReleaseOK, Built, SameJob, Reads, Moves, Put
  <2>3. Pointing'
    BY <1>1, <1>2, <1>3, <2>1, CopyFacts, Known DEF Undisturbed, Pointing, Whole, Names, Doing, AtPrev,
         AtNew, Active, SameJob, SameTurn, Reads, Moves, Reading, Put
  <2>4. Transacting'
    BY <1>1, <1>2, <1>3, <2>1, CopyFacts, Known DEF Undisturbed, Transacting, Pointing, Active, AtNew,
         Whole, Missing, Doing, Under, Names, SameJob, SameTurn, Reads, Moves, Installs, Put
  <2>5. Recovering'
    BY <1>2, <2>1, NobodyRecovers DEF Recovering, Put
  <2>. QED BY <2>1, <2>2, <2>3, <2>4, <2>5 DEF Undisturbed
<1>7. ASSUME ~ touched', crashes' = 0, errors' <= 1 PROVE Quiet'
  <2>1. Undisturbed /\ Quiet /\ ~ Interferes'
    BY <1>3, <1>7, Quieting, Undisturbing
  <2>2. Native'
    BY <1>1, <1>2, <1>3, <2>1, CopyFacts, Known DEF Undisturbed, Pointing, AtPrev, AtNew, Quiet, Native, Of,
         Doing, SameJob, SameTurn, Reads, Moves, Put
  <2>3. \A p \in Processes : proc'[p].step \notin {"recovering", "recovered", "clearing"}
    BY <1>2, <2>1, NobodyRecovers DEF Put
  <2>4. Doing' \in Handling => errors' >= 1
    BY <1>1, <1>2, <1>3, <2>1, CopyFacts, Known DEF Undisturbed, Pointing, Active, Whole, Missing, Quiet,
         Doing, Handling, Rollbacks, SameTurn, Reads, Moves, Put
  <2>5. txn' # None => me'.step \in {"manifest", "clear"} \/ Doing' \in Under
    BY <1>1, <1>2, <1>3, <2>1 DEF Quiet, Doing, Under, SameTurn, Reads, Moves, Put
  <2>6. errors' = 0 /\ ~ (me'.step = "verify" /\ pointer' = New') => Whichever(pointer)'
    BY <1>1, <1>2, <1>3, <2>1, CopyFacts, Known DEF Undisturbed, Pointing, ReleaseOK, Built, AtPrev, AtNew,
         Quiet, Handling, Rollbacks, Whichever, Doing, SameJob, Reads, Moves, Put
  <2>7. Doing' \in Built \ {"revert", "clear", "restore"}
        /\ (errors' = 0 \/ Doing' \in Handling) => Whichever(Prev)'
    BY SMTT(60), <1>1, <1>2, <1>3, <2>1, CopyFacts, Known DEF Undisturbed, Pointing, ReleaseOK, Built,
         Handling, Rollbacks, AtPrev, AtNew, Quiet, Whichever, Doing, SameJob, SameTurn, Reads, Moves, Put
  <2>. QED BY <2>2, <2>3, <2>4, <2>5, <2>6, <2>7 DEF Quiet
<1>. QED BY <1>1, <1>4, <1>5, <1>6, <1>7 DEF SkillInv, Shapes

\* The native skills were not replaced: the directory returns.
LEMMA RevertKeeps ==
  ASSUME SkillAssumption, SkillInv, Revert
  PROVE  SkillInv'
<1>1. TypeOK /\ Shapes /\ ReleaseOK /\ proc \in [Processes -> States]
  BY DEF SkillInv, Shapes
<1>2. me.step = "revert" /\ proc' \in [Processes -> States] /\ me' = Asleep /\ me'.step = "idle" /\ Still
  BY <1>1, SleepIs DEF Revert, At, me
<1>3. Moved("rollback", "active")
      /\ UNCHANGED <<pointer, txn, native, release, anchor, assigned, crashes, errors>> /\ Touch
  BY <1>1, MovedIs DEF Revert, Reinstated, Keep, world, Names
<1>4. TypeOK'
  BY <1>1, <1>2, <1>3, CopyFacts, Known, TouchIs DEF TypeOK, Moved
<1>5. Shapes' /\ ReleaseOK'
  BY <1>1, <1>2, <1>3, Actors DEF Shapes, ReleaseOK, Reading, Moving, Doing, SameJob, SameTurn, Still,
       Built, Reads, Moves, Installs, Rollbacks, Moved
<1>6. ASSUME ~ touched' PROVE Undisturbed'
  <2>1. ~ touched /\ Undisturbed /\ ~ Interferes'
    BY <1>3, <1>6, Undisturbing
  <2>2. Receipted'
    BY <1>1, <1>2, <1>3, <2>1, CopyFacts, Known DEF Undisturbed, Receipted, Names, Missing, Pointing, Whole,
         Doing, Active, ReleaseOK, Built, SameJob, Reads, Moves, Moved
  <2>3. Pointing'
    BY <1>1, <1>2, <1>3, <2>1, CopyFacts, Known DEF Undisturbed, Pointing, Whole, Names, Doing, AtPrev,
         AtNew, Active, SameJob, SameTurn, Reads, Moves, Reading, Moved
  <2>4. Transacting'
    BY <1>1, <1>2, <1>3, <2>1, CopyFacts, Known DEF Undisturbed, Transacting, Pointing, Active, AtNew,
         Whole, Missing, Doing, Under, Names, SameJob, SameTurn, Reads, Moves, Installs, Moved
  <2>5. Recovering'
    BY <1>2, <2>1, NobodyRecovers DEF Recovering, Moved
  <2>. QED BY <2>1, <2>2, <2>3, <2>4, <2>5 DEF Undisturbed
<1>7. ASSUME ~ touched', crashes' = 0, errors' <= 1 PROVE Quiet'
  <2>1. Undisturbed /\ Quiet /\ ~ Interferes'
    BY <1>3, <1>7, Quieting, Undisturbing
  <2>2. Native'
    BY <1>1, <1>2, <1>3, <2>1, CopyFacts, Known DEF Undisturbed, Pointing, AtPrev, AtNew, Quiet, Native, Of,
         Doing, SameJob, SameTurn, Reads, Moves, Moved
  <2>3. \A p \in Processes : proc'[p].step \notin {"recovering", "recovered", "clearing"}
    BY <1>2, <2>1, NobodyRecovers DEF Moved
  <2>4. Doing' \in Handling => errors' >= 1
    BY <1>1, <1>2, <1>3, <2>1, CopyFacts, Known DEF Undisturbed, Pointing, Active, Whole, Missing, Quiet,
         Doing, Handling, Rollbacks, SameTurn, Reads, Moves, Moved
  <2>5. txn' # None => me'.step \in {"manifest", "clear"} \/ Doing' \in Under
    BY <1>1, <1>2, <1>3, <2>1 DEF Quiet, Doing, Under, SameTurn, Reads, Moves, Moved
  <2>6. errors' = 0 /\ ~ (me'.step = "verify" /\ pointer' = New') => Whichever(pointer)'
    BY <1>1, <1>2, <1>3, <2>1, CopyFacts, Known DEF Undisturbed, Pointing, ReleaseOK, Built, AtPrev, AtNew,
         Quiet, Handling, Rollbacks, Whichever, Doing, SameJob, Reads, Moves, Moved
  <2>7. Doing' \in Built \ {"revert", "clear", "restore"}
        /\ (errors' = 0 \/ Doing' \in Handling) => Whichever(Prev)'
    BY <1>1, <1>2, <1>3, <2>1, CopyFacts, Known DEF Undisturbed, Pointing, ReleaseOK, Built, Handling,
         Rollbacks, AtPrev, AtNew, Quiet, Whichever, Doing, SameJob, SameTurn, Reads, Moves, Moved
  <2>. QED BY <2>2, <2>3, <2>4, <2>5, <2>6, <2>7 DEF Quiet
<1>. QED BY <1>1, <1>4, <1>5, <1>6, <1>7 DEF SkillInv, Shapes

\* The installation is checked.
LEMMA CheckKeeps ==
  ASSUME SkillAssumption, SkillInv, Check
  PROVE  SkillInv'
<1>1. TypeOK /\ Shapes /\ ReleaseOK /\ proc \in [Processes -> States]
  BY DEF SkillInv, Shapes
<1>2. me.step = "check" /\ Turned("receipt")
  BY <1>1, GotoTurns DEF Check, At, me, Steps, Reads, Moves, Installs, Rollbacks
<1>3. UNCHANGED <<pointer, dir, txn, native, release, anchor, assigned, crashes, errors>> /\ Touch
  BY DEF Check, Keep, world, disk
<1>4. TypeOK'
  BY <1>1, <1>2, <1>3, CopyFacts, Known, TouchIs DEF TypeOK, Turned
<1>5. Shapes' /\ ReleaseOK'
  BY <1>1, <1>2, <1>3, Actors DEF Shapes, ReleaseOK, Reading, Moving, Doing, SameJob, SameTurn, Still,
       Built, Reads, Moves, Installs, Rollbacks, Turned
<1>6. ASSUME ~ touched' PROVE Undisturbed'
  <2>1. ~ touched /\ Undisturbed /\ ~ Interferes'
    BY <1>3, <1>6, Undisturbing
  <2>2. Receipted'
    BY <1>1, <1>2, <1>3, <2>1, CopyFacts, Known DEF Undisturbed, Receipted, Names, Missing, Pointing, Whole,
         Doing, Active, ReleaseOK, Built, SameJob, Reads, Moves, Turned
  <2>3. Pointing'
    BY <1>1, <1>2, <1>3, <2>1, CopyFacts, Known DEF Undisturbed, Pointing, Whole, Names, Doing, AtPrev,
         AtNew, Active, SameJob, SameTurn, Reads, Moves, Reading, Turned
  <2>4. Transacting'
    BY <1>1, <1>2, <1>3, <2>1, CopyFacts, Known DEF Undisturbed, Transacting, Pointing, Active, AtNew,
         Whole, Missing, Doing, Under, Names, SameJob, SameTurn, Reads, Moves, Installs, Turned
  <2>5. Recovering'
    BY <1>2, <2>1, NobodyRecovers DEF Recovering, Turned
  <2>. QED BY <2>1, <2>2, <2>3, <2>4, <2>5 DEF Undisturbed
<1>7. ASSUME ~ touched', crashes' = 0, errors' <= 1 PROVE Quiet'
  <2>1. Undisturbed /\ Quiet /\ ~ Interferes'
    BY <1>3, <1>7, Quieting, Undisturbing
  <2>2. Native'
    BY <1>1, <1>2, <1>3, <2>1, CopyFacts, Known DEF Undisturbed, Pointing, AtPrev, AtNew, Quiet, Native, Of,
         Doing, SameJob, SameTurn, Reads, Moves, Turned
  <2>3. \A p \in Processes : proc'[p].step \notin {"recovering", "recovered", "clearing"}
    BY <1>2, <2>1, NobodyRecovers DEF Turned
  <2>4. Doing' \in Handling => errors' >= 1
    BY <1>1, <1>2, <1>3, <2>1, CopyFacts, Known DEF Undisturbed, Pointing, Active, Whole, Missing, Quiet,
         Doing, Handling, Rollbacks, SameTurn, Reads, Moves, Turned
  <2>5. txn' # None => me'.step \in {"manifest", "clear"} \/ Doing' \in Under
    BY <1>1, <1>2, <1>3, <2>1 DEF Quiet, Doing, Under, SameTurn, Reads, Moves, Turned
  <2>6. errors' = 0 /\ ~ (me'.step = "verify" /\ pointer' = New') => Whichever(pointer)'
    BY <1>1, <1>2, <1>3, <2>1, CopyFacts, Known DEF Undisturbed, Pointing, ReleaseOK, Built, AtPrev, AtNew,
         Quiet, Handling, Rollbacks, Whichever, Doing, SameJob, Reads, Moves, Turned
  <2>7. Doing' \in Built \ {"revert", "clear", "restore"}
        /\ (errors' = 0 \/ Doing' \in Handling) => Whichever(Prev)'
    BY <1>1, <1>2, <1>3, <2>1, CopyFacts, Known DEF Undisturbed, Pointing, ReleaseOK, Built, Handling,
         Rollbacks, AtPrev, AtNew, Quiet, Whichever, Doing, SameJob, SameTurn, Reads, Moves, Turned
  <2>. QED BY <2>2, <2>3, <2>4, <2>5, <2>6, <2>7 DEF Quiet
<1>. QED BY <1>1, <1>4, <1>5, <1>6, <1>7 DEF SkillInv, Shapes

\* The installation is taken back, first in the directory.
LEMMA UndoKeeps ==
  ASSUME SkillAssumption, SkillInv, Undo
  PROVE  SkillInv'
<1>1. TypeOK /\ Shapes /\ ReleaseOK /\ proc \in [Processes -> States]
  BY DEF SkillInv, Shapes
<1>2. me.step = "undo" /\ New \in Bundles /\ proc' \in [Processes -> States] /\ SameJob /\ Still
      /\ me'.step = "unload" /\ me'.then = "repoint" /\ me'.catch \in {"repoint", "idle"} /\ me'.load = Prev
      /\ me'.drop = Skills[New]
  <2>1. me.step = "undo" /\ New \in Bundles
        /\ Natively("sync", Prev, Skills[New], "repoint", IF proc["sync"].write THEN "repoint" ELSE "idle")
    BY <1>1 DEF Undo, At, me, Shapes, Doing, Reads, Moves
  <2>2. Skills[New] \in SUBSET SkillIds
    BY <1>1, <2>1, Known, CopyFacts
  <2>3. {"repoint", "idle"} \subseteq Steps
    BY DEF Steps, Reads, Moves, Installs, Rollbacks
  <2>. DEFINE c == IF proc["sync"].write THEN "repoint" ELSE "idle"
  <2>4. c \in Steps /\ c \in {"repoint", "idle"} /\ Natively("sync", Prev, Skills[New], "repoint", c)
    BY <2>1, <2>3
  <2>. HIDE DEF c
  <2>. QED BY SMTT(60), <1>1, <2>1, <2>2, <2>3, <2>4, Known, NativelyIs
<1>3. Moved("rollback", "active")
      /\ UNCHANGED <<pointer, txn, native, release, anchor, assigned, crashes, errors>> /\ Touch
  BY <1>1, MovedIs DEF Undo, Reinstated, Keep, world, Names
<1>4. TypeOK'
  BY <1>1, <1>2, <1>3, CopyFacts, Known, TouchIs DEF TypeOK, Moved
<1>5. Shapes' /\ ReleaseOK'
  BY <1>1, <1>2, <1>3, Actors DEF Shapes, ReleaseOK, Reading, Moving, Doing, SameJob, SameTurn, Still,
       Built, Reads, Moves, Installs, Rollbacks, Moved
<1>6. ASSUME ~ touched' PROVE Undisturbed'
  <2>1. ~ touched /\ Undisturbed /\ ~ Interferes'
    BY <1>3, <1>6, Undisturbing
  <2>2. Receipted'
    BY <1>1, <1>2, <1>3, <2>1, CopyFacts, Known DEF Undisturbed, Receipted, Names, Missing, Pointing, Whole,
         Doing, Active, ReleaseOK, Built, SameJob, Reads, Moves, Moved
  <2>3. Pointing'
    BY <1>1, <1>2, <1>3, <2>1, CopyFacts, Known DEF Undisturbed, Pointing, Whole, Names, Doing, AtPrev,
         AtNew, Active, SameJob, SameTurn, Reads, Moves, Reading, Moved
  <2>4. Transacting'
    BY <1>1, <1>2, <1>3, <2>1, CopyFacts, Known DEF Undisturbed, Transacting, Pointing, Active, AtNew,
         Whole, Missing, Doing, Under, Names, SameJob, SameTurn, Reads, Moves, Installs, Moved
  <2>5. Recovering'
    BY <1>2, <2>1, NobodyRecovers DEF Recovering, Moved
  <2>. QED BY <2>1, <2>2, <2>3, <2>4, <2>5 DEF Undisturbed
<1>7. ASSUME ~ touched', crashes' = 0, errors' <= 1 PROVE Quiet'
  <2>1. Undisturbed /\ Quiet /\ ~ Interferes'
    BY <1>3, <1>7, Quieting, Undisturbing
  <2>2. Native'
    BY <1>1, <1>2, <1>3, <2>1, CopyFacts, Known DEF Undisturbed, Pointing, AtPrev, AtNew, Quiet, Native, Of,
         Doing, SameJob, SameTurn, Reads, Moves, Moved
  <2>3. \A p \in Processes : proc'[p].step \notin {"recovering", "recovered", "clearing"}
    BY <1>2, <2>1, NobodyRecovers DEF Moved
  <2>4. Doing' \in Handling => errors' >= 1
    BY <1>1, <1>2, <1>3, <2>1, CopyFacts, Known DEF Undisturbed, Pointing, Active, Whole, Missing, Quiet,
         Doing, Handling, Rollbacks, SameTurn, Reads, Moves, Moved
  <2>5. txn' # None => me'.step \in {"manifest", "clear"} \/ Doing' \in Under
    BY <1>1, <1>2, <1>3, <2>1 DEF Quiet, Doing, Under, SameTurn, Reads, Moves, Moved
  <2>6. errors' = 0 /\ ~ (me'.step = "verify" /\ pointer' = New') => Whichever(pointer)'
    BY <1>1, <1>2, <1>3, <2>1, CopyFacts, Known DEF Undisturbed, Pointing, ReleaseOK, Built, AtPrev, AtNew,
         Quiet, Handling, Rollbacks, Whichever, Doing, SameJob, Reads, Moves, Moved
  <2>7. Doing' \in Built \ {"revert", "clear", "restore"}
        /\ (errors' = 0 \/ Doing' \in Handling) => Whichever(Prev)'
    BY SMTT(60), <1>1, <1>2, <1>3, <2>1, CopyFacts, Known DEF Undisturbed, Pointing, ReleaseOK, Built,
         Handling, Rollbacks, AtPrev, AtNew, Quiet, Whichever, Doing, SameJob, SameTurn, Reads, Moves, Moved
  <2>. QED BY <2>2, <2>3, <2>4, <2>5, <2>6, <2>7 DEF Quiet
<1>. QED BY <1>1, <1>4, <1>5, <1>6, <1>7 DEF SkillInv, Shapes

\* ... and last in the pointer.
LEMMA RepointKeeps ==
  ASSUME SkillAssumption, SkillInv, Repoint
  PROVE  SkillInv'
<1>1. TypeOK /\ Shapes /\ ReleaseOK /\ proc \in [Processes -> States]
  BY DEF SkillInv, Shapes
<1>2. me.step = "repoint" /\ proc' \in [Processes -> States] /\ me' = Asleep /\ me'.step = "idle" /\ Still
  BY <1>1, SleepIs DEF Repoint, At, me
<1>3. pointer' = Prev /\ Prev \in OptBundle
      /\ UNCHANGED <<dir, txn, native, release, anchor, assigned, crashes, errors>> /\ Touch
  BY <1>1, Actors DEF Repoint, Prev, States, Keep, world, disk
<1>4. TypeOK'
  BY <1>1, <1>2, <1>3, CopyFacts, Known, TouchIs DEF TypeOK
<1>5. Shapes' /\ ReleaseOK'
  BY <1>1, <1>2, <1>3, Actors DEF Shapes, ReleaseOK, Reading, Moving, Doing, SameJob, SameTurn, Still,
       Built, Reads, Moves, Installs, Rollbacks
<1>6. ASSUME ~ touched' PROVE Undisturbed'
  <2>1. ~ touched /\ Undisturbed /\ ~ Interferes'
    BY <1>3, <1>6, Undisturbing
  <2>2. Receipted'
    BY <1>1, <1>2, <1>3, <2>1, CopyFacts, Known DEF Undisturbed, Receipted, Names, Missing, Pointing, Whole,
         Doing, Active, ReleaseOK, Built, SameJob, Reads, Moves
  <2>3. Pointing'
    BY <1>1, <1>2, <1>3, <2>1, CopyFacts, Known DEF Undisturbed, Pointing, Whole, Names, Doing, AtPrev,
         AtNew, Active, SameJob, SameTurn, Reads, Moves, Reading
  <2>4. Transacting'
    BY <1>1, <1>2, <1>3, <2>1, CopyFacts, Known DEF Undisturbed, Transacting, Pointing, Active, AtNew,
         Whole, Missing, Doing, Under, Names, SameJob, SameTurn, Reads, Moves, Installs
  <2>5. Recovering'
    BY <1>2, <2>1, NobodyRecovers DEF Recovering
  <2>. QED BY <2>1, <2>2, <2>3, <2>4, <2>5 DEF Undisturbed
<1>7. ASSUME ~ touched', crashes' = 0, errors' <= 1 PROVE Quiet'
  <2>1. Undisturbed /\ Quiet /\ ~ Interferes'
    BY <1>3, <1>7, Quieting, Undisturbing
  <2>2. Native'
    BY <1>1, <1>2, <1>3, <2>1, CopyFacts, Known DEF Undisturbed, Pointing, AtPrev, AtNew, Quiet, Native, Of,
         Doing, SameJob, SameTurn, Reads, Moves
  <2>3. \A p \in Processes : proc'[p].step \notin {"recovering", "recovered", "clearing"}
    BY <1>2, <2>1, NobodyRecovers
  <2>4. Doing' \in Handling => errors' >= 1
    BY <1>1, <1>2, <1>3, <2>1, CopyFacts, Known DEF Undisturbed, Pointing, Active, Whole, Missing, Quiet,
         Doing, Handling, Rollbacks, SameTurn, Reads, Moves
  <2>5. txn' # None => me'.step \in {"manifest", "clear"} \/ Doing' \in Under
    BY <1>1, <1>2, <1>3, <2>1 DEF Quiet, Doing, Under, SameTurn, Reads, Moves
  <2>6. errors' = 0 /\ ~ (me'.step = "verify" /\ pointer' = New') => Whichever(pointer)'
    BY <1>1, <1>2, <1>3, <2>1, CopyFacts, Known DEF Undisturbed, Pointing, ReleaseOK, Built, AtPrev, AtNew,
         Quiet, Handling, Rollbacks, Whichever, Doing, SameJob, Reads, Moves
  <2>7. Doing' \in Built \ {"revert", "clear", "restore"}
        /\ (errors' = 0 \/ Doing' \in Handling) => Whichever(Prev)'
    BY <1>1, <1>2, <1>3, <2>1, CopyFacts, Known DEF Undisturbed, Pointing, ReleaseOK, Built, Handling,
         Rollbacks, AtPrev, AtNew, Quiet, Whichever, Doing, SameJob, SameTurn, Reads, Moves
  <2>. QED BY <2>2, <2>3, <2>4, <2>5, <2>6, <2>7 DEF Quiet
<1>. QED BY <1>1, <1>4, <1>5, <1>6, <1>7 DEF SkillInv, Shapes

\* The receipt goes into the release, ...
LEMMA WriteReleaseReceiptKeeps ==
  ASSUME SkillAssumption, SkillInv, WriteReleaseReceipt
  PROVE  SkillInv'
<1>1. TypeOK /\ Shapes /\ ReleaseOK /\ proc \in [Processes -> States]
  BY DEF SkillInv, Shapes
<1>2. me.step = "receipt" /\ New \in Bundles /\ Turned("publish")
  BY <1>1, KeepsReceipt, NewReceiptIs DEF WriteReleaseReceipt, At, me, Shapes, Doing, Reads, Moves
<1>3. New \in Bundles /\ Release(New) /\ release'[New].whole = release[New].whole
      /\ UNCHANGED <<pointer, dir, txn, native, anchor, assigned, crashes, errors>> /\ Touch
  BY <1>1, <1>2, NewReceiptIs DEF WriteReleaseReceipt, Release, TypeOK, Shapes, Doing, Reads, Moves, Copies,
       OptReceipt, Keep, world, disk
<1>4. TypeOK'
  BY <1>1, <1>2, <1>3, CopyFacts, Known, TouchIs DEF TypeOK, Release, Turned
<1>5. Shapes' /\ ReleaseOK'
  BY <1>1, <1>2, <1>3, Actors DEF Shapes, ReleaseOK, Reading, Moving, Doing, SameJob, SameTurn, Still,
       Built, Reads, Moves, Installs, Rollbacks, Release, Turned
<1>6. ASSUME ~ touched' PROVE Undisturbed'
  <2>1. ~ touched /\ Undisturbed /\ ~ Interferes'
    BY <1>3, <1>6, Undisturbing
  <2>2. Receipted'
    BY <1>1, <1>2, <1>3, <2>1, CopyFacts, Known DEF Undisturbed, Receipted, Names, Missing, Pointing, Whole,
         Doing, Active, ReleaseOK, Built, SameJob, Reads, Moves, Release, Turned
  <2>3. Pointing'
    BY <1>1, <1>2, <1>3, <2>1, CopyFacts, Known DEF Undisturbed, Pointing, Whole, Names, Doing, AtPrev,
         AtNew, Active, SameJob, SameTurn, Reads, Moves, Reading, Release, Turned
  <2>4. Transacting'
    BY <1>1, <1>2, <1>3, <2>1, CopyFacts, Known DEF Undisturbed, Transacting, Pointing, Active, AtNew,
         Whole, Missing, Doing, Under, Names, SameJob, SameTurn, Reads, Moves, Installs, Release, Turned
  <2>5. Recovering'
    BY <1>2, <2>1, NobodyRecovers DEF Recovering, Release, Turned
  <2>. QED BY <2>1, <2>2, <2>3, <2>4, <2>5 DEF Undisturbed
<1>7. ASSUME ~ touched', crashes' = 0, errors' <= 1 PROVE Quiet'
  <2>1. Undisturbed /\ Quiet /\ ~ Interferes'
    BY <1>3, <1>7, Quieting, Undisturbing
  <2>2. Native'
    BY <1>1, <1>2, <1>3, <2>1, CopyFacts, Known DEF Undisturbed, Pointing, AtPrev, AtNew, Quiet, Native, Of,
         Doing, SameJob, SameTurn, Reads, Moves, Release, Turned
  <2>3. \A p \in Processes : proc'[p].step \notin {"recovering", "recovered", "clearing"}
    BY <1>2, <2>1, NobodyRecovers DEF Release, Turned
  <2>4. Doing' \in Handling => errors' >= 1
    BY <1>1, <1>2, <1>3, <2>1, CopyFacts, Known DEF Undisturbed, Pointing, Active, Whole, Missing, Quiet,
         Doing, Handling, Rollbacks, SameTurn, Reads, Moves, Release, Turned
  <2>5. txn' # None => me'.step \in {"manifest", "clear"} \/ Doing' \in Under
    BY <1>1, <1>2, <1>3, <2>1 DEF Quiet, Doing, Under, SameTurn, Reads, Moves, Release, Turned
  <2>6. errors' = 0 /\ ~ (me'.step = "verify" /\ pointer' = New') => Whichever(pointer)'
    BY <1>1, <1>2, <1>3, <2>1, CopyFacts, Known DEF Undisturbed, Pointing, ReleaseOK, Built, AtPrev, AtNew,
         Quiet, Handling, Rollbacks, Whichever, Doing, SameJob, Reads, Moves, Release, Turned
  <2>7. Doing' \in Built \ {"revert", "clear", "restore"}
        /\ (errors' = 0 \/ Doing' \in Handling) => Whichever(Prev)'
    BY <1>1, <1>2, <1>3, <2>1, CopyFacts, Known DEF Undisturbed, Pointing, ReleaseOK, Built, Handling,
         Rollbacks, AtPrev, AtNew, Quiet, Whichever, Doing, SameJob, SameTurn, Reads, Moves, Release, Turned
  <2>. QED BY <2>2, <2>3, <2>4, <2>5, <2>6, <2>7 DEF Quiet
<1>. QED BY <1>1, <1>4, <1>5, <1>6, <1>7 DEF SkillInv, Shapes

\* ... and into the active copy, if it is there.
LEMMA WriteActiveReceiptKeeps ==
  ASSUME SkillAssumption, SkillInv, WriteActiveReceipt
  PROVE  SkillInv'
<1>1. TypeOK /\ Shapes /\ ReleaseOK /\ proc \in [Processes -> States]
  BY DEF SkillInv, Shapes
<1>2. me.step = "publish" /\ (IF Missing("active") THEN Turned("undo") ELSE Turned("point"))
  BY <1>1, GotoTurns, KeepsFailure DEF WriteActiveReceipt, At, me, Steps, Reads, Moves, Installs, Rollbacks
<1>3. Put("active")
      /\ (IF Missing("active") THEN dir' = dir
          ELSE dir'["active"] \in Copies /\ dir'["active"].bundle = dir["active"].bundle /\ dir'["active"].whole = dir["active"].whole)
      /\ UNCHANGED <<pointer, txn, native, release, anchor, assigned, crashes, errors>> /\ Touch
  BY <1>1, <1>2, Known, ReceiptIsPut DEF WriteActiveReceipt, Put, TypeOK, States, me, Keep, world, disk
<1>4. TypeOK'
  BY <1>1, <1>2, <1>3, CopyFacts, Known, TouchIs DEF TypeOK, Put, Turned
<1>5. Shapes' /\ ReleaseOK'
  BY <1>1, <1>2, <1>3, Actors DEF Shapes, ReleaseOK, Reading, Moving, Doing, SameJob, SameTurn, Still,
       Built, Reads, Moves, Installs, Rollbacks, Put, Turned
<1>6. ASSUME ~ touched' PROVE Undisturbed'
  <2>1. ~ touched /\ Undisturbed /\ ~ Interferes'
    BY <1>3, <1>6, Undisturbing
  <2>2. Receipted'
    BY <1>1, <1>2, <1>3, <2>1, CopyFacts, Known DEF Undisturbed, Receipted, Names, Missing, Pointing, Whole,
         Doing, Active, ReleaseOK, Built, SameJob, Reads, Moves, Put, Turned
  <2>3. Pointing'
    BY <1>1, <1>2, <1>3, <2>1, CopyFacts, Known DEF Undisturbed, Pointing, Whole, Names, Doing, AtPrev,
         AtNew, Active, SameJob, SameTurn, Reads, Moves, Reading, Put, Turned
  <2>4. Transacting'
    BY <1>1, <1>2, <1>3, <2>1, CopyFacts, Known DEF Undisturbed, Transacting, Pointing, Active, AtNew,
         Whole, Missing, Doing, Under, Names, SameJob, SameTurn, Reads, Moves, Installs, Put, Turned
  <2>5. Recovering'
    BY <1>2, <2>1, NobodyRecovers DEF Recovering, Put, Turned
  <2>. QED BY <2>1, <2>2, <2>3, <2>4, <2>5 DEF Undisturbed
<1>7. ASSUME ~ touched', crashes' = 0, errors' <= 1 PROVE Quiet'
  <2>1. Undisturbed /\ Quiet /\ ~ Interferes'
    BY <1>3, <1>7, Quieting, Undisturbing
  <2>2. Native'
    BY <1>1, <1>2, <1>3, <2>1, CopyFacts, Known DEF Undisturbed, Pointing, AtPrev, AtNew, Quiet, Native, Of,
         Doing, SameJob, SameTurn, Reads, Moves, Put, Turned
  <2>3. \A p \in Processes : proc'[p].step \notin {"recovering", "recovered", "clearing"}
    BY <1>2, <2>1, NobodyRecovers DEF Put, Turned
  <2>4. Doing' \in Handling => errors' >= 1
    BY <1>1, <1>2, <1>3, <2>1, CopyFacts, Known DEF Undisturbed, Pointing, Active, Whole, Missing, Quiet,
         Doing, Handling, Rollbacks, SameTurn, Reads, Moves, Put, Turned
  <2>5. txn' # None => me'.step \in {"manifest", "clear"} \/ Doing' \in Under
    BY <1>1, <1>2, <1>3, <2>1 DEF Quiet, Doing, Under, SameTurn, Reads, Moves, Put, Turned
  <2>6. errors' = 0 /\ ~ (me'.step = "verify" /\ pointer' = New') => Whichever(pointer)'
    BY <1>1, <1>2, <1>3, <2>1, CopyFacts, Known DEF Undisturbed, Pointing, ReleaseOK, Built, AtPrev, AtNew,
         Quiet, Handling, Rollbacks, Whichever, Doing, SameJob, Reads, Moves, Put, Turned
  <2>7. Doing' \in Built \ {"revert", "clear", "restore"}
        /\ (errors' = 0 \/ Doing' \in Handling) => Whichever(Prev)'
    <3>1. ~ Missing("active")
      BY <1>1, <1>2, <2>1, CopyFacts DEF Undisturbed, Pointing, Active, Doing, Whole, Missing, Reads, Moves
    <3>2. Doing = "publish" /\ Doing' = "point" /\ SameJob
      BY <1>2, <3>1 DEF Doing, Turned, Reads, Moves
    <3>. QED BY <1>3, <2>1, <3>2 DEF Quiet, Built, Handling, Rollbacks, Whichever, SameJob
  <2>. QED BY <2>2, <2>3, <2>4, <2>5, <2>6, <2>7 DEF Quiet
<1>. QED BY <1>1, <1>4, <1>5, <1>6, <1>7 DEF SkillInv, Shapes

\* The pointer moves to the new bundle.
LEMMA SwitchPointerKeeps ==
  ASSUME SkillAssumption, SkillInv, SwitchPointer
  PROVE  SkillInv'
<1>1. TypeOK /\ Shapes /\ ReleaseOK /\ proc \in [Processes -> States]
  BY DEF SkillInv, Shapes
<1>2. me.step = "point" /\ Turned("anchor")
  BY <1>1, GotoTurns DEF SwitchPointer, At, me, Steps, Reads, Moves, Installs, Rollbacks
<1>3. pointer' = New /\ New \in Bundles
      /\ UNCHANGED <<dir, txn, native, release, anchor, assigned, crashes, errors>> /\ Touch
  BY <1>1, <1>2 DEF SwitchPointer, Shapes, Doing, Reads, Moves, Keep, world, disk
<1>4. TypeOK'
  BY <1>1, <1>2, <1>3, CopyFacts, Known, TouchIs DEF TypeOK, Turned
<1>5. Shapes' /\ ReleaseOK'
  BY <1>1, <1>2, <1>3, Actors DEF Shapes, ReleaseOK, Reading, Moving, Doing, SameJob, SameTurn, Still,
       Built, Reads, Moves, Installs, Rollbacks, Turned
<1>6. ASSUME ~ touched' PROVE Undisturbed'
  <2>1. ~ touched /\ Undisturbed /\ ~ Interferes'
    BY <1>3, <1>6, Undisturbing
  <2>2. Receipted'
    BY <1>1, <1>2, <1>3, <2>1, CopyFacts, Known DEF Undisturbed, Receipted, Names, Missing, Pointing, Whole,
         Doing, Active, ReleaseOK, Built, SameJob, Reads, Moves, Turned
  <2>3. Pointing'
    BY <1>1, <1>2, <1>3, <2>1, CopyFacts, Known DEF Undisturbed, Pointing, Whole, Names, Doing, AtPrev,
         AtNew, Active, SameJob, SameTurn, Reads, Moves, Reading, Turned
  <2>4. Transacting'
    BY <1>1, <1>2, <1>3, <2>1, CopyFacts, Known DEF Undisturbed, Transacting, Pointing, Active, AtNew,
         Whole, Missing, Doing, Under, Names, SameJob, SameTurn, Reads, Moves, Installs, Turned
  <2>5. Recovering'
    BY <1>2, <2>1, NobodyRecovers DEF Recovering, Turned
  <2>. QED BY <2>1, <2>2, <2>3, <2>4, <2>5 DEF Undisturbed
<1>7. ASSUME ~ touched', crashes' = 0, errors' <= 1 PROVE Quiet'
  <2>1. Undisturbed /\ Quiet /\ ~ Interferes'
    BY <1>3, <1>7, Quieting, Undisturbing
  <2>2. Native'
    BY <1>1, <1>2, <1>3, <2>1, CopyFacts, Known DEF Undisturbed, Pointing, AtPrev, AtNew, Quiet, Native, Of,
         Doing, SameJob, SameTurn, Reads, Moves, Turned
  <2>3. \A p \in Processes : proc'[p].step \notin {"recovering", "recovered", "clearing"}
    BY <1>2, <2>1, NobodyRecovers DEF Turned
  <2>4. Doing' \in Handling => errors' >= 1
    BY <1>1, <1>2, <1>3, <2>1, CopyFacts, Known DEF Undisturbed, Pointing, Active, Whole, Missing, Quiet,
         Doing, Handling, Rollbacks, SameTurn, Reads, Moves, Turned
  <2>5. txn' # None => me'.step \in {"manifest", "clear"} \/ Doing' \in Under
    BY <1>1, <1>2, <1>3, <2>1 DEF Quiet, Doing, Under, SameTurn, Reads, Moves, Turned
  <2>6. errors' = 0 /\ ~ (me'.step = "verify" /\ pointer' = New') => Whichever(pointer)'
    BY <1>1, <1>2, <1>3, <2>1, CopyFacts, Known DEF Undisturbed, Pointing, ReleaseOK, Built, AtPrev, AtNew,
         Quiet, Handling, Rollbacks, Whichever, Doing, SameJob, Reads, Moves, Turned
  <2>7. Doing' \in Built \ {"revert", "clear", "restore"}
        /\ (errors' = 0 \/ Doing' \in Handling) => Whichever(Prev)'
    BY <1>1, <1>2, <1>3, <2>1, CopyFacts, Known DEF Undisturbed, Pointing, ReleaseOK, Built, Handling,
         Rollbacks, AtPrev, AtNew, Quiet, Whichever, Doing, SameJob, SameTurn, Reads, Moves, Turned
  <2>. QED BY <2>2, <2>3, <2>4, <2>5, <2>6, <2>7 DEF Quiet
<1>. QED BY <1>1, <1>4, <1>5, <1>6, <1>7 DEF SkillInv, Shapes

\* The receipt is anchored, ...
LEMMA SaveAnchorKeeps ==
  ASSUME SkillAssumption, SkillInv, SaveAnchor
  PROVE  SkillInv'
<1>1. TypeOK /\ Shapes /\ ReleaseOK /\ proc \in [Processes -> States]
  BY DEF SkillInv, Shapes
<1>2. me.step = "anchor" /\ Turned("post")
  BY <1>1, GotoTurns DEF SaveAnchor, At, me, Steps, Reads, Moves, Installs, Rollbacks
<1>3. anchor' \in OptReceipt /\ UNCHANGED <<pointer, dir, txn, native, release, assigned, crashes, errors>>
      /\ Touch
  BY <1>1, Actors DEF SaveAnchor, States, Keep, world, disk
<1>4. TypeOK'
  BY <1>1, <1>2, <1>3, CopyFacts, Known, TouchIs DEF TypeOK, Turned
<1>5. Shapes' /\ ReleaseOK'
  BY <1>1, <1>2, <1>3, Actors DEF Shapes, ReleaseOK, Reading, Moving, Doing, SameJob, SameTurn, Still,
       Built, Reads, Moves, Installs, Rollbacks, Turned
<1>6. ASSUME ~ touched' PROVE Undisturbed'
  <2>1. ~ touched /\ Undisturbed /\ ~ Interferes'
    BY <1>3, <1>6, Undisturbing
  <2>2. Receipted'
    BY <1>1, <1>2, <1>3, <2>1, CopyFacts, Known DEF Undisturbed, Receipted, Names, Missing, Pointing, Whole,
         Doing, Active, ReleaseOK, Built, SameJob, Reads, Moves, Turned
  <2>3. Pointing'
    BY <1>1, <1>2, <1>3, <2>1, CopyFacts, Known DEF Undisturbed, Pointing, Whole, Names, Doing, AtPrev,
         AtNew, Active, SameJob, SameTurn, Reads, Moves, Reading, Turned
  <2>4. Transacting'
    BY <1>1, <1>2, <1>3, <2>1, CopyFacts, Known DEF Undisturbed, Transacting, Pointing, Active, AtNew,
         Whole, Missing, Doing, Under, Names, SameJob, SameTurn, Reads, Moves, Installs, Turned
  <2>5. Recovering'
    BY <1>2, <2>1, NobodyRecovers DEF Recovering, Turned
  <2>. QED BY <2>1, <2>2, <2>3, <2>4, <2>5 DEF Undisturbed
<1>7. ASSUME ~ touched', crashes' = 0, errors' <= 1 PROVE Quiet'
  <2>1. Undisturbed /\ Quiet /\ ~ Interferes'
    BY <1>3, <1>7, Quieting, Undisturbing
  <2>2. Native'
    BY <1>1, <1>2, <1>3, <2>1, CopyFacts, Known DEF Undisturbed, Pointing, AtPrev, AtNew, Quiet, Native, Of,
         Doing, SameJob, SameTurn, Reads, Moves, Turned
  <2>3. \A p \in Processes : proc'[p].step \notin {"recovering", "recovered", "clearing"}
    BY <1>2, <2>1, NobodyRecovers DEF Turned
  <2>4. Doing' \in Handling => errors' >= 1
    BY <1>1, <1>2, <1>3, <2>1, CopyFacts, Known DEF Undisturbed, Pointing, Active, Whole, Missing, Quiet,
         Doing, Handling, Rollbacks, SameTurn, Reads, Moves, Turned
  <2>5. txn' # None => me'.step \in {"manifest", "clear"} \/ Doing' \in Under
    BY <1>1, <1>2, <1>3, <2>1 DEF Quiet, Doing, Under, SameTurn, Reads, Moves, Turned
  <2>6. errors' = 0 /\ ~ (me'.step = "verify" /\ pointer' = New') => Whichever(pointer)'
    BY <1>1, <1>2, <1>3, <2>1, CopyFacts, Known DEF Undisturbed, Pointing, ReleaseOK, Built, AtPrev, AtNew,
         Quiet, Handling, Rollbacks, Whichever, Doing, SameJob, Reads, Moves, Turned
  <2>7. Doing' \in Built \ {"revert", "clear", "restore"}
        /\ (errors' = 0 \/ Doing' \in Handling) => Whichever(Prev)'
    BY <1>1, <1>2, <1>3, <2>1, CopyFacts, Known DEF Undisturbed, Pointing, ReleaseOK, Built, Handling,
         Rollbacks, AtPrev, AtNew, Quiet, Whichever, Doing, SameJob, SameTurn, Reads, Moves, Turned
  <2>. QED BY <2>2, <2>3, <2>4, <2>5, <2>6, <2>7 DEF Quiet
<1>. QED BY <1>1, <1>4, <1>5, <1>6, <1>7 DEF SkillInv, Shapes

\* ... and told to HQ.
LEMMA PostReceiptKeeps ==
  ASSUME SkillAssumption, SkillInv, PostReceipt
  PROVE  SkillInv'
<1>1. TypeOK /\ Shapes /\ ReleaseOK /\ proc \in [Processes -> States]
  BY DEF SkillInv, Shapes
<1>2. me.step = "post" /\ proc' \in [Processes -> States] /\ me' = Asleep /\ me'.step = "idle" /\ Still
  BY <1>1, SleepIs DEF PostReceipt, At, me
<1>3. UNCHANGED <<pointer, dir, txn, native, release, anchor, assigned, crashes, errors>> /\ Touch
  BY DEF PostReceipt, Keep, world, disk
<1>4. TypeOK'
  BY <1>1, <1>2, <1>3, CopyFacts, Known, TouchIs DEF TypeOK
<1>5. Shapes' /\ ReleaseOK'
  BY <1>1, <1>2, <1>3, Actors DEF Shapes, ReleaseOK, Reading, Moving, Doing, SameJob, SameTurn, Still,
       Built, Reads, Moves, Installs, Rollbacks
<1>6. ASSUME ~ touched' PROVE Undisturbed'
  <2>1. ~ touched /\ Undisturbed /\ ~ Interferes'
    BY <1>3, <1>6, Undisturbing
  <2>2. Receipted'
    BY <1>1, <1>2, <1>3, <2>1, CopyFacts, Known DEF Undisturbed, Receipted, Names, Missing, Pointing, Whole,
         Doing, Active, ReleaseOK, Built, SameJob, Reads, Moves
  <2>3. Pointing'
    BY <1>1, <1>2, <1>3, <2>1, CopyFacts, Known DEF Undisturbed, Pointing, Whole, Names, Doing, AtPrev,
         AtNew, Active, SameJob, SameTurn, Reads, Moves, Reading
  <2>4. Transacting'
    BY <1>1, <1>2, <1>3, <2>1, CopyFacts, Known DEF Undisturbed, Transacting, Pointing, Active, AtNew,
         Whole, Missing, Doing, Under, Names, SameJob, SameTurn, Reads, Moves, Installs
  <2>5. Recovering'
    BY <1>2, <2>1, NobodyRecovers DEF Recovering
  <2>. QED BY <2>1, <2>2, <2>3, <2>4, <2>5 DEF Undisturbed
<1>7. ASSUME ~ touched', crashes' = 0, errors' <= 1 PROVE Quiet'
  <2>1. Undisturbed /\ Quiet /\ ~ Interferes'
    BY <1>3, <1>7, Quieting, Undisturbing
  <2>2. Native'
    BY <1>1, <1>2, <1>3, <2>1, CopyFacts, Known DEF Undisturbed, Pointing, AtPrev, AtNew, Quiet, Native, Of,
         Doing, SameJob, SameTurn, Reads, Moves
  <2>3. \A p \in Processes : proc'[p].step \notin {"recovering", "recovered", "clearing"}
    BY <1>2, <2>1, NobodyRecovers
  <2>4. Doing' \in Handling => errors' >= 1
    BY <1>1, <1>2, <1>3, <2>1, CopyFacts, Known DEF Undisturbed, Pointing, Active, Whole, Missing, Quiet,
         Doing, Handling, Rollbacks, SameTurn, Reads, Moves
  <2>5. txn' # None => me'.step \in {"manifest", "clear"} \/ Doing' \in Under
    BY <1>1, <1>2, <1>3, <2>1 DEF Quiet, Doing, Under, SameTurn, Reads, Moves
  <2>6. errors' = 0 /\ ~ (me'.step = "verify" /\ pointer' = New') => Whichever(pointer)'
    BY <1>1, <1>2, <1>3, <2>1, CopyFacts, Known DEF Undisturbed, Pointing, ReleaseOK, Built, AtPrev, AtNew,
         Quiet, Handling, Rollbacks, Whichever, Doing, SameJob, Reads, Moves
  <2>7. Doing' \in Built \ {"revert", "clear", "restore"}
        /\ (errors' = 0 \/ Doing' \in Handling) => Whichever(Prev)'
    BY <1>1, <1>2, <1>3, <2>1, CopyFacts, Known DEF Undisturbed, Pointing, ReleaseOK, Built, Handling,
         Rollbacks, AtPrev, AtNew, Quiet, Whichever, Doing, SameJob, SameTurn, Reads, Moves
  <2>. QED BY <2>2, <2>3, <2>4, <2>5, <2>6, <2>7 DEF Quiet
<1>. QED BY <1>1, <1>4, <1>5, <1>6, <1>7 DEF SkillInv, Shapes

-----------------------------------------------------------------------------
(* The rollback of a bundle that HQ has not confirmed.                     *)

\* The pointer is what is to be rolled back, or the rollback ends.
LEMMA ConfirmKeeps ==
  ASSUME SkillAssumption, SkillInv, Confirm
  PROVE  SkillInv'
<1>1. TypeOK /\ Shapes /\ ReleaseOK /\ proc \in [Processes -> States]
  BY DEF SkillInv, Shapes
<1>2. me.step = "confirm" /\ (IF pointer = New THEN Turned("begin") ELSE Turned("restore"))
  BY <1>1, GotoTurns DEF Confirm, At, me, New, Steps, Reads, Moves, Installs, Rollbacks
<1>3. UNCHANGED <<pointer, dir, txn, native, release, anchor, assigned, crashes, errors>> /\ Touch
  BY DEF Confirm, Keep, world, disk
<1>4. TypeOK'
  BY <1>1, <1>2, <1>3, CopyFacts, Known, TouchIs DEF TypeOK, Turned
<1>5. Shapes' /\ ReleaseOK'
  BY <1>1, <1>2, <1>3, Actors DEF Shapes, ReleaseOK, Reading, Moving, Doing, SameJob, SameTurn, Still,
       Built, Reads, Moves, Installs, Rollbacks, Turned
<1>6. ASSUME ~ touched' PROVE Undisturbed'
  <2>1. ~ touched /\ Undisturbed /\ ~ Interferes'
    BY <1>3, <1>6, Undisturbing
  <2>2. Receipted'
    BY <1>1, <1>2, <1>3, <2>1, CopyFacts, Known DEF Undisturbed, Receipted, Names, Missing, Pointing, Whole,
         Doing, Active, ReleaseOK, Built, SameJob, Reads, Moves, Turned
  <2>3. Pointing'
    BY <1>1, <1>2, <1>3, <2>1, CopyFacts, Known DEF Undisturbed, Pointing, Whole, Names, Doing, AtPrev,
         AtNew, Active, SameJob, SameTurn, Reads, Moves, Reading, Turned
  <2>4. Transacting'
    BY <1>1, <1>2, <1>3, <2>1, CopyFacts, Known DEF Undisturbed, Transacting, Pointing, Active, AtNew,
         Whole, Missing, Doing, Under, Names, SameJob, SameTurn, Reads, Moves, Installs, Turned
  <2>5. Recovering'
    BY <1>2, <2>1, NobodyRecovers DEF Recovering, Turned
  <2>. QED BY <2>1, <2>2, <2>3, <2>4, <2>5 DEF Undisturbed
<1>7. ASSUME ~ touched', crashes' = 0, errors' <= 1 PROVE Quiet'
  <2>1. Undisturbed /\ Quiet /\ ~ Interferes'
    BY <1>3, <1>7, Quieting, Undisturbing
  <2>2. Native'
    BY <1>1, <1>2, <1>3, <2>1, CopyFacts, Known DEF Undisturbed, Pointing, AtPrev, AtNew, Quiet, Native, Of,
         Doing, SameJob, SameTurn, Reads, Moves, Turned
  <2>3. \A p \in Processes : proc'[p].step \notin {"recovering", "recovered", "clearing"}
    BY <1>2, <2>1, NobodyRecovers DEF Turned
  <2>4. Doing' \in Handling => errors' >= 1
    BY <1>1, <1>2, <1>3, <2>1, CopyFacts, Known DEF Undisturbed, Pointing, Active, Whole, Missing, Quiet,
         Doing, Handling, Rollbacks, SameTurn, Reads, Moves, Turned
  <2>5. txn' # None => me'.step \in {"manifest", "clear"} \/ Doing' \in Under
    BY <1>1, <1>2, <1>3, <2>1 DEF Quiet, Doing, Under, SameTurn, Reads, Moves, Turned
  <2>6. errors' = 0 /\ ~ (me'.step = "verify" /\ pointer' = New') => Whichever(pointer)'
    BY <1>1, <1>2, <1>3, <2>1, CopyFacts, Known DEF Undisturbed, Pointing, ReleaseOK, Built, AtPrev, AtNew,
         Quiet, Handling, Rollbacks, Whichever, Doing, SameJob, Reads, Moves, Turned
  <2>7. Doing' \in Built \ {"revert", "clear", "restore"}
        /\ (errors' = 0 \/ Doing' \in Handling) => Whichever(Prev)'
    BY <1>1, <1>2, <1>3, <2>1, CopyFacts, Known DEF Undisturbed, Pointing, ReleaseOK, Built, Handling,
         Rollbacks, AtPrev, AtNew, Quiet, Whichever, Doing, SameJob, SameTurn, Reads, Moves, Turned
  <2>. QED BY <2>2, <2>3, <2>4, <2>5, <2>6, <2>7 DEF Quiet
<1>. QED BY <1>1, <1>4, <1>5, <1>6, <1>7 DEF SkillInv, Shapes

\* The transaction has its directory, ...
LEMMA BeginTransactionKeeps ==
  ASSUME SkillAssumption, SkillInv, BeginTransaction
  PROVE  SkillInv'
<1>1. TypeOK /\ Shapes /\ ReleaseOK /\ proc \in [Processes -> States]
  BY DEF SkillInv, Shapes
<1>2. me.step = "begin" /\ Turned("manifest")
  BY <1>1, GotoTurns DEF BeginTransaction, At, me, Steps, Reads, Moves, Installs, Rollbacks
<1>3. txn' = NoBundle /\ UNCHANGED <<pointer, dir, native, release, anchor, assigned, crashes, errors>> /\ Touch
  BY DEF BeginTransaction, Keep, world, disk
<1>4. TypeOK'
  BY <1>1, <1>2, <1>3, CopyFacts, Known, TouchIs DEF TypeOK, Turned
<1>5. Shapes' /\ ReleaseOK'
  BY <1>1, <1>2, <1>3, Actors DEF Shapes, ReleaseOK, Reading, Moving, Doing, SameJob, SameTurn, Still,
       Built, Reads, Moves, Installs, Rollbacks, Turned
<1>6. ASSUME ~ touched' PROVE Undisturbed'
  <2>1. ~ touched /\ Undisturbed /\ ~ Interferes'
    BY <1>3, <1>6, Undisturbing
  <2>2. Receipted'
    BY <1>1, <1>2, <1>3, <2>1, CopyFacts, Known DEF Undisturbed, Receipted, Names, Missing, Pointing, Whole,
         Doing, Active, ReleaseOK, Built, SameJob, Reads, Moves, Turned
  <2>3. Pointing'
    BY <1>1, <1>2, <1>3, <2>1, CopyFacts, Known DEF Undisturbed, Pointing, Whole, Names, Doing, AtPrev,
         AtNew, Active, SameJob, SameTurn, Reads, Moves, Reading, Turned
  <2>4. Transacting'
    BY <1>1, <1>2, <1>3, <2>1, CopyFacts, Known DEF Undisturbed, Transacting, Pointing, Active, AtNew,
         Whole, Missing, Doing, Under, Names, SameJob, SameTurn, Reads, Moves, Installs, Turned
  <2>5. Recovering'
    BY <1>2, <2>1, NobodyRecovers DEF Recovering, Turned
  <2>. QED BY <2>1, <2>2, <2>3, <2>4, <2>5 DEF Undisturbed
<1>7. ASSUME ~ touched', crashes' = 0, errors' <= 1 PROVE Quiet'
  <2>1. Undisturbed /\ Quiet /\ ~ Interferes'
    BY <1>3, <1>7, Quieting, Undisturbing
  <2>2. Native'
    BY <1>1, <1>2, <1>3, <2>1, CopyFacts, Known DEF Undisturbed, Pointing, AtPrev, AtNew, Quiet, Native, Of,
         Doing, SameJob, SameTurn, Reads, Moves, Turned
  <2>3. \A p \in Processes : proc'[p].step \notin {"recovering", "recovered", "clearing"}
    BY <1>2, <2>1, NobodyRecovers DEF Turned
  <2>4. Doing' \in Handling => errors' >= 1
    BY <1>1, <1>2, <1>3, <2>1, CopyFacts, Known DEF Undisturbed, Pointing, Active, Whole, Missing, Quiet,
         Doing, Handling, Rollbacks, SameTurn, Reads, Moves, Turned
  <2>5. txn' # None => me'.step \in {"manifest", "clear"} \/ Doing' \in Under
    BY <1>1, <1>2, <1>3, <2>1 DEF Quiet, Doing, Under, SameTurn, Reads, Moves, Turned
  <2>6. errors' = 0 /\ ~ (me'.step = "verify" /\ pointer' = New') => Whichever(pointer)'
    BY <1>1, <1>2, <1>3, <2>1, CopyFacts, Known DEF Undisturbed, Pointing, ReleaseOK, Built, AtPrev, AtNew,
         Quiet, Handling, Rollbacks, Whichever, Doing, SameJob, Reads, Moves, Turned
  <2>7. Doing' \in Built \ {"revert", "clear", "restore"}
        /\ (errors' = 0 \/ Doing' \in Handling) => Whichever(Prev)'
    BY <1>1, <1>2, <1>3, <2>1, CopyFacts, Known DEF Undisturbed, Pointing, ReleaseOK, Built, Handling,
         Rollbacks, AtPrev, AtNew, Quiet, Whichever, Doing, SameJob, SameTurn, Reads, Moves, Turned
  <2>. QED BY <2>2, <2>3, <2>4, <2>5, <2>6, <2>7 DEF Quiet
<1>. QED BY <1>1, <1>4, <1>5, <1>6, <1>7 DEF SkillInv, Shapes

\* ... and its manifest.
LEMMA WriteManifestKeeps ==
  ASSUME SkillAssumption, SkillInv, WriteManifest
  PROVE  SkillInv'
<1>1. TypeOK /\ Shapes /\ ReleaseOK /\ proc \in [Processes -> States]
  BY DEF SkillInv, Shapes
<1>2. me.step = "manifest" /\ Turned("stage")
  BY <1>1, GotoTurns DEF WriteManifest, At, me, Steps, Reads, Moves, Installs, Rollbacks
<1>3. txn' = New /\ New \in Bundles
      /\ UNCHANGED <<pointer, dir, native, release, anchor, assigned, crashes, errors>> /\ Touch
  BY <1>1, <1>2 DEF WriteManifest, Shapes, Doing, Reads, Moves, Keep, world, disk
<1>4. TypeOK'
  BY <1>1, <1>2, <1>3, CopyFacts, Known, TouchIs DEF TypeOK, Turned
<1>5. Shapes' /\ ReleaseOK'
  BY <1>1, <1>2, <1>3, Actors DEF Shapes, ReleaseOK, Reading, Moving, Doing, SameJob, SameTurn, Still,
       Built, Reads, Moves, Installs, Rollbacks, Turned
<1>6. ASSUME ~ touched' PROVE Undisturbed'
  <2>1. ~ touched /\ Undisturbed /\ ~ Interferes'
    BY <1>3, <1>6, Undisturbing
  <2>2. Receipted'
    BY <1>1, <1>2, <1>3, <2>1, CopyFacts, Known DEF Undisturbed, Receipted, Names, Missing, Pointing, Whole,
         Doing, Active, ReleaseOK, Built, SameJob, Reads, Moves, Turned
  <2>3. Pointing'
    BY <1>1, <1>2, <1>3, <2>1, CopyFacts, Known DEF Undisturbed, Pointing, Whole, Names, Doing, AtPrev,
         AtNew, Active, SameJob, SameTurn, Reads, Moves, Reading, Turned
  <2>4. Transacting'
    BY <1>1, <1>2, <1>3, <2>1, CopyFacts, Known DEF Undisturbed, Transacting, Pointing, Active, AtNew,
         Whole, Missing, Doing, Under, Names, SameJob, SameTurn, Reads, Moves, Installs, Turned
  <2>5. Recovering'
    BY <1>2, <2>1, NobodyRecovers DEF Recovering, Turned
  <2>. QED BY <2>1, <2>2, <2>3, <2>4, <2>5 DEF Undisturbed
<1>7. ASSUME ~ touched', crashes' = 0, errors' <= 1 PROVE Quiet'
  <2>1. Undisturbed /\ Quiet /\ ~ Interferes'
    BY <1>3, <1>7, Quieting, Undisturbing
  <2>2. Native'
    BY <1>1, <1>2, <1>3, <2>1, CopyFacts, Known DEF Undisturbed, Pointing, AtPrev, AtNew, Quiet, Native, Of,
         Doing, SameJob, SameTurn, Reads, Moves, Turned
  <2>3. \A p \in Processes : proc'[p].step \notin {"recovering", "recovered", "clearing"}
    BY <1>2, <2>1, NobodyRecovers DEF Turned
  <2>4. Doing' \in Handling => errors' >= 1
    BY <1>1, <1>2, <1>3, <2>1, CopyFacts, Known DEF Undisturbed, Pointing, Active, Whole, Missing, Quiet,
         Doing, Handling, Rollbacks, SameTurn, Reads, Moves, Turned
  <2>5. txn' # None => me'.step \in {"manifest", "clear"} \/ Doing' \in Under
    BY <1>1, <1>2, <1>3, <2>1 DEF Quiet, Doing, Under, SameTurn, Reads, Moves, Turned
  <2>6. errors' = 0 /\ ~ (me'.step = "verify" /\ pointer' = New') => Whichever(pointer)'
    BY <1>1, <1>2, <1>3, <2>1, CopyFacts, Known DEF Undisturbed, Pointing, ReleaseOK, Built, AtPrev, AtNew,
         Quiet, Handling, Rollbacks, Whichever, Doing, SameJob, Reads, Moves, Turned
  <2>7. Doing' \in Built \ {"revert", "clear", "restore"}
        /\ (errors' = 0 \/ Doing' \in Handling) => Whichever(Prev)'
    BY <1>1, <1>2, <1>3, <2>1, CopyFacts, Known DEF Undisturbed, Pointing, ReleaseOK, Built, Handling,
         Rollbacks, AtPrev, AtNew, Quiet, Whichever, Doing, SameJob, SameTurn, Reads, Moves, Turned
  <2>. QED BY <2>2, <2>3, <2>4, <2>5, <2>6, <2>7 DEF Quiet
<1>. QED BY <1>1, <1>4, <1>5, <1>6, <1>7 DEF SkillInv, Shapes

\* The bundle before is staged, and its native skills come next.
LEMMA StagePreviousKeeps ==
  ASSUME SkillAssumption, SkillInv, StagePrevious
  PROVE  SkillInv'
<1>1. TypeOK /\ Shapes /\ ReleaseOK /\ proc \in [Processes -> States]
  BY DEF SkillInv, Shapes
<1>2. me.step = "stage" /\ New \in Bundles /\ proc' \in [Processes -> States] /\ SameJob /\ Still
      /\ me'.step = "unload" /\ me'.then = "shelve" /\ me'.catch = "unmoved" /\ me'.load = Prev
      /\ me'.drop = Skills[New]
  <2>1. me.step = "stage" /\ New \in Bundles /\ Natively("sync", Prev, Skills[New], "shelve", "unmoved")
    BY <1>1 DEF StagePrevious, At, me, Shapes, Doing, Reads, Moves
  <2>2. Skills[New] \in SUBSET SkillIds
    BY <1>1, <2>1, Known, CopyFacts
  <2>3. {"shelve", "unmoved"} \subseteq Steps
    BY DEF Steps, Reads, Moves, Installs, Rollbacks
  <2>. QED BY SMTT(60), <1>1, <2>1, <2>2, <2>3, Known, NativelyIs
<1>3. Put("staged") /\ (IF Prev = None THEN dir' = dir ELSE dir'["staged"] = CopyOf(Prev))
      /\ UNCHANGED <<pointer, txn, native, release, anchor, assigned, crashes, errors>> /\ Touch
  <2>1. dir' = IF Prev = None THEN dir ELSE [dir EXCEPT !["staged"] = CopyOf(Prev)]
    BY DEF StagePrevious
  <2>2. Prev # None => CopyOf(Prev) \in Copies
    BY <1>1, Known, CopyFacts
  <2>3. Put("staged") /\ (IF Prev = None THEN dir' = dir ELSE dir'["staged"] = CopyOf(Prev))
    BY <1>1, <2>1, <2>2 DEF Put, TypeOK, Names
  <2>. QED BY <2>3 DEF StagePrevious, Keep, world, disk
<1>4. TypeOK'
  BY <1>1, <1>2, <1>3, CopyFacts, Known, TouchIs DEF TypeOK, Put, CopyOf
<1>5. Shapes' /\ ReleaseOK'
  BY <1>1, <1>2, <1>3, Actors DEF Shapes, ReleaseOK, Reading, Moving, Doing, SameJob, SameTurn, Still,
       Built, Reads, Moves, Installs, Rollbacks, Put, CopyOf
<1>6. ASSUME ~ touched' PROVE Undisturbed'
  <2>1. ~ touched /\ Undisturbed /\ ~ Interferes'
    BY <1>3, <1>6, Undisturbing
  <2>2. Receipted'
    BY <1>1, <1>2, <1>3, <2>1, CopyFacts, Known DEF Undisturbed, Receipted, Names, Missing, Pointing, Whole,
         Doing, Active, ReleaseOK, Built, SameJob, Reads, Moves, Put, CopyOf
  <2>3. Pointing'
    BY <1>1, <1>2, <1>3, <2>1, CopyFacts, Known DEF Undisturbed, Pointing, Whole, Names, Doing, AtPrev,
         AtNew, Active, SameJob, SameTurn, Reads, Moves, Reading, Put, CopyOf
  <2>4. Transacting'
    BY <1>1, <1>2, <1>3, <2>1, CopyFacts, Known DEF Undisturbed, Transacting, Pointing, Active, AtNew,
         Whole, Missing, Doing, Under, Names, SameJob, SameTurn, Reads, Moves, Installs, Put, CopyOf
  <2>5. Recovering'
    BY <1>2, <2>1, NobodyRecovers DEF Recovering, Put, CopyOf
  <2>. QED BY <2>1, <2>2, <2>3, <2>4, <2>5 DEF Undisturbed
<1>7. ASSUME ~ touched', crashes' = 0, errors' <= 1 PROVE Quiet'
  <2>1. Undisturbed /\ Quiet /\ ~ Interferes'
    BY <1>3, <1>7, Quieting, Undisturbing
  <2>2. Native'
    BY <1>1, <1>2, <1>3, <2>1, CopyFacts, Known DEF Undisturbed, Pointing, AtPrev, AtNew, Quiet, Native, Of,
         Doing, SameJob, SameTurn, Reads, Moves, Put, CopyOf
  <2>3. \A p \in Processes : proc'[p].step \notin {"recovering", "recovered", "clearing"}
    BY <1>2, <2>1, NobodyRecovers DEF Put, CopyOf
  <2>4. Doing' \in Handling => errors' >= 1
    BY <1>1, <1>2, <1>3, <2>1, CopyFacts, Known DEF Undisturbed, Pointing, Active, Whole, Missing, Quiet,
         Doing, Handling, Rollbacks, SameTurn, Reads, Moves, Put, CopyOf
  <2>5. txn' # None => me'.step \in {"manifest", "clear"} \/ Doing' \in Under
    BY <1>1, <1>2, <1>3, <2>1 DEF Quiet, Doing, Under, SameTurn, Reads, Moves, Put, CopyOf
  <2>6. errors' = 0 /\ ~ (me'.step = "verify" /\ pointer' = New') => Whichever(pointer)'
    BY <1>1, <1>2, <1>3, <2>1, CopyFacts, Known DEF Undisturbed, Pointing, ReleaseOK, Built, AtPrev, AtNew,
         Quiet, Handling, Rollbacks, Whichever, Doing, SameJob, Reads, Moves, Put, CopyOf
  <2>7. Doing' \in Built \ {"revert", "clear", "restore"}
        /\ (errors' = 0 \/ Doing' \in Handling) => Whichever(Prev)'
    BY SMTT(60), <1>1, <1>2, <1>3, <2>1, CopyFacts, Known DEF Undisturbed, Pointing, ReleaseOK, Built,
         Handling, Rollbacks, AtPrev, AtNew, Quiet, Whichever, Doing, SameJob, SameTurn, Reads, Moves, Put,
         CopyOf
  <2>. QED BY <2>2, <2>3, <2>4, <2>5, <2>6, <2>7 DEF Quiet
<1>. QED BY <1>1, <1>4, <1>5, <1>6, <1>7 DEF SkillInv, Shapes

\* The active bundle is set aside, if it is there.
LEMMA ShelveActiveKeeps ==
  ASSUME SkillAssumption, SkillInv, ShelveActive
  PROVE  SkillInv'
<1>1. TypeOK /\ Shapes /\ ReleaseOK /\ proc \in [Processes -> States]
  BY DEF SkillInv, Shapes
<1>2. me.step = "shelve" /\ (IF Missing("active") \/ txn = None THEN Turned("mend") ELSE Turned("swap"))
  BY <1>1, GotoTurns DEF ShelveActive, At, me, Steps, Reads, Moves, Installs, Rollbacks
<1>3. (IF Missing("active") \/ txn = None THEN dir' = dir ELSE Moved("active", "backup"))
      /\ UNCHANGED <<pointer, txn, native, release, anchor, assigned, crashes, errors>> /\ Touch
  BY <1>1, MovedIs DEF ShelveActive, Keep, world, Names
<1>4. TypeOK'
  BY <1>1, <1>2, <1>3, CopyFacts, Known, TouchIs DEF TypeOK, Turned, Moved
<1>5. Shapes' /\ ReleaseOK'
  BY <1>1, <1>2, <1>3, Actors DEF Shapes, ReleaseOK, Reading, Moving, Doing, SameJob, SameTurn, Still,
       Built, Reads, Moves, Installs, Rollbacks, Turned, Moved
<1>6. ASSUME ~ touched' PROVE Undisturbed'
  <2>1. ~ touched /\ Undisturbed /\ ~ Interferes'
    BY <1>3, <1>6, Undisturbing
  <2>2. Receipted'
    BY <1>1, <1>2, <1>3, <2>1, CopyFacts, Known DEF Undisturbed, Receipted, Names, Missing, Pointing, Whole,
         Doing, Active, ReleaseOK, Built, SameJob, Reads, Moves, Turned, Moved
  <2>3. Pointing'
    BY <1>1, <1>2, <1>3, <2>1, CopyFacts, Known DEF Undisturbed, Pointing, Whole, Names, Doing, AtPrev,
         AtNew, Active, SameJob, SameTurn, Reads, Moves, Reading, Turned, Moved
  <2>4. Transacting'
    BY <1>1, <1>2, <1>3, <2>1, CopyFacts, Known DEF Undisturbed, Transacting, Pointing, Active, AtNew,
         Whole, Missing, Doing, Under, Names, SameJob, SameTurn, Reads, Moves, Installs, Turned, Moved
  <2>5. Recovering'
    BY <1>2, <2>1, NobodyRecovers DEF Recovering, Turned, Moved
  <2>. QED BY <2>1, <2>2, <2>3, <2>4, <2>5 DEF Undisturbed
<1>7. ASSUME ~ touched', crashes' = 0, errors' <= 1 PROVE Quiet'
  <2>1. Undisturbed /\ Quiet /\ ~ Interferes'
    BY <1>3, <1>7, Quieting, Undisturbing
  <2>2. Native'
    BY <1>1, <1>2, <1>3, <2>1, CopyFacts, Known DEF Undisturbed, Pointing, AtPrev, AtNew, Quiet, Native, Of,
         Doing, SameJob, SameTurn, Reads, Moves, Turned, Moved
  <2>3. \A p \in Processes : proc'[p].step \notin {"recovering", "recovered", "clearing"}
    BY <1>2, <2>1, NobodyRecovers DEF Turned, Moved
  <2>4. Doing' \in Handling => errors' >= 1
    BY <1>1, <1>2, <1>3, <2>1, CopyFacts, Known DEF Undisturbed, Pointing, Active, Whole, Missing, Quiet,
         Doing, Handling, Rollbacks, SameTurn, Reads, Moves, Turned, Moved
  <2>5. txn' # None => me'.step \in {"manifest", "clear"} \/ Doing' \in Under
    BY <1>1, <1>2, <1>3, <2>1 DEF Quiet, Doing, Under, SameTurn, Reads, Moves, Turned, Moved
  <2>6. errors' = 0 /\ ~ (me'.step = "verify" /\ pointer' = New') => Whichever(pointer)'
    BY <1>1, <1>2, <1>3, <2>1, CopyFacts, Known DEF Undisturbed, Pointing, ReleaseOK, Built, AtPrev, AtNew,
         Quiet, Handling, Rollbacks, Whichever, Doing, SameJob, Reads, Moves, Turned, Moved
  <2>7. Doing' \in Built \ {"revert", "clear", "restore"}
        /\ (errors' = 0 \/ Doing' \in Handling) => Whichever(Prev)'
    BY <1>1, <1>2, <1>3, <2>1, CopyFacts, Known DEF Undisturbed, Pointing, ReleaseOK, Built, Handling,
         Rollbacks, AtPrev, AtNew, Quiet, Whichever, Doing, SameJob, SameTurn, Reads, Moves, Turned, Moved
  <2>. QED BY <2>2, <2>3, <2>4, <2>5, <2>6, <2>7 DEF Quiet
<1>. QED BY <1>1, <1>4, <1>5, <1>6, <1>7 DEF SkillInv, Shapes

\* The staged bundle takes its place.
LEMMA SwapActiveKeeps ==
  ASSUME SkillAssumption, SkillInv, SwapActive
  PROVE  SkillInv'
<1>1. TypeOK /\ Shapes /\ ReleaseOK /\ proc \in [Processes -> States]
  BY DEF SkillInv, Shapes
<1>2. me.step = "swap" /\ (IF Prev # None /\ Missing("staged") THEN Turned("mend") ELSE Turned("switch"))
  BY <1>1, GotoTurns DEF SwapActive, At, me, Prev, Steps, Reads, Moves, Installs, Rollbacks
<1>3. (IF Prev # None /\ Missing("staged") THEN dir' = dir ELSE Moved("staged", "active"))
      /\ UNCHANGED <<pointer, txn, native, release, anchor, assigned, crashes, errors>> /\ Touch
  BY <1>1, MovedIs DEF SwapActive, SwapIn, Keep, world, Names
<1>4. TypeOK'
  BY <1>1, <1>2, <1>3, CopyFacts, Known, TouchIs DEF TypeOK, Turned, Moved
<1>5. Shapes' /\ ReleaseOK'
  BY <1>1, <1>2, <1>3, Actors DEF Shapes, ReleaseOK, Reading, Moving, Doing, SameJob, SameTurn, Still,
       Built, Reads, Moves, Installs, Rollbacks, Turned, Moved
<1>6. ASSUME ~ touched' PROVE Undisturbed'
  <2>1. ~ touched /\ Undisturbed /\ ~ Interferes'
    BY <1>3, <1>6, Undisturbing
  <2>2. Receipted'
    BY <1>1, <1>2, <1>3, <2>1, CopyFacts, Known DEF Undisturbed, Receipted, Names, Missing, Pointing, Whole,
         Doing, Active, ReleaseOK, Built, SameJob, Reads, Moves, Turned, Moved
  <2>3. Pointing'
    BY <1>1, <1>2, <1>3, <2>1, CopyFacts, Known DEF Undisturbed, Pointing, Whole, Names, Doing, AtPrev,
         AtNew, Active, SameJob, SameTurn, Reads, Moves, Reading, Turned, Moved
  <2>4. Transacting'
    BY <1>1, <1>2, <1>3, <2>1, CopyFacts, Known DEF Undisturbed, Transacting, Pointing, Active, AtNew,
         Whole, Missing, Doing, Under, Names, SameJob, SameTurn, Reads, Moves, Installs, Turned, Moved
  <2>5. Recovering'
    BY <1>2, <2>1, NobodyRecovers DEF Recovering, Turned, Moved
  <2>. QED BY <2>1, <2>2, <2>3, <2>4, <2>5 DEF Undisturbed
<1>7. ASSUME ~ touched', crashes' = 0, errors' <= 1 PROVE Quiet'
  <2>1. Undisturbed /\ Quiet /\ ~ Interferes'
    BY <1>3, <1>7, Quieting, Undisturbing
  <2>2. Native'
    BY <1>1, <1>2, <1>3, <2>1, CopyFacts, Known DEF Undisturbed, Pointing, AtPrev, AtNew, Quiet, Native, Of,
         Doing, SameJob, SameTurn, Reads, Moves, Turned, Moved
  <2>3. \A p \in Processes : proc'[p].step \notin {"recovering", "recovered", "clearing"}
    BY <1>2, <2>1, NobodyRecovers DEF Turned, Moved
  <2>4. Doing' \in Handling => errors' >= 1
    BY <1>1, <1>2, <1>3, <2>1, CopyFacts, Known DEF Undisturbed, Pointing, Active, Whole, Missing, Quiet,
         Doing, Handling, Rollbacks, SameTurn, Reads, Moves, Turned, Moved
  <2>5. txn' # None => me'.step \in {"manifest", "clear"} \/ Doing' \in Under
    BY <1>1, <1>2, <1>3, <2>1 DEF Quiet, Doing, Under, SameTurn, Reads, Moves, Turned, Moved
  <2>6. errors' = 0 /\ ~ (me'.step = "verify" /\ pointer' = New') => Whichever(pointer)'
    BY <1>1, <1>2, <1>3, <2>1, CopyFacts, Known DEF Undisturbed, Pointing, ReleaseOK, Built, AtPrev, AtNew,
         Quiet, Handling, Rollbacks, Whichever, Doing, SameJob, Reads, Moves, Turned, Moved
  <2>7. Doing' \in Built \ {"revert", "clear", "restore"}
        /\ (errors' = 0 \/ Doing' \in Handling) => Whichever(Prev)'
    BY <1>1, <1>2, <1>3, <2>1, CopyFacts, Known DEF Undisturbed, Pointing, ReleaseOK, Built, Handling,
         Rollbacks, AtPrev, AtNew, Quiet, Whichever, Doing, SameJob, SameTurn, Reads, Moves, Turned, Moved
  <2>. QED BY <2>2, <2>3, <2>4, <2>5, <2>6, <2>7 DEF Quiet
<1>. QED BY <1>1, <1>4, <1>5, <1>6, <1>7 DEF SkillInv, Shapes

\* The pointer goes back.
LEMMA SwitchBackKeeps ==
  ASSUME SkillAssumption, SkillInv, SwitchBack
  PROVE  SkillInv'
<1>1. TypeOK /\ Shapes /\ ReleaseOK /\ proc \in [Processes -> States]
  BY DEF SkillInv, Shapes
<1>2. me.step = "switch" /\ Turned("clear")
  BY <1>1, GotoTurns DEF SwitchBack, At, me, Steps, Reads, Moves, Installs, Rollbacks
<1>3. pointer' = Prev /\ UNCHANGED <<dir, txn, native, release, anchor, assigned, crashes, errors>> /\ Touch
  BY DEF SwitchBack, Keep, world, disk
<1>4. TypeOK'
  BY <1>1, <1>2, <1>3, CopyFacts, Known, TouchIs DEF TypeOK, Turned
<1>5. Shapes' /\ ReleaseOK'
  BY <1>1, <1>2, <1>3, Actors DEF Shapes, ReleaseOK, Reading, Moving, Doing, SameJob, SameTurn, Still,
       Built, Reads, Moves, Installs, Rollbacks, Turned
<1>6. ASSUME ~ touched' PROVE Undisturbed'
  <2>1. ~ touched /\ Undisturbed /\ ~ Interferes'
    BY <1>3, <1>6, Undisturbing
  <2>2. Receipted'
    BY <1>1, <1>2, <1>3, <2>1, CopyFacts, Known DEF Undisturbed, Receipted, Names, Missing, Pointing, Whole,
         Doing, Active, ReleaseOK, Built, SameJob, Reads, Moves, Turned
  <2>3. Pointing'
    BY <1>1, <1>2, <1>3, <2>1, CopyFacts, Known DEF Undisturbed, Pointing, Whole, Names, Doing, AtPrev,
         AtNew, Active, SameJob, SameTurn, Reads, Moves, Reading, Turned
  <2>4. Transacting'
    BY <1>1, <1>2, <1>3, <2>1, CopyFacts, Known DEF Undisturbed, Transacting, Pointing, Active, AtNew,
         Whole, Missing, Doing, Under, Names, SameJob, SameTurn, Reads, Moves, Installs, Turned
  <2>5. Recovering'
    BY <1>2, <2>1, NobodyRecovers DEF Recovering, Turned
  <2>. QED BY <2>1, <2>2, <2>3, <2>4, <2>5 DEF Undisturbed
<1>7. ASSUME ~ touched', crashes' = 0, errors' <= 1 PROVE Quiet'
  <2>1. Undisturbed /\ Quiet /\ ~ Interferes'
    BY <1>3, <1>7, Quieting, Undisturbing
  <2>2. Native'
    BY <1>1, <1>2, <1>3, <2>1, CopyFacts, Known DEF Undisturbed, Pointing, AtPrev, AtNew, Quiet, Native, Of,
         Doing, SameJob, SameTurn, Reads, Moves, Turned
  <2>3. \A p \in Processes : proc'[p].step \notin {"recovering", "recovered", "clearing"}
    BY <1>2, <2>1, NobodyRecovers DEF Turned
  <2>4. Doing' \in Handling => errors' >= 1
    BY <1>1, <1>2, <1>3, <2>1, CopyFacts, Known DEF Undisturbed, Pointing, Active, Whole, Missing, Quiet,
         Doing, Handling, Rollbacks, SameTurn, Reads, Moves, Turned
  <2>5. txn' # None => me'.step \in {"manifest", "clear"} \/ Doing' \in Under
    BY <1>1, <1>2, <1>3, <2>1 DEF Quiet, Doing, Under, SameTurn, Reads, Moves, Turned
  <2>6. errors' = 0 /\ ~ (me'.step = "verify" /\ pointer' = New') => Whichever(pointer)'
    BY <1>1, <1>2, <1>3, <2>1, CopyFacts, Known DEF Undisturbed, Pointing, ReleaseOK, Built, AtPrev, AtNew,
         Quiet, Handling, Rollbacks, Whichever, Doing, SameJob, Reads, Moves, Turned
  <2>7. Doing' \in Built \ {"revert", "clear", "restore"}
        /\ (errors' = 0 \/ Doing' \in Handling) => Whichever(Prev)'
    BY <1>1, <1>2, <1>3, <2>1, CopyFacts, Known DEF Undisturbed, Pointing, ReleaseOK, Built, Handling,
         Rollbacks, AtPrev, AtNew, Quiet, Whichever, Doing, SameJob, SameTurn, Reads, Moves, Turned
  <2>. QED BY <2>2, <2>3, <2>4, <2>5, <2>6, <2>7 DEF Quiet
<1>. QED BY <1>1, <1>4, <1>5, <1>6, <1>7 DEF SkillInv, Shapes

\* After a failure the active bundle returns, and its native skills come next.
LEMMA MendKeeps ==
  ASSUME SkillAssumption, SkillInv, Mend
  PROVE  SkillInv'
<1>1. TypeOK /\ Shapes /\ ReleaseOK /\ proc \in [Processes -> States]
  BY DEF SkillInv, Shapes
<1>2. me.step = "mend" /\ New \in Bundles /\ proc' \in [Processes -> States] /\ SameJob /\ Still
      /\ me'.step = "unload" /\ me'.then = "mended" /\ me'.catch = "restore" /\ me'.load = New
      /\ me'.drop = SkillsOf(Prev)
  <2>1. me.step = "mend" /\ New \in Bundles /\ Natively("sync", New, SkillsOf(Prev), "mended", "restore")
    BY <1>1 DEF Mend, At, me, Shapes, Doing, Reads, Moves
  <2>2. SkillsOf(Prev) \in SUBSET SkillIds
    BY <1>1, <2>1, Known, CopyFacts
  <2>3. {"mended", "restore"} \subseteq Steps
    BY DEF Steps, Reads, Moves, Installs, Rollbacks
  <2>. QED BY SMTT(60), <1>1, <2>1, <2>2, <2>3, Known, NativelyIs
<1>3. (IF Missing("backup") THEN dir' = dir ELSE Moved("backup", "active"))
      /\ UNCHANGED <<pointer, txn, native, release, anchor, assigned, crashes, errors>> /\ Touch
  BY <1>1, MovedIs DEF Mend, Keep, world, Names
<1>4. TypeOK'
  BY <1>1, <1>2, <1>3, CopyFacts, Known, TouchIs DEF TypeOK, Moved
<1>5. Shapes' /\ ReleaseOK'
  BY <1>1, <1>2, <1>3, Actors DEF Shapes, ReleaseOK, Reading, Moving, Doing, SameJob, SameTurn, Still,
       Built, Reads, Moves, Installs, Rollbacks, Moved
<1>6. ASSUME ~ touched' PROVE Undisturbed'
  <2>1. ~ touched /\ Undisturbed /\ ~ Interferes'
    BY <1>3, <1>6, Undisturbing
  <2>2. Receipted'
    BY <1>1, <1>2, <1>3, <2>1, CopyFacts, Known DEF Undisturbed, Receipted, Names, Missing, Pointing, Whole,
         Doing, Active, ReleaseOK, Built, SameJob, Reads, Moves, Moved
  <2>3. Pointing'
    BY <1>1, <1>2, <1>3, <2>1, CopyFacts, Known DEF Undisturbed, Pointing, Whole, Names, Doing, AtPrev,
         AtNew, Active, SameJob, SameTurn, Reads, Moves, Reading, Moved
  <2>4. Transacting'
    BY <1>1, <1>2, <1>3, <2>1, CopyFacts, Known DEF Undisturbed, Transacting, Pointing, Active, AtNew,
         Whole, Missing, Doing, Under, Names, SameJob, SameTurn, Reads, Moves, Installs, Moved
  <2>5. Recovering'
    BY <1>2, <2>1, NobodyRecovers DEF Recovering, Moved
  <2>. QED BY <2>1, <2>2, <2>3, <2>4, <2>5 DEF Undisturbed
<1>7. ASSUME ~ touched', crashes' = 0, errors' <= 1 PROVE Quiet'
  <2>1. Undisturbed /\ Quiet /\ ~ Interferes'
    BY <1>3, <1>7, Quieting, Undisturbing
  <2>2. Native'
    BY <1>1, <1>2, <1>3, <2>1, CopyFacts, Known DEF Undisturbed, Pointing, AtPrev, AtNew, Quiet, Native, Of,
         Doing, SameJob, SameTurn, Reads, Moves, Moved
  <2>3. \A p \in Processes : proc'[p].step \notin {"recovering", "recovered", "clearing"}
    BY <1>2, <2>1, NobodyRecovers DEF Moved
  <2>4. Doing' \in Handling => errors' >= 1
    BY <1>1, <1>2, <1>3, <2>1, CopyFacts, Known DEF Undisturbed, Pointing, Active, Whole, Missing, Quiet,
         Doing, Handling, Rollbacks, SameTurn, Reads, Moves, Moved
  <2>5. txn' # None => me'.step \in {"manifest", "clear"} \/ Doing' \in Under
    BY <1>1, <1>2, <1>3, <2>1 DEF Quiet, Doing, Under, SameTurn, Reads, Moves, Moved
  <2>6. errors' = 0 /\ ~ (me'.step = "verify" /\ pointer' = New') => Whichever(pointer)'
    BY <1>1, <1>2, <1>3, <2>1, CopyFacts, Known DEF Undisturbed, Pointing, ReleaseOK, Built, AtPrev, AtNew,
         Quiet, Handling, Rollbacks, Whichever, Doing, SameJob, Reads, Moves, Moved
  <2>7. Doing' \in Built \ {"revert", "clear", "restore"}
        /\ (errors' = 0 \/ Doing' \in Handling) => Whichever(Prev)'
    BY SMTT(60), <1>1, <1>2, <1>3, <2>1, CopyFacts, Known DEF Undisturbed, Pointing, ReleaseOK, Built,
         Handling, Rollbacks, AtPrev, AtNew, Quiet, Whichever, Doing, SameJob, SameTurn, Reads, Moves, Moved
  <2>. QED BY <2>2, <2>3, <2>4, <2>5, <2>6, <2>7 DEF Quiet
<1>. QED BY <1>1, <1>4, <1>5, <1>6, <1>7 DEF SkillInv, Shapes

\* ... and then the pointer.
LEMMA MendPointerKeeps ==
  ASSUME SkillAssumption, SkillInv, MendPointer
  PROVE  SkillInv'
<1>1. TypeOK /\ Shapes /\ ReleaseOK /\ proc \in [Processes -> States]
  BY DEF SkillInv, Shapes
<1>2. me.step \in {"mended", "unmoved"} /\ New \in Bundles /\ Turned("clear")
  BY <1>1, GotoTurns DEF MendPointer, At, me, Shapes, Doing, Steps, Reads, Moves, Installs, Rollbacks
<1>3. pointer' = New /\ UNCHANGED <<dir, txn, native, release, anchor, assigned, crashes, errors>> /\ Touch
  BY DEF MendPointer, Keep, world, disk
<1>4. TypeOK'
  BY <1>1, <1>2, <1>3, CopyFacts, Known, TouchIs DEF TypeOK, Turned
<1>5. Shapes' /\ ReleaseOK'
  BY <1>1, <1>2, <1>3, Actors DEF Shapes, ReleaseOK, Reading, Moving, Doing, SameJob, SameTurn, Still,
       Built, Reads, Moves, Installs, Rollbacks, Turned
<1>6. ASSUME ~ touched' PROVE Undisturbed'
  <2>1. ~ touched /\ Undisturbed /\ ~ Interferes'
    BY <1>3, <1>6, Undisturbing
  <2>2. Receipted'
    BY <1>1, <1>2, <1>3, <2>1, CopyFacts, Known DEF Undisturbed, Receipted, Names, Missing, Pointing, Whole,
         Doing, Active, ReleaseOK, Built, SameJob, Reads, Moves, Turned
  <2>3. Pointing'
    BY <1>1, <1>2, <1>3, <2>1, CopyFacts, Known DEF Undisturbed, Pointing, Whole, Names, Doing, AtPrev,
         AtNew, Active, SameJob, SameTurn, Reads, Moves, Reading, Turned
  <2>4. Transacting'
    BY <1>1, <1>2, <1>3, <2>1, CopyFacts, Known DEF Undisturbed, Transacting, Pointing, Active, AtNew,
         Whole, Missing, Doing, Under, Names, SameJob, SameTurn, Reads, Moves, Installs, Turned
  <2>5. Recovering'
    BY <1>2, <2>1, NobodyRecovers DEF Recovering, Turned
  <2>. QED BY <2>1, <2>2, <2>3, <2>4, <2>5 DEF Undisturbed
<1>7. ASSUME ~ touched', crashes' = 0, errors' <= 1 PROVE Quiet'
  <2>1. Undisturbed /\ Quiet /\ ~ Interferes'
    BY <1>3, <1>7, Quieting, Undisturbing
  <2>2. Native'
    BY <1>1, <1>2, <1>3, <2>1, CopyFacts, Known DEF Undisturbed, Pointing, AtPrev, AtNew, Quiet, Native, Of,
         Doing, SameJob, SameTurn, Reads, Moves, Turned
  <2>3. \A p \in Processes : proc'[p].step \notin {"recovering", "recovered", "clearing"}
    BY <1>2, <2>1, NobodyRecovers DEF Turned
  <2>4. Doing' \in Handling => errors' >= 1
    BY <1>1, <1>2, <1>3, <2>1, CopyFacts, Known DEF Undisturbed, Pointing, Active, Whole, Missing, Quiet,
         Doing, Handling, Rollbacks, SameTurn, Reads, Moves, Turned
  <2>5. txn' # None => me'.step \in {"manifest", "clear"} \/ Doing' \in Under
    BY <1>1, <1>2, <1>3, <2>1 DEF Quiet, Doing, Under, SameTurn, Reads, Moves, Turned
  <2>6. errors' = 0 /\ ~ (me'.step = "verify" /\ pointer' = New') => Whichever(pointer)'
    BY <1>1, <1>2, <1>3, <2>1, CopyFacts, Known DEF Undisturbed, Pointing, ReleaseOK, Built, AtPrev, AtNew,
         Quiet, Handling, Rollbacks, Whichever, Doing, SameJob, Reads, Moves, Turned
  <2>7. Doing' \in Built \ {"revert", "clear", "restore"}
        /\ (errors' = 0 \/ Doing' \in Handling) => Whichever(Prev)'
    BY <1>1, <1>2, <1>3, <2>1, CopyFacts, Known DEF Undisturbed, Pointing, ReleaseOK, Built, Handling,
         Rollbacks, AtPrev, AtNew, Quiet, Whichever, Doing, SameJob, SameTurn, Reads, Moves, Turned
  <2>. QED BY <2>2, <2>3, <2>4, <2>5, <2>6, <2>7 DEF Quiet
<1>. QED BY <1>1, <1>4, <1>5, <1>6, <1>7 DEF SkillInv, Shapes

\* The transaction is over.
LEMMA ClearTransactionKeeps ==
  ASSUME SkillAssumption, SkillInv, ClearTransaction
  PROVE  SkillInv'
<1>1. TypeOK /\ Shapes /\ ReleaseOK /\ proc \in [Processes -> States]
  BY DEF SkillInv, Shapes
<1>2. me.step = "clear" /\ Turned("restore")
  BY <1>1, GotoTurns DEF ClearTransaction, At, me, Steps, Reads, Moves, Installs, Rollbacks
<1>3. txn' = None /\ Cleared /\ UNCHANGED <<pointer, native, release, anchor, assigned, crashes, errors>>
      /\ Touch
  BY <1>1 DEF ClearTransaction, Cleared, TypeOK, Names, Keep, world, disk
<1>4. TypeOK'
  BY <1>1, <1>2, <1>3, TouchIs DEF TypeOK, OptBundle, Turned, Cleared
<1>5. Shapes' /\ ReleaseOK'
  BY <1>1, <1>2, <1>3, Actors DEF Shapes, ReleaseOK, Reading, Moving, Doing, SameJob, SameTurn, Still,
       Built, Reads, Moves, Installs, Rollbacks, Turned, Cleared
<1>6. ASSUME ~ touched' PROVE Undisturbed'
  <2>1. ~ touched /\ Undisturbed /\ ~ Interferes'
    BY <1>3, <1>6, Undisturbing
  <2>2. Receipted'
    BY <1>1, <1>2, <1>3, <2>1, CopyFacts, Known DEF Undisturbed, Receipted, Names, Missing, Pointing, Whole,
         Doing, Active, ReleaseOK, Built, SameJob, Reads, Moves, Turned, Cleared
  <2>3. Pointing'
    BY <1>1, <1>2, <1>3, <2>1, CopyFacts, Known DEF Undisturbed, Pointing, Whole, Names, Doing, AtPrev,
         AtNew, Active, SameJob, SameTurn, Reads, Moves, Reading, Turned, Cleared
  <2>4. Transacting'
    BY <1>1, <1>2, <1>3, <2>1, CopyFacts, Known DEF Undisturbed, Transacting, Pointing, Active, AtNew,
         Whole, Missing, Doing, Under, Names, SameJob, SameTurn, Reads, Moves, Installs, Turned, Cleared
  <2>5. Recovering'
    BY <1>2, <2>1, NobodyRecovers DEF Recovering, Turned, Cleared
  <2>. QED BY <2>1, <2>2, <2>3, <2>4, <2>5 DEF Undisturbed
<1>7. ASSUME ~ touched', crashes' = 0, errors' <= 1 PROVE Quiet'
  <2>1. Undisturbed /\ Quiet /\ ~ Interferes'
    BY <1>3, <1>7, Quieting, Undisturbing
  <2>2. Native'
    BY <1>1, <1>2, <1>3, <2>1, CopyFacts, Known DEF Undisturbed, Pointing, AtPrev, AtNew, Quiet, Native, Of,
         Doing, SameJob, SameTurn, Reads, Moves, Turned, Cleared
  <2>3. \A p \in Processes : proc'[p].step \notin {"recovering", "recovered", "clearing"}
    BY <1>2, <2>1, NobodyRecovers DEF Turned, Cleared
  <2>4. Doing' \in Handling => errors' >= 1
    BY <1>1, <1>2, <1>3, <2>1, CopyFacts, Known DEF Undisturbed, Pointing, Active, Whole, Missing, Quiet,
         Doing, Handling, Rollbacks, SameTurn, Reads, Moves, Turned, Cleared
  <2>5. txn' # None => me'.step \in {"manifest", "clear"} \/ Doing' \in Under
    BY <1>1, <1>2, <1>3, <2>1 DEF Quiet, Doing, Under, SameTurn, Reads, Moves, Turned, Cleared
  <2>6. errors' = 0 /\ ~ (me'.step = "verify" /\ pointer' = New') => Whichever(pointer)'
    BY <1>1, <1>2, <1>3, <2>1, CopyFacts, Known DEF Undisturbed, Pointing, ReleaseOK, Built, AtPrev, AtNew,
         Quiet, Handling, Rollbacks, Whichever, Doing, SameJob, Reads, Moves, Turned, Cleared
  <2>7. Doing' \in Built \ {"revert", "clear", "restore"}
        /\ (errors' = 0 \/ Doing' \in Handling) => Whichever(Prev)'
    BY <1>1, <1>2, <1>3, <2>1, CopyFacts, Known DEF Undisturbed, Pointing, ReleaseOK, Built, Handling,
         Rollbacks, AtPrev, AtNew, Quiet, Whichever, Doing, SameJob, SameTurn, Reads, Moves, Turned, Cleared
  <2>. QED BY <2>2, <2>3, <2>4, <2>5, <2>6, <2>7 DEF Quiet
<1>. QED BY <1>1, <1>4, <1>5, <1>6, <1>7 DEF SkillInv, Shapes

\* The anchor is what it was.
LEMMA RestoreAnchorKeeps ==
  ASSUME SkillAssumption, SkillInv, RestoreAnchor
  PROVE  SkillInv'
<1>1. TypeOK /\ Shapes /\ ReleaseOK /\ proc \in [Processes -> States]
  BY DEF SkillInv, Shapes
<1>2. me.step = "restore" /\ proc' \in [Processes -> States] /\ me' = Asleep /\ me'.step = "idle" /\ Still
  BY <1>1, SleepIs DEF RestoreAnchor, At, me
<1>3. anchor' \in OptReceipt /\ UNCHANGED <<pointer, dir, txn, native, release, assigned, crashes, errors>>
      /\ Touch
  BY <1>1, Known DEF RestoreAnchor, States, me, Keep, world, disk
<1>4. TypeOK'
  BY <1>1, <1>2, <1>3, CopyFacts, Known, TouchIs DEF TypeOK
<1>5. Shapes' /\ ReleaseOK'
  BY <1>1, <1>2, <1>3, Actors DEF Shapes, ReleaseOK, Reading, Moving, Doing, SameJob, SameTurn, Still,
       Built, Reads, Moves, Installs, Rollbacks
<1>6. ASSUME ~ touched' PROVE Undisturbed'
  <2>1. ~ touched /\ Undisturbed /\ ~ Interferes'
    BY <1>3, <1>6, Undisturbing
  <2>2. Receipted'
    BY <1>1, <1>2, <1>3, <2>1, CopyFacts, Known DEF Undisturbed, Receipted, Names, Missing, Pointing, Whole,
         Doing, Active, ReleaseOK, Built, SameJob, Reads, Moves
  <2>3. Pointing'
    BY <1>1, <1>2, <1>3, <2>1, CopyFacts, Known DEF Undisturbed, Pointing, Whole, Names, Doing, AtPrev,
         AtNew, Active, SameJob, SameTurn, Reads, Moves, Reading
  <2>4. Transacting'
    BY <1>1, <1>2, <1>3, <2>1, CopyFacts, Known DEF Undisturbed, Transacting, Pointing, Active, AtNew,
         Whole, Missing, Doing, Under, Names, SameJob, SameTurn, Reads, Moves, Installs
  <2>5. Recovering'
    BY <1>2, <2>1, NobodyRecovers DEF Recovering
  <2>. QED BY <2>1, <2>2, <2>3, <2>4, <2>5 DEF Undisturbed
<1>7. ASSUME ~ touched', crashes' = 0, errors' <= 1 PROVE Quiet'
  <2>1. Undisturbed /\ Quiet /\ ~ Interferes'
    BY <1>3, <1>7, Quieting, Undisturbing
  <2>2. Native'
    BY <1>1, <1>2, <1>3, <2>1, CopyFacts, Known DEF Undisturbed, Pointing, AtPrev, AtNew, Quiet, Native, Of,
         Doing, SameJob, SameTurn, Reads, Moves
  <2>3. \A p \in Processes : proc'[p].step \notin {"recovering", "recovered", "clearing"}
    BY <1>2, <2>1, NobodyRecovers
  <2>4. Doing' \in Handling => errors' >= 1
    BY <1>1, <1>2, <1>3, <2>1, CopyFacts, Known DEF Undisturbed, Pointing, Active, Whole, Missing, Quiet,
         Doing, Handling, Rollbacks, SameTurn, Reads, Moves
  <2>5. txn' # None => me'.step \in {"manifest", "clear"} \/ Doing' \in Under
    BY <1>1, <1>2, <1>3, <2>1 DEF Quiet, Doing, Under, SameTurn, Reads, Moves
  <2>6. errors' = 0 /\ ~ (me'.step = "verify" /\ pointer' = New') => Whichever(pointer)'
    BY <1>1, <1>2, <1>3, <2>1, CopyFacts, Known DEF Undisturbed, Pointing, ReleaseOK, Built, AtPrev, AtNew,
         Quiet, Handling, Rollbacks, Whichever, Doing, SameJob, Reads, Moves
  <2>7. Doing' \in Built \ {"revert", "clear", "restore"}
        /\ (errors' = 0 \/ Doing' \in Handling) => Whichever(Prev)'
    BY <1>1, <1>2, <1>3, <2>1, CopyFacts, Known DEF Undisturbed, Pointing, ReleaseOK, Built, Handling,
         Rollbacks, AtPrev, AtNew, Quiet, Whichever, Doing, SameJob, SameTurn, Reads, Moves
  <2>. QED BY <2>2, <2>3, <2>4, <2>5, <2>6, <2>7 DEF Quiet
<1>. QED BY <1>1, <1>4, <1>5, <1>6, <1>7 DEF SkillInv, Shapes

-----------------------------------------------------------------------------
(* The exchange of native skills.                                          *)

\* What is replaced is taken away.
LEMMA UnloadKeeps ==
  ASSUME SkillAssumption, SkillInv, Unload("sync")
  PROVE  SkillInv'
<1>1. TypeOK /\ Shapes /\ ReleaseOK /\ proc \in [Processes -> States]
  BY DEF SkillInv, Shapes
<1>2. me.step = "unload" /\ New \in Bundles /\ Moving /\ (me.load # None => release[me.load].whole)
      /\ Turned("load")
  <2>1. me.step = "unload" /\ (me.load # None => release[me.load].whole) /\ Goto("sync", "load")
    BY DEF Unload, At, me
  <2>2. Turned("load")
    BY <1>1, <2>1, GotoTurns DEF Steps, Reads, Moves, Installs, Rollbacks
  <2>. QED BY <1>1, <2>1, <2>2 DEF Shapes, Doing, Reads, Moves, Moving
<1>3. native' = [i \in SkillIds |-> IF i \in me.drop \cup SkillsOf(me.load) THEN None ELSE native[i]]
      /\ UNCHANGED <<pointer, dir, txn, release, anchor, assigned, crashes, errors>> /\ Touch
  BY DEF Unload, me, Keep, world, disk
<1>4. TypeOK'
  <2>1. native' \in [SkillIds -> OptBundle]
    BY <1>1, <1>3 DEF TypeOK, OptBundle
  <2>. QED BY <1>1, <1>2, <1>3, <2>1, TouchIs DEF TypeOK, Turned
<1>5. Shapes' /\ ReleaseOK'
  BY <1>1, <1>2, <1>3, Actors DEF Shapes, ReleaseOK, Reading, Moving, Doing, SameJob, SameTurn, Still,
       Built, Reads, Moves, Installs, Rollbacks, Turned
<1>6. ASSUME ~ touched' PROVE Undisturbed'
  <2>1. ~ touched /\ Undisturbed /\ ~ Interferes'
    BY <1>3, <1>6, Undisturbing
  <2>2. Receipted'
    BY <1>1, <1>2, <1>3, <2>1, CopyFacts, Known DEF Undisturbed, Receipted, Names, Missing, Pointing, Whole,
         Doing, Active, ReleaseOK, Built, SameJob, Reads, Moves, Turned, Moving
  <2>3. Pointing'
    BY <1>1, <1>2, <1>3, <2>1, CopyFacts, Known DEF Undisturbed, Pointing, Whole, Names, Doing, AtPrev,
         AtNew, Active, SameJob, SameTurn, Reads, Moves, Reading, Turned, Moving
  <2>4. Transacting'
    BY <1>1, <1>2, <1>3, <2>1, CopyFacts, Known DEF Undisturbed, Transacting, Pointing, Active, AtNew,
         Whole, Missing, Doing, Under, Names, SameJob, SameTurn, Reads, Moves, Installs, Turned, Moving
  <2>5. Recovering'
    BY <1>2, <2>1, NobodyRecovers DEF Recovering, Turned, Moving
  <2>. QED BY <2>1, <2>2, <2>3, <2>4, <2>5 DEF Undisturbed
<1>7. ASSUME ~ touched', crashes' = 0, errors' <= 1 PROVE Quiet'
  <2>1. Undisturbed /\ Quiet /\ ~ Interferes'
    BY <1>3, <1>7, Quieting, Undisturbing
  <2>2. Native'
    <3>1. native = IF me.then \in {"check", "mended"} THEN Of(Prev) ELSE Of(New)
      BY <1>2, <2>1 DEF Quiet, Native
    <3>2. PICK b \in {New, Prev} : native = Of(b) /\ SkillsOf(b) \subseteq me.drop \cup SkillsOf(me.load)
      BY <1>1, <1>2, <3>1, CopyFacts DEF Moving
    <3>3. native' = Of(None)
      BY <1>3, <3>2, UnloadedIs
    <3>. QED BY <1>2, <3>3 DEF Native, Turned
  <2>3. \A p \in Processes : proc'[p].step \notin {"recovering", "recovered", "clearing"}
    BY <1>2, <2>1, NobodyRecovers DEF Turned, Moving
  <2>4. Doing' \in Handling => errors' >= 1
    BY <1>1, <1>2, <1>3, <2>1, CopyFacts, Known DEF Undisturbed, Pointing, Active, Whole, Missing, Quiet,
         Doing, Handling, Rollbacks, SameTurn, Reads, Moves, Turned, Moving
  <2>5. txn' # None => me'.step \in {"manifest", "clear"} \/ Doing' \in Under
    BY <1>1, <1>2, <1>3, <2>1 DEF Quiet, Doing, Under, SameTurn, Reads, Moves, Turned, Moving
  <2>6. errors' = 0 /\ ~ (me'.step = "verify" /\ pointer' = New') => Whichever(pointer)'
    BY <1>1, <1>2, <1>3, <2>1, CopyFacts, Known DEF Undisturbed, Pointing, ReleaseOK, Built, AtPrev, AtNew,
         Quiet, Handling, Rollbacks, Whichever, Doing, SameJob, Reads, Moves, Turned, Moving
  <2>7. Doing' \in Built \ {"revert", "clear", "restore"}
        /\ (errors' = 0 \/ Doing' \in Handling) => Whichever(Prev)'
    BY <1>1, <1>2, <1>3, <2>1, CopyFacts, Known DEF Undisturbed, Pointing, ReleaseOK, Built, Handling,
         Rollbacks, AtPrev, AtNew, Quiet, Whichever, Doing, SameJob, SameTurn, Reads, Moves, Turned, Moving
  <2>. QED BY <2>2, <2>3, <2>4, <2>5, <2>6, <2>7 DEF Quiet
<1>. QED BY <1>1, <1>4, <1>5, <1>6, <1>7 DEF SkillInv, Shapes

\* Nothing is replaced when the release is not whole.
LEMMA UnloadFailsKeeps ==
  ASSUME SkillAssumption, SkillInv, UnloadFails("sync")
  PROVE  SkillInv'
<1>1. TypeOK /\ Shapes /\ ReleaseOK /\ proc \in [Processes -> States]
  BY DEF SkillInv, Shapes
<1>2. me.step = "unload" /\ New \in Bundles /\ Moving /\ me.load # None /\ ~ release[me.load].whole
      /\ Turned(me.catch)
  BY <1>1, GotoTurns DEF UnloadFails, Throw, At, me, Shapes, Doing, Moving, Steps, Reads, Moves, Installs,
       Rollbacks
<1>3. UNCHANGED <<pointer, dir, txn, native, release, anchor, assigned, crashes, errors>> /\ Touch
  BY DEF UnloadFails, Keep, world, disk
<1>4. TypeOK'
  BY <1>1, <1>2, <1>3, CopyFacts, Known, TouchIs DEF TypeOK, Turned, Moving
<1>5. Shapes' /\ ReleaseOK'
  BY <1>1, <1>2, <1>3, Actors DEF Shapes, ReleaseOK, Reading, Moving, Doing, SameJob, SameTurn, Still,
       Built, Reads, Moves, Installs, Rollbacks, Turned
<1>6. ASSUME ~ touched' PROVE Undisturbed'
  <2>1. ~ touched /\ Undisturbed /\ ~ Interferes'
    BY <1>3, <1>6, Undisturbing
  <2>2. Receipted'
    BY <1>1, <1>2, <1>3, <2>1, CopyFacts, Known DEF Undisturbed, Receipted, Names, Missing, Pointing, Whole,
         Doing, Active, ReleaseOK, Built, SameJob, Reads, Moves, Turned, Moving
  <2>3. Pointing'
    BY <1>1, <1>2, <1>3, <2>1, CopyFacts, Known DEF Undisturbed, Pointing, Whole, Names, Doing, AtPrev,
         AtNew, Active, SameJob, SameTurn, Reads, Moves, Reading, Turned, Moving
  <2>4. Transacting'
    BY <1>1, <1>2, <1>3, <2>1, CopyFacts, Known DEF Undisturbed, Transacting, Pointing, Active, AtNew,
         Whole, Missing, Doing, Under, Names, SameJob, SameTurn, Reads, Moves, Installs, Turned, Moving
  <2>5. Recovering'
    BY <1>2, <2>1, NobodyRecovers DEF Recovering, Turned, Moving
  <2>. QED BY <2>1, <2>2, <2>3, <2>4, <2>5 DEF Undisturbed
<1>7. ASSUME ~ touched', crashes' = 0, errors' <= 1 PROVE Quiet'
  <2>1. Undisturbed /\ Quiet /\ ~ Interferes'
    BY <1>3, <1>7, Quieting, Undisturbing
  <2>2. release[me.load].whole
    BY <1>1, <1>2, <2>1, Known DEF Quiet, Moving, ReleaseOK, Doing, Built, Handling, Rollbacks, Whichever,
         Reads, Moves
  <2>. QED BY <1>2, <2>2
<1>. QED BY <1>1, <1>4, <1>5, <1>6, <1>7 DEF SkillInv, Shapes

\* The copies take their place.
LEMMA LoadKeeps ==
  ASSUME SkillAssumption, SkillInv, Load("sync")
  PROVE  SkillInv'
<1>1. TypeOK /\ Shapes /\ ReleaseOK /\ proc \in [Processes -> States]
  BY DEF SkillInv, Shapes
<1>2. me.step = "load" /\ New \in Bundles /\ Moving /\ Turned(me.then)
  BY <1>1, GotoTurns DEF Load, At, me, Shapes, Doing, Moving, Steps, Reads, Moves, Installs, Rollbacks
<1>3. native' = [i \in SkillIds |-> IF i \in SkillsOf(me.load) THEN me.load ELSE native[i]]
      /\ UNCHANGED <<pointer, dir, txn, release, anchor, assigned, crashes, errors>> /\ Touch
  BY DEF Load, me, Keep, world, disk
<1>4. TypeOK'
  <2>1. native' \in [SkillIds -> OptBundle] /\ me.load \in OptBundle
    BY <1>1, <1>3, Known DEF TypeOK, States
  <2>. QED BY <1>1, <1>2, <1>3, <2>1, TouchIs DEF TypeOK, Turned
<1>5. Shapes' /\ ReleaseOK'
  BY <1>1, <1>2, <1>3, Actors DEF Shapes, ReleaseOK, Reading, Moving, Doing, SameJob, SameTurn, Still,
       Built, Reads, Moves, Installs, Rollbacks, Turned
<1>6. ASSUME ~ touched' PROVE Undisturbed'
  <2>1. ~ touched /\ Undisturbed /\ ~ Interferes'
    BY <1>3, <1>6, Undisturbing
  <2>2. Receipted'
    BY <1>1, <1>2, <1>3, <2>1, CopyFacts, Known DEF Undisturbed, Receipted, Names, Missing, Pointing, Whole,
         Doing, Active, ReleaseOK, Built, SameJob, Reads, Moves, Turned, Moving
  <2>3. Pointing'
    BY <1>1, <1>2, <1>3, <2>1, CopyFacts, Known DEF Undisturbed, Pointing, Whole, Names, Doing, AtPrev,
         AtNew, Active, SameJob, SameTurn, Reads, Moves, Reading, Turned, Moving
  <2>4. Transacting'
    BY <1>1, <1>2, <1>3, <2>1, CopyFacts, Known DEF Undisturbed, Transacting, Pointing, Active, AtNew,
         Whole, Missing, Doing, Under, Names, SameJob, SameTurn, Reads, Moves, Installs, Turned, Moving
  <2>5. Recovering'
    BY <1>2, <2>1, NobodyRecovers DEF Recovering, Turned, Moving
  <2>. QED BY <2>1, <2>2, <2>3, <2>4, <2>5 DEF Undisturbed
<1>7. ASSUME ~ touched', crashes' = 0, errors' <= 1 PROVE Quiet'
  <2>1. Undisturbed /\ Quiet /\ ~ Interferes'
    BY <1>3, <1>7, Quieting, Undisturbing
  <2>2. Native'
    <3>1. native = Of(None)
      BY <1>2, <2>1 DEF Quiet, Native
    <3>2. native' = Of(me.load)
      BY <1>3, <3>1, LoadedIs
    <3>. QED BY <1>2, <1>3, <2>1, <3>2 DEF Native, Moving, Turned, Undisturbed, Pointing, AtNew, Doing,
         SameJob, Reads, Moves
  <2>3. \A p \in Processes : proc'[p].step \notin {"recovering", "recovered", "clearing"}
    BY <1>2, <2>1, NobodyRecovers DEF Turned, Moving
  <2>4. Doing' \in Handling => errors' >= 1
    BY <1>1, <1>2, <1>3, <2>1, CopyFacts, Known DEF Undisturbed, Pointing, Active, Whole, Missing, Quiet,
         Doing, Handling, Rollbacks, SameTurn, Reads, Moves, Turned, Moving
  <2>5. txn' # None => me'.step \in {"manifest", "clear"} \/ Doing' \in Under
    BY <1>1, <1>2, <1>3, <2>1 DEF Quiet, Doing, Under, SameTurn, Reads, Moves, Turned, Moving
  <2>6. errors' = 0 /\ ~ (me'.step = "verify" /\ pointer' = New') => Whichever(pointer)'
    BY <1>1, <1>2, <1>3, <2>1, CopyFacts, Known DEF Undisturbed, Pointing, ReleaseOK, Built, AtPrev, AtNew,
         Quiet, Handling, Rollbacks, Whichever, Doing, SameJob, Reads, Moves, Turned, Moving
  <2>7. Doing' \in Built \ {"revert", "clear", "restore"}
        /\ (errors' = 0 \/ Doing' \in Handling) => Whichever(Prev)'
    BY <1>1, <1>2, <1>3, <2>1, CopyFacts, Known DEF Undisturbed, Pointing, ReleaseOK, Built, Handling,
         Rollbacks, AtPrev, AtNew, Quiet, Whichever, Doing, SameJob, SameTurn, Reads, Moves, Turned, Moving
  <2>. QED BY <2>2, <2>3, <2>4, <2>5, <2>6, <2>7 DEF Quiet
<1>. QED BY <1>1, <1>4, <1>5, <1>6, <1>7 DEF SkillInv, Shapes

-----------------------------------------------------------------------------
(* The synchronisation asks HQ and reads the pointer.                      *)

\* The relay asks for the bundle of its endpoint.
LEMMA PollKeeps ==
  ASSUME SkillAssumption, SkillInv, Poll
  PROVE  SkillInv'
<1>1. TypeOK /\ Shapes /\ ReleaseOK /\ proc \in [Processes -> States]
  BY DEF SkillInv, Shapes
<1>2. me.step = "idle" /\ proc' \in [Processes -> States] /\ New' \in Bundles /\ Still /\ me'.step = "recover"
      /\ me'.then = "build" /\ me'.catch = "idle"
  <2>1. ReadPointer("sync", [Asleep EXCEPT !.bundle = assigned, !.anchor = anchor], "build", "idle")
    BY DEF Poll
  <2>2. assigned \in OptBundle /\ assigned \in Bundles /\ anchor \in OptReceipt /\ "build" \in Steps
    BY <1>1 DEF TypeOK, OptBundle, Steps, Installs
  <2>. QED BY <1>1, <2>1, <2>2, ReadsFirst DEF Poll, At, me
<1>3. UNCHANGED <<pointer, dir, txn, native, release, anchor, assigned, crashes, errors>> /\ Touch
  BY DEF Poll, Keep, world, disk
<1>4. TypeOK'
  BY <1>1, <1>2, <1>3, CopyFacts, Known, TouchIs DEF TypeOK
<1>5. Shapes' /\ ReleaseOK'
  BY <1>1, <1>2, <1>3, Actors DEF Shapes, ReleaseOK, Reading, Moving, Doing, SameJob, SameTurn, Still,
       Built, Reads, Moves, Installs, Rollbacks
<1>6. ASSUME ~ touched' PROVE Undisturbed'
  <2>1. ~ touched /\ Undisturbed /\ ~ Interferes'
    BY <1>3, <1>6, Undisturbing
  <2>2. Receipted'
    BY <1>1, <1>2, <1>3, <2>1, CopyFacts, Known DEF Undisturbed, Receipted, Names, Missing, Pointing, Whole,
         Doing, Active, ReleaseOK, Built, SameJob, Reads, Moves
  <2>3. Pointing'
    BY <1>1, <1>2, <1>3, <2>1, CopyFacts, Known DEF Undisturbed, Pointing, Whole, Names, Doing, AtPrev,
         AtNew, Active, SameJob, SameTurn, Reads, Moves, Reading
  <2>4. Transacting'
    BY <1>1, <1>2, <1>3, <2>1, CopyFacts, Known DEF Undisturbed, Transacting, Pointing, Active, AtNew,
         Whole, Missing, Doing, Under, Names, SameJob, SameTurn, Reads, Moves, Installs
  <2>5. Recovering'
    BY <1>2, <2>1, NobodyRecoversNow DEF Recovering
  <2>. QED BY <2>1, <2>2, <2>3, <2>4, <2>5 DEF Undisturbed
<1>7. ASSUME ~ touched', crashes' = 0, errors' <= 1 PROVE Quiet'
  <2>1. Undisturbed /\ Quiet /\ ~ Interferes'
    BY <1>3, <1>7, Quieting, Undisturbing
  <2>2. Native'
    BY <1>1, <1>2, <1>3, <2>1, CopyFacts, Known DEF Undisturbed, Pointing, AtPrev, AtNew, Quiet, Native, Of,
         Doing, SameJob, SameTurn, Reads, Moves
  <2>3. \A p \in Processes : proc'[p].step \notin {"recovering", "recovered", "clearing"}
    BY <1>2, <2>1, NobodyRecoversNow
  <2>4. Doing' \in Handling => errors' >= 1
    BY <1>1, <1>2, <1>3, <2>1, CopyFacts, Known DEF Undisturbed, Pointing, Active, Whole, Missing, Quiet,
         Doing, Handling, Rollbacks, SameTurn, Reads, Moves
  <2>5. txn' # None => me'.step \in {"manifest", "clear"} \/ Doing' \in Under
    BY <1>1, <1>2, <1>3, <2>1 DEF Quiet, Doing, Under, SameTurn, Reads, Moves
  <2>6. errors' = 0 /\ ~ (me'.step = "verify" /\ pointer' = New') => Whichever(pointer)'
    BY <1>1, <1>2, <1>3, <2>1, CopyFacts, Known DEF Undisturbed, Pointing, ReleaseOK, Built, AtPrev, AtNew,
         Quiet, Handling, Rollbacks, Whichever, Doing, SameJob, Reads, Moves
  <2>7. Doing' \in Built \ {"revert", "clear", "restore"}
        /\ (errors' = 0 \/ Doing' \in Handling) => Whichever(Prev)'
    BY <1>1, <1>2, <1>3, <2>1, CopyFacts, Known DEF Undisturbed, Pointing, ReleaseOK, Built, Handling,
         Rollbacks, AtPrev, AtNew, Quiet, Whichever, Doing, SameJob, SameTurn, Reads, Moves
  <2>. QED BY <2>2, <2>3, <2>4, <2>5, <2>6, <2>7 DEF Quiet
<1>. QED BY <1>1, <1>4, <1>5, <1>6, <1>7 DEF SkillInv, Shapes

\* ... or somebody does, by hand.
LEMMA PollByHandKeeps ==
  ASSUME SkillAssumption, SkillInv, PollByHand
  PROVE  SkillInv'
<1>1. TypeOK /\ Shapes /\ ReleaseOK /\ proc \in [Processes -> States]
  BY DEF SkillInv, Shapes
<1>2. me.step = "idle" /\ proc' \in [Processes -> States] /\ New' \in Bundles /\ Still /\ me'.step = "recover"
      /\ me'.then = "ask" /\ me'.catch = "idle"
  <2>1. ReadPointer("sync", [Asleep EXCEPT !.bundle = assigned, !.anchor = anchor], "ask", "idle")
    BY DEF PollByHand
  <2>2. assigned \in OptBundle /\ assigned \in Bundles /\ anchor \in OptReceipt /\ "ask" \in Steps
    BY <1>1 DEF TypeOK, OptBundle, Steps, Installs
  <2>. QED BY <1>1, <2>1, <2>2, ReadsFirst DEF PollByHand, At, me
<1>3. UNCHANGED <<pointer, dir, txn, native, release, anchor, assigned, crashes, errors>> /\ Touch
  BY DEF PollByHand, Keep, world, disk
<1>4. TypeOK'
  BY <1>1, <1>2, <1>3, CopyFacts, Known, TouchIs DEF TypeOK
<1>5. Shapes' /\ ReleaseOK'
  BY <1>1, <1>2, <1>3, Actors DEF Shapes, ReleaseOK, Reading, Moving, Doing, SameJob, SameTurn, Still,
       Built, Reads, Moves, Installs, Rollbacks
<1>6. ASSUME ~ touched' PROVE Undisturbed'
  <2>1. ~ touched /\ Undisturbed /\ ~ Interferes'
    BY <1>3, <1>6, Undisturbing
  <2>2. Receipted'
    BY <1>1, <1>2, <1>3, <2>1, CopyFacts, Known DEF Undisturbed, Receipted, Names, Missing, Pointing, Whole,
         Doing, Active, ReleaseOK, Built, SameJob, Reads, Moves
  <2>3. Pointing'
    BY <1>1, <1>2, <1>3, <2>1, CopyFacts, Known DEF Undisturbed, Pointing, Whole, Names, Doing, AtPrev,
         AtNew, Active, SameJob, SameTurn, Reads, Moves, Reading
  <2>4. Transacting'
    BY <1>1, <1>2, <1>3, <2>1, CopyFacts, Known DEF Undisturbed, Transacting, Pointing, Active, AtNew,
         Whole, Missing, Doing, Under, Names, SameJob, SameTurn, Reads, Moves, Installs
  <2>5. Recovering'
    BY <1>2, <2>1, NobodyRecoversNow DEF Recovering
  <2>. QED BY <2>1, <2>2, <2>3, <2>4, <2>5 DEF Undisturbed
<1>7. ASSUME ~ touched', crashes' = 0, errors' <= 1 PROVE Quiet'
  <2>1. Undisturbed /\ Quiet /\ ~ Interferes'
    BY <1>3, <1>7, Quieting, Undisturbing
  <2>2. Native'
    BY <1>1, <1>2, <1>3, <2>1, CopyFacts, Known DEF Undisturbed, Pointing, AtPrev, AtNew, Quiet, Native, Of,
         Doing, SameJob, SameTurn, Reads, Moves
  <2>3. \A p \in Processes : proc'[p].step \notin {"recovering", "recovered", "clearing"}
    BY <1>2, <2>1, NobodyRecoversNow
  <2>4. Doing' \in Handling => errors' >= 1
    BY <1>1, <1>2, <1>3, <2>1, CopyFacts, Known DEF Undisturbed, Pointing, Active, Whole, Missing, Quiet,
         Doing, Handling, Rollbacks, SameTurn, Reads, Moves
  <2>5. txn' # None => me'.step \in {"manifest", "clear"} \/ Doing' \in Under
    BY <1>1, <1>2, <1>3, <2>1 DEF Quiet, Doing, Under, SameTurn, Reads, Moves
  <2>6. errors' = 0 /\ ~ (me'.step = "verify" /\ pointer' = New') => Whichever(pointer)'
    BY <1>1, <1>2, <1>3, <2>1, CopyFacts, Known DEF Undisturbed, Pointing, ReleaseOK, Built, AtPrev, AtNew,
         Quiet, Handling, Rollbacks, Whichever, Doing, SameJob, Reads, Moves
  <2>7. Doing' \in Built \ {"revert", "clear", "restore"}
        /\ (errors' = 0 \/ Doing' \in Handling) => Whichever(Prev)'
    BY <1>1, <1>2, <1>3, <2>1, CopyFacts, Known DEF Undisturbed, Pointing, ReleaseOK, Built, Handling,
         Rollbacks, AtPrev, AtNew, Quiet, Whichever, Doing, SameJob, SameTurn, Reads, Moves
  <2>. QED BY <2>2, <2>3, <2>4, <2>5, <2>6, <2>7 DEF Quiet
<1>. QED BY <1>1, <1>4, <1>5, <1>6, <1>7 DEF SkillInv, Shapes

\* A task asks for the authorization.
LEMMA ConsultKeeps ==
  ASSUME SkillAssumption, SkillInv, Consult
  PROVE  SkillInv'
<1>1. TypeOK /\ Shapes /\ ReleaseOK /\ proc \in [Processes -> States]
  BY DEF SkillInv, Shapes
<1>2. me.step = "idle" /\ proc' \in [Processes -> States] /\ Still /\ me'.step = "recover" /\ me'.then = "idle"
      /\ me'.catch = "idle"
  BY <1>1, ReadsOnly DEF Consult, At, me
<1>3. UNCHANGED <<pointer, dir, txn, native, release, anchor, assigned, crashes, errors>> /\ Touch
  BY DEF Consult, Keep, world, disk
<1>4. TypeOK'
  BY <1>1, <1>2, <1>3, CopyFacts, Known, TouchIs DEF TypeOK
<1>5. Shapes' /\ ReleaseOK'
  BY <1>1, <1>2, <1>3, Actors DEF Shapes, ReleaseOK, Reading, Moving, Doing, SameJob, SameTurn, Still,
       Built, Reads, Moves, Installs, Rollbacks
<1>6. ASSUME ~ touched' PROVE Undisturbed'
  <2>1. ~ touched /\ Undisturbed /\ ~ Interferes'
    BY <1>3, <1>6, Undisturbing
  <2>2. Receipted'
    BY <1>1, <1>2, <1>3, <2>1, CopyFacts, Known DEF Undisturbed, Receipted, Names, Missing, Pointing, Whole,
         Doing, Active, ReleaseOK, Built, SameJob, Reads, Moves
  <2>3. Pointing'
    BY <1>1, <1>2, <1>3, <2>1, CopyFacts, Known DEF Undisturbed, Pointing, Whole, Names, Doing, AtPrev,
         AtNew, Active, SameJob, SameTurn, Reads, Moves, Reading
  <2>4. Transacting'
    BY <1>1, <1>2, <1>3, <2>1, CopyFacts, Known DEF Undisturbed, Transacting, Pointing, Active, AtNew,
         Whole, Missing, Doing, Under, Names, SameJob, SameTurn, Reads, Moves, Installs
  <2>5. Recovering'
    BY <1>2, <2>1, NobodyRecoversNow DEF Recovering
  <2>. QED BY <2>1, <2>2, <2>3, <2>4, <2>5 DEF Undisturbed
<1>7. ASSUME ~ touched', crashes' = 0, errors' <= 1 PROVE Quiet'
  <2>1. Undisturbed /\ Quiet /\ ~ Interferes'
    BY <1>3, <1>7, Quieting, Undisturbing
  <2>2. Native'
    BY <1>1, <1>2, <1>3, <2>1, CopyFacts, Known DEF Undisturbed, Pointing, AtPrev, AtNew, Quiet, Native, Of,
         Doing, SameJob, SameTurn, Reads, Moves
  <2>3. \A p \in Processes : proc'[p].step \notin {"recovering", "recovered", "clearing"}
    BY <1>2, <2>1, NobodyRecoversNow
  <2>4. Doing' \in Handling => errors' >= 1
    BY <1>1, <1>2, <1>3, <2>1, CopyFacts, Known DEF Undisturbed, Pointing, Active, Whole, Missing, Quiet,
         Doing, Handling, Rollbacks, SameTurn, Reads, Moves
  <2>5. txn' # None => me'.step \in {"manifest", "clear"} \/ Doing' \in Under
    BY <1>1, <1>2, <1>3, <2>1 DEF Quiet, Doing, Under, SameTurn, Reads, Moves
  <2>6. errors' = 0 /\ ~ (me'.step = "verify" /\ pointer' = New') => Whichever(pointer)'
    BY <1>1, <1>2, <1>3, <2>1, CopyFacts, Known DEF Undisturbed, Pointing, ReleaseOK, Built, AtPrev, AtNew,
         Quiet, Handling, Rollbacks, Whichever, Doing, SameJob, Reads, Moves
  <2>7. Doing' \in Built \ {"revert", "clear", "restore"}
        /\ (errors' = 0 \/ Doing' \in Handling) => Whichever(Prev)'
    BY <1>1, <1>2, <1>3, <2>1, CopyFacts, Known DEF Undisturbed, Pointing, ReleaseOK, Built, Handling,
         Rollbacks, AtPrev, AtNew, Quiet, Whichever, Doing, SameJob, SameTurn, Reads, Moves
  <2>. QED BY <2>2, <2>3, <2>4, <2>5, <2>6, <2>7 DEF Quiet
<1>. QED BY <1>1, <1>4, <1>5, <1>6, <1>7 DEF SkillInv, Shapes

\* HQ has something else to install, or has not.
LEMMA AskHqKeeps ==
  ASSUME SkillAssumption, SkillInv, AskHq
  PROVE  SkillInv'
<1>1. TypeOK /\ Shapes /\ ReleaseOK /\ proc \in [Processes -> States]
  BY DEF SkillInv, Shapes
<1>2. me.step = "ask" /\ proc' \in [Processes -> States] /\ Still
      /\ (Turned("build") \/ (me' = Asleep /\ me'.step = "idle"))
  <2>1. CASE Goto("sync", "build")
    BY <1>1, <2>1, GotoTurns DEF AskHq, At, me, Turned, Steps, Reads, Moves, Installs, Rollbacks
  <2>2. CASE Become("sync", Asleep)
    BY <1>1, <2>2, SleepIs DEF AskHq, At, me
  <2>. QED BY <2>1, <2>2 DEF AskHq
<1>3. UNCHANGED <<pointer, dir, txn, native, release, anchor, assigned, crashes, errors>> /\ Touch
  BY DEF AskHq, Keep, world, disk
<1>4. TypeOK'
  BY <1>1, <1>2, <1>3, CopyFacts, Known, TouchIs DEF TypeOK, Turned
<1>5. Shapes' /\ ReleaseOK'
  BY <1>1, <1>2, <1>3, Actors DEF Shapes, ReleaseOK, Reading, Moving, Doing, SameJob, SameTurn, Still,
       Built, Reads, Moves, Installs, Rollbacks, Turned
<1>6. ASSUME ~ touched' PROVE Undisturbed'
  <2>1. ~ touched /\ Undisturbed /\ ~ Interferes'
    BY <1>3, <1>6, Undisturbing
  <2>2. Receipted'
    BY <1>1, <1>2, <1>3, <2>1, CopyFacts, Known DEF Undisturbed, Receipted, Names, Missing, Pointing, Whole,
         Doing, Active, ReleaseOK, Built, SameJob, Reads, Moves, Turned
  <2>3. Pointing'
    BY <1>1, <1>2, <1>3, <2>1, CopyFacts, Known DEF Undisturbed, Pointing, Whole, Names, Doing, AtPrev,
         AtNew, Active, SameJob, SameTurn, Reads, Moves, Reading, Turned
  <2>4. Transacting'
    BY <1>1, <1>2, <1>3, <2>1, CopyFacts, Known DEF Undisturbed, Transacting, Pointing, Active, AtNew,
         Whole, Missing, Doing, Under, Names, SameJob, SameTurn, Reads, Moves, Installs, Turned
  <2>5. Recovering'
    BY <1>2, <2>1, NobodyRecovers DEF Recovering, Turned
  <2>. QED BY <2>1, <2>2, <2>3, <2>4, <2>5 DEF Undisturbed
<1>7. ASSUME ~ touched', crashes' = 0, errors' <= 1 PROVE Quiet'
  <2>1. Undisturbed /\ Quiet /\ ~ Interferes'
    BY <1>3, <1>7, Quieting, Undisturbing
  <2>2. Native'
    BY <1>1, <1>2, <1>3, <2>1, CopyFacts, Known DEF Undisturbed, Pointing, AtPrev, AtNew, Quiet, Native, Of,
         Doing, SameJob, SameTurn, Reads, Moves, Turned
  <2>3. \A p \in Processes : proc'[p].step \notin {"recovering", "recovered", "clearing"}
    BY <1>2, <2>1, NobodyRecovers DEF Turned
  <2>4. Doing' \in Handling => errors' >= 1
    BY <1>1, <1>2, <1>3, <2>1, CopyFacts, Known DEF Undisturbed, Pointing, Active, Whole, Missing, Quiet,
         Doing, Handling, Rollbacks, SameTurn, Reads, Moves, Turned
  <2>5. txn' # None => me'.step \in {"manifest", "clear"} \/ Doing' \in Under
    BY <1>1, <1>2, <1>3, <2>1 DEF Quiet, Doing, Under, SameTurn, Reads, Moves, Turned
  <2>6. errors' = 0 /\ ~ (me'.step = "verify" /\ pointer' = New') => Whichever(pointer)'
    BY <1>1, <1>2, <1>3, <2>1, CopyFacts, Known DEF Undisturbed, Pointing, ReleaseOK, Built, AtPrev, AtNew,
         Quiet, Handling, Rollbacks, Whichever, Doing, SameJob, Reads, Moves, Turned
  <2>7. Doing' \in Built \ {"revert", "clear", "restore"}
        /\ (errors' = 0 \/ Doing' \in Handling) => Whichever(Prev)'
    BY <1>1, <1>2, <1>3, <2>1, CopyFacts, Known DEF Undisturbed, Pointing, ReleaseOK, Built, Handling,
         Rollbacks, AtPrev, AtNew, Quiet, Whichever, Doing, SameJob, SameTurn, Reads, Moves, Turned
  <2>. QED BY <2>2, <2>3, <2>4, <2>5, <2>6, <2>7 DEF Quiet
<1>. QED BY <1>1, <1>4, <1>5, <1>6, <1>7 DEF SkillInv, Shapes

\* There is no rollback to recover, or one without its manifest.
LEMMA RecoverKeeps ==
  ASSUME SkillAssumption, SkillInv, Recover("sync")
  PROVE  SkillInv'
<1>1. TypeOK /\ Shapes /\ ReleaseOK /\ proc \in [Processes -> States]
  BY DEF SkillInv, Shapes
<1>2. me.step = "recover" /\ Reading /\ (Doing # "idle" => New \in Bundles)
      /\ (IF txn = NoBundle THEN Turned(me.catch) ELSE Turned("read"))
  BY <1>1, GotoTurns DEF Recover, Throw, At, me, Doing, Shapes, Reading, Steps, Reads, Moves, Installs,
       Rollbacks
<1>3. txn \in {None, NoBundle}
      /\ UNCHANGED <<pointer, dir, txn, native, release, anchor, assigned, crashes, errors>> /\ Touch
  BY <1>1 DEF Recover, TypeOK, OptBundle, Keep, world, disk
<1>4. TypeOK'
  BY <1>1, <1>2, <1>3, CopyFacts, Known, TouchIs DEF TypeOK, Turned, Reading
<1>5. Shapes' /\ ReleaseOK'
  BY <1>1, <1>2, <1>3, Actors DEF Shapes, ReleaseOK, Reading, Moving, Doing, SameJob, SameTurn, Still,
       Built, Reads, Moves, Installs, Rollbacks, Turned
<1>6. ASSUME ~ touched' PROVE Undisturbed'
  <2>1. ~ touched /\ Undisturbed /\ ~ Interferes'
    BY <1>3, <1>6, Undisturbing
  <2>2. Receipted'
    BY <1>1, <1>2, <1>3, <2>1, CopyFacts, Known DEF Undisturbed, Receipted, Names, Missing, Pointing, Whole,
         Doing, Active, ReleaseOK, Built, SameJob, Reads, Moves, Turned, Reading
  <2>3. Pointing'
    BY <1>1, <1>2, <1>3, <2>1, CopyFacts, Known DEF Undisturbed, Pointing, Whole, Names, Doing, AtPrev,
         AtNew, Active, SameJob, SameTurn, Reads, Moves, Reading, Turned
  <2>4. Transacting'
    BY <1>1, <1>2, <1>3, <2>1, CopyFacts, Known DEF Undisturbed, Transacting, Pointing, Active, AtNew,
         Whole, Missing, Doing, Under, Names, SameJob, SameTurn, Reads, Moves, Installs, Turned, Reading
  <2>5. Recovering'
    BY <1>2, <2>1, NobodyRecovers DEF Recovering, Turned, Reading
  <2>. QED BY <2>1, <2>2, <2>3, <2>4, <2>5 DEF Undisturbed
<1>7. ASSUME ~ touched', crashes' = 0, errors' <= 1 PROVE Quiet'
  <2>1. Undisturbed /\ Quiet /\ ~ Interferes'
    BY <1>3, <1>7, Quieting, Undisturbing
  <2>2. Native'
    BY <1>1, <1>2, <1>3, <2>1, CopyFacts, Known DEF Undisturbed, Pointing, AtPrev, AtNew, Quiet, Native, Of,
         Doing, SameJob, SameTurn, Reads, Moves, Turned, Reading
  <2>3. \A p \in Processes : proc'[p].step \notin {"recovering", "recovered", "clearing"}
    BY <1>2, <2>1, NobodyRecovers DEF Turned, Reading
  <2>4. Doing' \in Handling => errors' >= 1
    BY <1>1, <1>2, <1>3, <2>1, CopyFacts, Known DEF Undisturbed, Pointing, Active, Whole, Missing, Quiet,
         Doing, Handling, Rollbacks, SameTurn, Reads, Moves, Turned, Reading
  <2>5. txn' # None => me'.step \in {"manifest", "clear"} \/ Doing' \in Under
    BY <1>1, <1>2, <1>3, <2>1 DEF Quiet, Doing, Under, SameTurn, Reads, Moves, Turned, Reading
  <2>6. errors' = 0 /\ ~ (me'.step = "verify" /\ pointer' = New') => Whichever(pointer)'
    BY <1>1, <1>2, <1>3, <2>1, CopyFacts, Known DEF Undisturbed, Pointing, ReleaseOK, Built, AtPrev, AtNew,
         Quiet, Handling, Rollbacks, Whichever, Doing, SameJob, Reads, Moves, Turned, Reading
  <2>7. Doing' \in Built \ {"revert", "clear", "restore"}
        /\ (errors' = 0 \/ Doing' \in Handling) => Whichever(Prev)'
    BY <1>1, <1>2, <1>3, <2>1, CopyFacts, Known DEF Undisturbed, Pointing, ReleaseOK, Built, Handling,
         Rollbacks, AtPrev, AtNew, Quiet, Whichever, Doing, SameJob, SameTurn, Reads, Moves, Turned, Reading
  <2>. QED BY <2>2, <2>3, <2>4, <2>5, <2>6, <2>7 DEF Quiet
<1>. QED BY <1>1, <1>4, <1>5, <1>6, <1>7 DEF SkillInv, Shapes

LEMMA RecoverRollbackIs ==
  ASSUME SkillAssumption, TypeOK, NEW p, RecoverRollback(p)
  PROVE  txn \in Bundles
         /\ (IF ~ Missing("backup") THEN Moved("backup", "active") ELSE IF Missing("active")
             THEN Put("active") /\ dir'["active"] = CopyOf(txn) ELSE dir' = dir)
         /\ UNCHANGED <<pointer, txn, native, release, anchor, assigned, crashes, errors>> /\ Touch
<1>1. txn \in Bundles => CopyOf(txn) \in Copies
  BY CopyFacts
<1>2. ASSUME ~ Missing("backup") PROVE Moved("backup", "active")
  BY <1>2, MovedIs DEF RecoverRollback, Names
<1>3. ASSUME Missing("backup"), Missing("active") PROVE Put("active") /\ dir'["active"] = CopyOf(txn)
  BY <1>1, <1>3 DEF RecoverRollback, Put, TypeOK, Names
<1>. QED BY <1>2, <1>3 DEF RecoverRollback, Keep, world, disk

LEMMA RecoverNativeIs ==
  ASSUME SkillAssumption, TypeOK, NEW p, RecoverNative(p)
  PROVE  native' \in [SkillIds -> OptBundle]
         /\ UNCHANGED <<pointer, dir, txn, release, anchor, assigned, crashes, errors>> /\ Touch
<1>1. native' = native \/ (txn \in Bundles /\ native' = [s \in SkillIds |-> IF s \in Skills[txn] THEN txn
      ELSE None])
  BY DEF RecoverNative
<1>2. native' \in [SkillIds -> OptBundle]
  BY <1>1 DEF TypeOK, OptBundle
<1>. QED BY <1>2 DEF RecoverNative, Keep, world, disk

LEMMA RecoverPointerIs ==
  ASSUME SkillAssumption, TypeOK, NEW p, RecoverPointer(p)
  PROVE  pointer' = (IF txn \in Bundles THEN txn ELSE pointer)
         /\ UNCHANGED <<dir, txn, native, release, anchor, assigned, crashes, errors>> /\ Touch
BY DEF RecoverPointer, Keep, world, disk

LEMMA ClearRecoveredIs ==
  ASSUME SkillAssumption, TypeOK, NEW p, ClearRecovered(p)
  PROVE  txn' = None /\ Cleared /\ UNCHANGED <<pointer, native, release, anchor, assigned, crashes, errors>>
         /\ Touch
BY DEF ClearRecovered, Cleared, TypeOK, Names, Keep, world, disk

LEMMA RejectActiveIs ==
  ASSUME SkillAssumption, TypeOK, NEW p, RejectActive(p)
  PROVE  BundleIn("active") # pointer /\ Moved("active", "rejected")
         /\ UNCHANGED <<pointer, txn, native, release, anchor, assigned, crashes, errors>> /\ Touch
BY MovedIs DEF RejectActive, Keep, world, Names

LEMMA RestoreRollbackIs ==
  ASSUME SkillAssumption, TypeOK, NEW p, RestoreRollback(p)
  PROVE  Restored /\ UNCHANGED <<pointer, txn, native, release, anchor, assigned, crashes, errors>> /\ Touch
<1>1. Missing("rollback") => dir' = dir \/ Moved("rejected", "active")
  BY MovedIs DEF RestoreRollback, Names
<1>2. ASSUME ~ Missing("rollback") PROVE Restored
  BY <1>2 DEF RestoreRollback, Restored, TypeOK, Names
<1>. QED BY <1>1, <1>2 DEF RestoreRollback, Restored, Keep, world, disk

\* The bundle of an interrupted rollback is put into its place.
LEMMA RecoverRollbackKeeps ==
  ASSUME SkillAssumption, SkillInv, RecoverRollback("sync")
  PROVE  SkillInv'
<1>1. TypeOK /\ Shapes /\ ReleaseOK /\ proc \in [Processes -> States]
  BY DEF SkillInv, Shapes
<1>2. me.step = "recover" /\ Reading /\ (Doing # "idle" => New \in Bundles) /\ Turned("recovering")
  <2>1. Goto("sync", "recovering") /\ me.step = "recover"
    BY DEF RecoverRollback, Become, Goto, At, me
  <2>. QED BY <1>1, <2>1, GotoTurns DEF Doing, Shapes, Steps, Reads, Moves, Installs, Rollbacks
<1>3. txn \in Bundles
      /\ (IF ~ Missing("backup") THEN Moved("backup", "active") ELSE IF Missing("active")
          THEN Put("active") /\ dir'["active"] = CopyOf(txn) ELSE dir' = dir)
      /\ UNCHANGED <<pointer, txn, native, release, anchor, assigned, crashes, errors>> /\ Touch
  BY <1>1, RecoverRollbackIs
<1>4. TypeOK'
  BY <1>1, <1>2, <1>3, CopyFacts, Known, TouchIs DEF TypeOK, Turned, Reading, Moved, Put
<1>5. Shapes' /\ ReleaseOK'
  BY <1>1, <1>2, <1>3, Actors DEF Shapes, ReleaseOK, Reading, Moving, Doing, SameJob, SameTurn, Still,
       Built, Reads, Moves, Installs, Rollbacks, Turned, Moved, Put
<1>6. ASSUME ~ touched' PROVE Undisturbed'
  <2>1. ~ touched /\ Undisturbed /\ ~ Interferes'
    BY <1>3, <1>6, Undisturbing
  <2>2. Receipted'
    BY <1>1, <1>2, <1>3, <2>1, CopyFacts, Known DEF Undisturbed, Receipted, Names, Missing, Pointing, Whole,
         Doing, Active, ReleaseOK, Built, SameJob, Reads, Moves, Turned, Reading, Moved, Put
  <2>3. Pointing'
    <3>1. Doing # "confirm" /\ Doing = Doing'
      BY <1>1, <1>2, <1>3, <2>1, CopyFacts, Known DEF Undisturbed, Transacting, Pointing, Whole, BundleIn,
           Missing, Doing, AtNew, Active, Reads, Moves, Turned, SameTurn
    <3>. QED BY <1>2, <3>1 DEF Reading, Pointing, Doing, AtPrev, AtNew, Active, Reads, Moves, Turned
  <2>4. Transacting'
    BY <1>1, <1>2, <1>3, <2>1, CopyFacts, Known DEF Undisturbed, Transacting, Pointing, Active, AtNew,
         Whole, Missing, Doing, Under, Names, SameJob, SameTurn, Reads, Moves, Installs, Turned, Reading, Moved,
         Put
  <2>5. Recovering'
    <3>1. \A q \in Readers : proc'[q].step \notin {"recovering", "recovered", "clearing"}
      BY <1>2, <2>1, ReadersWait DEF Still, Repairs, Undisturbed, Turned
    <3>. QED BY <1>1, <1>2, <1>3, <2>1, <3>1, CopyFacts, Known, Actors DEF Undisturbed, Recovering,
         Transacting, Pointing, Whole, Missing, Names, Turned, SameJob, me, Moved, Put
  <2>. QED BY <2>1, <2>2, <2>3, <2>4, <2>5 DEF Undisturbed
<1>7. ASSUME ~ touched', crashes' = 0, errors' <= 1 PROVE Quiet'
  <2>1. Undisturbed /\ Quiet /\ ~ Interferes'
    BY <1>3, <1>7, Quieting, Undisturbing
  <2>. QED BY <1>1, <1>2, <1>3, <2>1, Actors, CopyFacts DEF Quiet, Reading, Doing, Under, Reads, Moves,
       Turned, me
<1>. QED BY <1>1, <1>4, <1>5, <1>6, <1>7 DEF SkillInv, Shapes

\* ... then its native skills, ...
LEMMA RecoverNativeKeeps ==
  ASSUME SkillAssumption, SkillInv, RecoverNative("sync")
  PROVE  SkillInv'
<1>1. TypeOK /\ Shapes /\ ReleaseOK /\ proc \in [Processes -> States]
  BY DEF SkillInv, Shapes
<1>2. me.step = "recovering" /\ Reading /\ (Doing # "idle" => New \in Bundles)
      /\ (IF txn \in Bundles /\ release[txn].whole THEN Turned("recovered") ELSE Turned(me.catch))
  BY <1>1, GotoTurns DEF RecoverNative, Throw, At, me, Doing, Shapes, Reading, Steps, Reads, Moves,
       Installs, Rollbacks
<1>3. native' \in [SkillIds -> OptBundle]
      /\ UNCHANGED <<pointer, dir, txn, release, anchor, assigned, crashes, errors>> /\ Touch
  BY <1>1, RecoverNativeIs
<1>4. TypeOK'
  BY <1>1, <1>2, <1>3, CopyFacts, Known, TouchIs DEF TypeOK, Turned, Reading
<1>5. Shapes' /\ ReleaseOK'
  BY <1>1, <1>2, <1>3, Actors DEF Shapes, ReleaseOK, Reading, Moving, Doing, SameJob, SameTurn, Still,
       Built, Reads, Moves, Installs, Rollbacks, Turned
<1>6. ASSUME ~ touched' PROVE Undisturbed'
  <2>1. ~ touched /\ Undisturbed /\ ~ Interferes'
    BY <1>3, <1>6, Undisturbing
  <2>2. Receipted'
    BY <1>1, <1>2, <1>3, <2>1, CopyFacts, Known DEF Undisturbed, Receipted, Names, Missing, Pointing, Whole,
         Doing, Active, ReleaseOK, Built, SameJob, Reads, Moves, Turned, Reading
  <2>3. Pointing'
    BY <1>1, <1>2, <1>3, <2>1, CopyFacts, Known DEF Undisturbed, Pointing, Whole, Names, Doing, AtPrev,
         AtNew, Active, SameJob, SameTurn, Reads, Moves, Reading, Turned
  <2>4. Transacting'
    BY <1>1, <1>2, <1>3, <2>1, CopyFacts, Known DEF Undisturbed, Transacting, Pointing, Active, AtNew,
         Whole, Missing, Doing, Under, Names, SameJob, SameTurn, Reads, Moves, Installs, Turned, Reading
  <2>5. Recovering'
    <3>1. \A q \in Readers : proc'[q].step \notin {"recovering", "recovered", "clearing"}
      BY <1>2, <2>1, ReadersWait DEF Still, Repairs, Undisturbed, Turned
    <3>. QED BY <1>1, <1>2, <1>3, <2>1, <3>1, CopyFacts, Known, Actors DEF Undisturbed, Recovering,
         Transacting, Pointing, Whole, Missing, Names, Turned, SameJob, me, Reading
  <2>. QED BY <2>1, <2>2, <2>3, <2>4, <2>5 DEF Undisturbed
<1>7. ASSUME ~ touched', crashes' = 0, errors' <= 1 PROVE Quiet'
  <2>1. Undisturbed /\ Quiet /\ ~ Interferes'
    BY <1>3, <1>7, Quieting, Undisturbing
  <2>. QED BY <1>1, <1>2, <1>3, <2>1, Actors, CopyFacts DEF Quiet, Reading, Doing, Under, Reads, Moves,
       Turned, me
<1>. QED BY <1>1, <1>4, <1>5, <1>6, <1>7 DEF SkillInv, Shapes

\* ... then the pointer, ...
LEMMA RecoverPointerKeeps ==
  ASSUME SkillAssumption, SkillInv, RecoverPointer("sync")
  PROVE  SkillInv'
<1>1. TypeOK /\ Shapes /\ ReleaseOK /\ proc \in [Processes -> States]
  BY DEF SkillInv, Shapes
<1>2. me.step = "recovered" /\ Reading /\ (Doing # "idle" => New \in Bundles)
      /\ (IF txn \in Bundles THEN Turned("clearing") ELSE Turned(me.catch))
  BY <1>1, GotoTurns DEF RecoverPointer, Throw, At, me, Doing, Shapes, Reading, Steps, Reads, Moves,
       Installs, Rollbacks
<1>3. pointer' = (IF txn \in Bundles THEN txn ELSE pointer)
      /\ UNCHANGED <<dir, txn, native, release, anchor, assigned, crashes, errors>> /\ Touch
  BY <1>1, RecoverPointerIs
<1>4. TypeOK'
  BY <1>1, <1>2, <1>3, CopyFacts, Known, TouchIs DEF TypeOK, Turned, Reading
<1>5. Shapes' /\ ReleaseOK'
  BY <1>1, <1>2, <1>3, Actors DEF Shapes, ReleaseOK, Reading, Moving, Doing, SameJob, SameTurn, Still,
       Built, Reads, Moves, Installs, Rollbacks, Turned
<1>6. ASSUME ~ touched' PROVE Undisturbed'
  <2>1. ~ touched /\ Undisturbed /\ ~ Interferes'
    BY <1>3, <1>6, Undisturbing
  <2>2. Receipted'
    BY <1>1, <1>2, <1>3, <2>1, CopyFacts, Known DEF Undisturbed, Receipted, Names, Missing, Pointing, Whole,
         Doing, Active, ReleaseOK, Built, SameJob, Reads, Moves, Turned, Reading
  <2>3. Pointing'
    BY <1>1, <1>2, <1>3, <2>1, CopyFacts, Known DEF Undisturbed, Pointing, Whole, Names, Doing, AtPrev,
         AtNew, Active, SameJob, SameTurn, Reads, Moves, Reading, Turned
  <2>4. Transacting'
    BY <1>1, <1>2, <1>3, <2>1, CopyFacts, Known DEF Undisturbed, Transacting, Pointing, Active, AtNew,
         Whole, Missing, Doing, Under, Names, SameJob, SameTurn, Reads, Moves, Installs, Turned, Reading
  <2>5. Recovering'
    <3>1. \A q \in Readers : proc'[q].step \notin {"recovering", "recovered", "clearing"}
      BY <1>2, <2>1, ReadersWait DEF Still, Repairs, Undisturbed, Turned
    <3>. QED BY <1>1, <1>2, <1>3, <2>1, <3>1, CopyFacts, Known, Actors DEF Undisturbed, Recovering,
         Transacting, Pointing, Whole, Missing, Names, Turned, SameJob, me, Reading
  <2>. QED BY <2>1, <2>2, <2>3, <2>4, <2>5 DEF Undisturbed
<1>7. ASSUME ~ touched', crashes' = 0, errors' <= 1 PROVE Quiet'
  <2>1. Undisturbed /\ Quiet /\ ~ Interferes'
    BY <1>3, <1>7, Quieting, Undisturbing
  <2>. QED BY <1>1, <1>2, <1>3, <2>1, Actors, CopyFacts DEF Quiet, Reading, Doing, Under, Reads, Moves,
       Turned, me
<1>. QED BY <1>1, <1>4, <1>5, <1>6, <1>7 DEF SkillInv, Shapes

\* ... and the transaction is over.
LEMMA ClearRecoveredKeeps ==
  ASSUME SkillAssumption, SkillInv, ClearRecovered("sync")
  PROVE  SkillInv'
<1>1. TypeOK /\ Shapes /\ ReleaseOK /\ proc \in [Processes -> States]
  BY DEF SkillInv, Shapes
<1>2. me.step = "clearing" /\ Reading /\ (Doing # "idle" => New \in Bundles) /\ Turned("recover")
  <2>1. Goto("sync", "recover") /\ me.step = "clearing"
    BY DEF ClearRecovered, Become, Goto, At, me
  <2>. QED BY <1>1, <2>1, GotoTurns DEF Doing, Shapes, Steps, Reads, Moves, Installs, Rollbacks
<1>3. txn' = None /\ Cleared /\ UNCHANGED <<pointer, native, release, anchor, assigned, crashes, errors>>
      /\ Touch
  BY <1>1, ClearRecoveredIs
<1>4. TypeOK'
  BY <1>1, <1>2, <1>3, TouchIs DEF TypeOK, OptBundle, Turned, Cleared
<1>5. Shapes' /\ ReleaseOK'
  BY <1>1, <1>2, <1>3, Actors DEF Shapes, ReleaseOK, Reading, Moving, Doing, SameJob, SameTurn, Still,
       Built, Reads, Moves, Installs, Rollbacks, Turned, Cleared
<1>6. ASSUME ~ touched' PROVE Undisturbed'
  <2>1. ~ touched /\ Undisturbed /\ ~ Interferes'
    BY <1>3, <1>6, Undisturbing
  <2>2. Receipted'
    BY <1>1, <1>2, <1>3, <2>1, CopyFacts, Known DEF Undisturbed, Receipted, Names, Missing, Pointing, Whole,
         Doing, Active, ReleaseOK, Built, SameJob, Reads, Moves, Turned, Reading, Cleared
  <2>3. Pointing'
    BY <1>1, <1>2, <1>3, <2>1, CopyFacts, Known DEF Undisturbed, Pointing, Whole, Names, Doing, AtPrev,
         AtNew, Active, SameJob, SameTurn, Reads, Moves, Reading, Turned, Cleared
  <2>4. Transacting'
    BY <1>1, <1>2, <1>3, <2>1, CopyFacts, Known DEF Undisturbed, Transacting, Pointing, Active, AtNew,
         Whole, Missing, Doing, Under, Names, SameJob, SameTurn, Reads, Moves, Installs, Turned, Reading, Cleared
  <2>5. Recovering'
    BY <1>2, <2>1, NobodyRecovers DEF Recovering, Turned, Reading, Cleared
  <2>. QED BY <2>1, <2>2, <2>3, <2>4, <2>5 DEF Undisturbed
<1>7. ASSUME ~ touched', crashes' = 0, errors' <= 1 PROVE Quiet'
  <2>1. Undisturbed /\ Quiet /\ ~ Interferes'
    BY <1>3, <1>7, Quieting, Undisturbing
  <2>. QED BY <1>1, <1>2, <1>3, <2>1, Actors, CopyFacts DEF Quiet, Reading, Doing, Under, Reads, Moves,
       Turned, me
<1>. QED BY <1>1, <1>4, <1>5, <1>6, <1>7 DEF SkillInv, Shapes

\* The pointer and the active copy agree.
LEMMA ReadKeeps ==
  ASSUME SkillAssumption, SkillInv, Read("sync")
  PROVE  SkillInv'
<1>1. TypeOK /\ Shapes /\ ReleaseOK /\ proc \in [Processes -> States]
  BY DEF SkillInv, Shapes
<1>2. me.step = "read" /\ Reading /\ (Doing # "idle" => New \in Bundles) /\ Turned(me.then)
  BY <1>1, GotoTurns DEF Read, At, me, Doing, Shapes, Reading, Steps, Reads, Moves, Installs, Rollbacks
<1>3. UNCHANGED <<pointer, dir, txn, native, release, anchor, assigned, crashes, errors>> /\ Touch
  BY DEF Read, Keep, world, disk
<1>4. TypeOK'
  BY <1>1, <1>2, <1>3, CopyFacts, Known, TouchIs DEF TypeOK, Turned, Reading
<1>5. Shapes' /\ ReleaseOK'
  BY <1>1, <1>2, <1>3, Actors DEF Shapes, ReleaseOK, Reading, Moving, Doing, SameJob, SameTurn, Still,
       Built, Reads, Moves, Installs, Rollbacks, Turned
<1>6. ASSUME ~ touched' PROVE Undisturbed'
  <2>1. ~ touched /\ Undisturbed /\ ~ Interferes'
    BY <1>3, <1>6, Undisturbing
  <2>2. Receipted'
    BY <1>1, <1>2, <1>3, <2>1, CopyFacts, Known DEF Undisturbed, Receipted, Names, Missing, Pointing, Whole,
         Doing, Active, ReleaseOK, Built, SameJob, Reads, Moves, Turned, Reading
  <2>3. Pointing'
    BY <1>1, <1>2, <1>3, <2>1, CopyFacts, Known DEF Undisturbed, Pointing, Whole, Names, Doing, AtPrev,
         AtNew, Active, SameJob, SameTurn, Reads, Moves, Reading, Turned
  <2>4. Transacting'
    BY <1>1, <1>2, <1>3, <2>1, CopyFacts, Known DEF Undisturbed, Transacting, Pointing, Active, AtNew,
         Whole, Missing, Doing, Under, Names, SameJob, SameTurn, Reads, Moves, Installs, Turned, Reading
  <2>5. Recovering'
    BY <1>2, <2>1, NobodyRecovers DEF Recovering, Turned, Reading
  <2>. QED BY <2>1, <2>2, <2>3, <2>4, <2>5 DEF Undisturbed
<1>7. ASSUME ~ touched', crashes' = 0, errors' <= 1 PROVE Quiet'
  <2>1. Undisturbed /\ Quiet /\ ~ Interferes'
    BY <1>3, <1>7, Quieting, Undisturbing
  <2>2. Native'
    BY <1>1, <1>2, <1>3, <2>1, CopyFacts, Known DEF Undisturbed, Pointing, AtPrev, AtNew, Quiet, Native, Of,
         Doing, SameJob, SameTurn, Reads, Moves, Turned, Reading
  <2>3. \A p \in Processes : proc'[p].step \notin {"recovering", "recovered", "clearing"}
    BY <1>2, <2>1, NobodyRecovers DEF Turned, Reading
  <2>4. Doing' \in Handling => errors' >= 1
    BY <1>1, <1>2, <1>3, <2>1, CopyFacts, Known DEF Undisturbed, Pointing, Active, Whole, Missing, Quiet,
         Doing, Handling, Rollbacks, SameTurn, Reads, Moves, Turned, Reading
  <2>5. txn' # None => me'.step \in {"manifest", "clear"} \/ Doing' \in Under
    BY <1>1, <1>2, <1>3, <2>1 DEF Quiet, Doing, Under, SameTurn, Reads, Moves, Turned, Reading
  <2>6. errors' = 0 /\ ~ (me'.step = "verify" /\ pointer' = New') => Whichever(pointer)'
    BY <1>1, <1>2, <1>3, <2>1, CopyFacts, Known DEF Undisturbed, Pointing, ReleaseOK, Built, AtPrev, AtNew,
         Quiet, Handling, Rollbacks, Whichever, Doing, SameJob, Reads, Moves, Turned, Reading
  <2>7. Doing' \in Built \ {"revert", "clear", "restore"}
        /\ (errors' = 0 \/ Doing' \in Handling) => Whichever(Prev)'
    BY <1>1, <1>2, <1>3, <2>1, CopyFacts, Known DEF Undisturbed, Pointing, ReleaseOK, Built, Handling,
         Rollbacks, AtPrev, AtNew, Quiet, Whichever, Doing, SameJob, SameTurn, Reads, Moves, Turned, Reading
  <2>. QED BY <2>2, <2>3, <2>4, <2>5, <2>6, <2>7 DEF Quiet
<1>. QED BY <1>1, <1>4, <1>5, <1>6, <1>7 DEF SkillInv, Shapes

\* They do not, and nothing mends them.
LEMMA ReadRefusedKeeps ==
  ASSUME SkillAssumption, SkillInv, ReadRefused("sync")
  PROVE  SkillInv'
<1>1. TypeOK /\ Shapes /\ ReleaseOK /\ proc \in [Processes -> States]
  BY DEF SkillInv, Shapes
<1>2. me.step = "read" /\ Reading /\ (Doing # "idle" => New \in Bundles) /\ Turned(me.catch)
  BY <1>1, GotoTurns DEF ReadRefused, Throw, At, me, Doing, Shapes, Reading, Steps, Reads, Moves, Installs,
       Rollbacks
<1>3. UNCHANGED <<pointer, dir, txn, native, release, anchor, assigned, crashes, errors>> /\ Touch
  BY DEF ReadRefused, Keep, world, disk
<1>4. TypeOK'
  BY <1>1, <1>2, <1>3, CopyFacts, Known, TouchIs DEF TypeOK, Turned, Reading
<1>5. Shapes' /\ ReleaseOK'
  BY <1>1, <1>2, <1>3, Actors DEF Shapes, ReleaseOK, Reading, Moving, Doing, SameJob, SameTurn, Still,
       Built, Reads, Moves, Installs, Rollbacks, Turned
<1>6. ASSUME ~ touched' PROVE Undisturbed'
  <2>1. ~ touched /\ Undisturbed /\ ~ Interferes'
    BY <1>3, <1>6, Undisturbing
  <2>2. Receipted'
    BY <1>1, <1>2, <1>3, <2>1, CopyFacts, Known DEF Undisturbed, Receipted, Names, Missing, Pointing, Whole,
         Doing, Active, ReleaseOK, Built, SameJob, Reads, Moves, Turned, Reading
  <2>3. Pointing'
    BY <1>1, <1>2, <1>3, <2>1, CopyFacts, Known DEF Undisturbed, Pointing, Whole, Names, Doing, AtPrev,
         AtNew, Active, SameJob, SameTurn, Reads, Moves, Reading, Turned
  <2>4. Transacting'
    BY <1>1, <1>2, <1>3, <2>1, CopyFacts, Known DEF Undisturbed, Transacting, Pointing, Active, AtNew,
         Whole, Missing, Doing, Under, Names, SameJob, SameTurn, Reads, Moves, Installs, Turned, Reading
  <2>5. Recovering'
    BY <1>2, <2>1, NobodyRecovers DEF Recovering, Turned, Reading
  <2>. QED BY <2>1, <2>2, <2>3, <2>4, <2>5 DEF Undisturbed
<1>7. ASSUME ~ touched', crashes' = 0, errors' <= 1 PROVE Quiet'
  <2>1. Undisturbed /\ Quiet /\ ~ Interferes'
    BY <1>3, <1>7, Quieting, Undisturbing
  <2>2. Native'
    BY <1>1, <1>2, <1>3, <2>1, CopyFacts, Known DEF Undisturbed, Pointing, AtPrev, AtNew, Quiet, Native, Of,
         Doing, SameJob, SameTurn, Reads, Moves, Turned, Reading
  <2>3. \A p \in Processes : proc'[p].step \notin {"recovering", "recovered", "clearing"}
    BY <1>2, <2>1, NobodyRecovers DEF Turned, Reading
  <2>4. Doing' \in Handling => errors' >= 1
    BY <1>1, <1>2, <1>3, <2>1, CopyFacts, Known DEF Undisturbed, Pointing, Active, Whole, Missing, Quiet,
         Doing, Handling, Rollbacks, SameTurn, Reads, Moves, Turned, Reading
  <2>5. txn' # None => me'.step \in {"manifest", "clear"} \/ Doing' \in Under
    BY <1>1, <1>2, <1>3, <2>1 DEF Quiet, Doing, Under, SameTurn, Reads, Moves, Turned, Reading
  <2>6. errors' = 0 /\ ~ (me'.step = "verify" /\ pointer' = New') => Whichever(pointer)'
    BY <1>1, <1>2, <1>3, <2>1, CopyFacts, Known DEF Undisturbed, Pointing, ReleaseOK, Built, AtPrev, AtNew,
         Quiet, Handling, Rollbacks, Whichever, Doing, SameJob, Reads, Moves, Turned, Reading
  <2>7. Doing' \in Built \ {"revert", "clear", "restore"}
        /\ (errors' = 0 \/ Doing' \in Handling) => Whichever(Prev)'
    BY <1>1, <1>2, <1>3, <2>1, CopyFacts, Known DEF Undisturbed, Pointing, ReleaseOK, Built, Handling,
         Rollbacks, AtPrev, AtNew, Quiet, Whichever, Doing, SameJob, SameTurn, Reads, Moves, Turned, Reading
  <2>. QED BY <2>2, <2>3, <2>4, <2>5, <2>6, <2>7 DEF Quiet
<1>. QED BY <1>1, <1>4, <1>5, <1>6, <1>7 DEF SkillInv, Shapes

\* The active copy is set aside for the one the pointer names.
LEMMA RejectActiveKeeps ==
  ASSUME SkillAssumption, SkillInv, RejectActive("sync")
  PROVE  SkillInv'
<1>1. TypeOK /\ Shapes /\ ReleaseOK /\ proc \in [Processes -> States]
  BY DEF SkillInv, Shapes
<1>2. me.step = "read" /\ Reading /\ (Doing # "idle" => New \in Bundles) /\ Turned("reject")
  <2>1. Goto("sync", "reject") /\ me.step = "read"
    BY DEF RejectActive, Become, Goto, At, me
  <2>. QED BY <1>1, <2>1, GotoTurns DEF Doing, Shapes, Steps, Reads, Moves, Installs, Rollbacks
<1>3. BundleIn("active") # pointer /\ Moved("active", "rejected")
      /\ UNCHANGED <<pointer, txn, native, release, anchor, assigned, crashes, errors>> /\ Touch
  BY <1>1, RejectActiveIs
<1>4. TypeOK'
  BY <1>1, <1>2, <1>3, CopyFacts, Known, TouchIs DEF TypeOK, Turned, Reading, Moved, BundleIn
<1>5. Shapes' /\ ReleaseOK'
  BY <1>1, <1>2, <1>3, Actors DEF Shapes, ReleaseOK, Reading, Moving, Doing, SameJob, SameTurn, Still,
       Built, Reads, Moves, Installs, Rollbacks, Turned, Moved, BundleIn
<1>6. ASSUME ~ touched' PROVE Undisturbed'
  <2>1. ~ touched /\ Undisturbed /\ ~ Interferes'
    BY <1>3, <1>6, Undisturbing
  <2>2. Receipted'
    BY <1>1, <1>2, <1>3, <2>1, CopyFacts, Known DEF Undisturbed, Receipted, Names, Missing, Pointing, Whole,
         Doing, Active, ReleaseOK, Built, SameJob, Reads, Moves, Turned, Reading, Moved, BundleIn
  <2>3. Pointing'
    <3>1. Doing # "confirm" /\ Doing = Doing'
      BY <1>1, <1>2, <1>3, <2>1, CopyFacts, Known DEF Undisturbed, Transacting, Pointing, Whole, BundleIn,
           Missing, Doing, AtNew, Active, Reads, Moves, Turned, SameTurn
    <3>. QED BY <1>2, <3>1 DEF Reading, Pointing, Doing, AtPrev, AtNew, Active, Reads, Moves, Turned
  <2>4. Transacting'
    BY <1>1, <1>2, <1>3, <2>1, CopyFacts, Known DEF Undisturbed, Transacting, Pointing, Active, AtNew,
         Whole, Missing, Doing, Under, Names, SameJob, SameTurn, Reads, Moves, Installs, Turned, Reading, Moved,
         BundleIn
  <2>5. Recovering'
    BY <1>2, <2>1, NobodyRecovers DEF Recovering, Turned, Reading, Moved, BundleIn
  <2>. QED BY <2>1, <2>2, <2>3, <2>4, <2>5 DEF Undisturbed
<1>7. ASSUME ~ touched', crashes' = 0, errors' <= 1 PROVE Quiet'
  <2>1. Undisturbed /\ Quiet /\ ~ Interferes'
    BY <1>3, <1>7, Quieting, Undisturbing
  <2>2. Native'
    BY <1>1, <1>2, <1>3, <2>1, CopyFacts, Known DEF Undisturbed, Pointing, AtPrev, AtNew, Quiet, Native, Of,
         Doing, SameJob, SameTurn, Reads, Moves, Turned, Reading, Moved, BundleIn
  <2>3. \A p \in Processes : proc'[p].step \notin {"recovering", "recovered", "clearing"}
    BY <1>2, <2>1, NobodyRecovers DEF Turned, Reading, Moved, BundleIn
  <2>4. Doing' \in Handling => errors' >= 1
    BY <1>1, <1>2, <1>3, <2>1, CopyFacts, Known DEF Undisturbed, Pointing, Active, Whole, Missing, Quiet,
         Doing, Handling, Rollbacks, SameTurn, Reads, Moves, Turned, Reading, Moved, BundleIn
  <2>5. txn' # None => me'.step \in {"manifest", "clear"} \/ Doing' \in Under
    BY <1>1, <1>2, <1>3, <2>1 DEF Quiet, Doing, Under, SameTurn, Reads, Moves, Turned, Reading, Moved,
         BundleIn
  <2>6. errors' = 0 /\ ~ (me'.step = "verify" /\ pointer' = New') => Whichever(pointer)'
    BY <1>1, <1>2, <1>3, <2>1, CopyFacts, Known DEF Undisturbed, Pointing, ReleaseOK, Built, AtPrev, AtNew,
         Quiet, Handling, Rollbacks, Whichever, Doing, SameJob, Reads, Moves, Turned, Reading, Moved, BundleIn
  <2>7. Doing' \in Built \ {"revert", "clear", "restore"}
        /\ (errors' = 0 \/ Doing' \in Handling) => Whichever(Prev)'
    BY <1>1, <1>2, <1>3, <2>1, CopyFacts, Known DEF Undisturbed, Pointing, ReleaseOK, Built, Handling,
         Rollbacks, AtPrev, AtNew, Quiet, Whichever, Doing, SameJob, SameTurn, Reads, Moves, Turned, Reading,
         Moved, BundleIn
  <2>. QED BY <2>2, <2>3, <2>4, <2>5, <2>6, <2>7 DEF Quiet
<1>. QED BY <1>1, <1>4, <1>5, <1>6, <1>7 DEF SkillInv, Shapes

\* ... which takes its place.
LEMMA RestoreRollbackKeeps ==
  ASSUME SkillAssumption, SkillInv, RestoreRollback("sync")
  PROVE  SkillInv'
<1>1. TypeOK /\ Shapes /\ ReleaseOK /\ proc \in [Processes -> States]
  BY DEF SkillInv, Shapes
<1>2. me.step = "reject" /\ Reading /\ (Doing # "idle" => New \in Bundles)
      /\ (IF Missing("rollback") THEN Turned(me.catch) ELSE Turned("read"))
  BY <1>1, GotoTurns DEF RestoreRollback, Throw, At, me, Doing, Shapes, Reading, Steps, Reads, Moves,
       Installs, Rollbacks
<1>3. Restored /\ UNCHANGED <<pointer, txn, native, release, anchor, assigned, crashes, errors>> /\ Touch
  BY <1>1, RestoreRollbackIs
<1>4. TypeOK'
  BY <1>1, <1>2, <1>3, CopyFacts, Known, TouchIs DEF TypeOK, Turned, Reading, Restored, Moved
<1>5. Shapes' /\ ReleaseOK'
  BY <1>1, <1>2, <1>3, Actors DEF Shapes, ReleaseOK, Reading, Moving, Doing, SameJob, SameTurn, Still,
       Built, Reads, Moves, Installs, Rollbacks, Turned, Restored, Moved
<1>6. ASSUME ~ touched' PROVE Undisturbed'
  <2>1. ~ touched /\ Undisturbed /\ ~ Interferes'
    BY <1>3, <1>6, Undisturbing
  <2>2. Receipted'
    BY <1>1, <1>2, <1>3, <2>1, CopyFacts, Known DEF Undisturbed, Receipted, Names, Missing, Pointing, Whole,
         Doing, Active, ReleaseOK, Built, SameJob, Reads, Moves, Turned, Reading, Restored, Moved
  <2>3. Pointing'
    BY <1>1, <1>2, <1>3, <2>1, CopyFacts, Known DEF Undisturbed, Pointing, Whole, Names, Doing, AtPrev,
         AtNew, Active, SameJob, SameTurn, Reads, Moves, Reading, Turned, Restored, Moved
  <2>4. Transacting'
    BY <1>1, <1>2, <1>3, <2>1, CopyFacts, Known DEF Undisturbed, Transacting, Pointing, Active, AtNew,
         Whole, Missing, Doing, Under, Names, SameJob, SameTurn, Reads, Moves, Installs, Turned, Reading,
         Restored, Moved
  <2>5. Recovering'
    BY <1>2, <2>1, NobodyRecovers DEF Recovering, Turned, Reading, Restored, Moved
  <2>. QED BY <2>1, <2>2, <2>3, <2>4, <2>5 DEF Undisturbed
<1>7. ASSUME ~ touched', crashes' = 0, errors' <= 1 PROVE Quiet'
  <2>1. Undisturbed /\ Quiet /\ ~ Interferes'
    BY <1>3, <1>7, Quieting, Undisturbing
  <2>2. Native'
    BY <1>1, <1>2, <1>3, <2>1, CopyFacts, Known DEF Undisturbed, Pointing, AtPrev, AtNew, Quiet, Native, Of,
         Doing, SameJob, SameTurn, Reads, Moves, Turned, Reading, Restored, Moved
  <2>3. \A p \in Processes : proc'[p].step \notin {"recovering", "recovered", "clearing"}
    BY <1>2, <2>1, NobodyRecovers DEF Turned, Reading, Restored, Moved
  <2>4. Doing' \in Handling => errors' >= 1
    BY <1>1, <1>2, <1>3, <2>1, CopyFacts, Known DEF Undisturbed, Pointing, Active, Whole, Missing, Quiet,
         Doing, Handling, Rollbacks, SameTurn, Reads, Moves, Turned, Reading, Restored, Moved
  <2>5. txn' # None => me'.step \in {"manifest", "clear"} \/ Doing' \in Under
    BY <1>1, <1>2, <1>3, <2>1 DEF Quiet, Doing, Under, SameTurn, Reads, Moves, Turned, Reading, Restored,
         Moved
  <2>6. errors' = 0 /\ ~ (me'.step = "verify" /\ pointer' = New') => Whichever(pointer)'
    BY <1>1, <1>2, <1>3, <2>1, CopyFacts, Known DEF Undisturbed, Pointing, ReleaseOK, Built, AtPrev, AtNew,
         Quiet, Handling, Rollbacks, Whichever, Doing, SameJob, Reads, Moves, Turned, Reading, Restored, Moved
  <2>7. Doing' \in Built \ {"revert", "clear", "restore"}
        /\ (errors' = 0 \/ Doing' \in Handling) => Whichever(Prev)'
    BY <1>1, <1>2, <1>3, <2>1, CopyFacts, Known DEF Undisturbed, Pointing, ReleaseOK, Built, Handling,
         Rollbacks, AtPrev, AtNew, Quiet, Whichever, Doing, SameJob, SameTurn, Reads, Moves, Turned, Reading,
         Restored, Moved
  <2>. QED BY <2>2, <2>3, <2>4, <2>5, <2>6, <2>7 DEF Quiet
<1>. QED BY <1>1, <1>4, <1>5, <1>6, <1>7 DEF SkillInv, Shapes

-----------------------------------------------------------------------------
(* Failures: of a call, of HQ, of the process.                             *)

\* The native skills are put back, or the reading is given up.
LEMMA ThrowKeeps ==
  ASSUME SkillAssumption, SkillInv, FailStep, me.step \in {"unload", "recover", "recovering", "recovered",
         "clearing", "read"}
  PROVE  SkillInv'
<1>1. TypeOK /\ Shapes /\ ReleaseOK /\ proc \in [Processes -> States]
  BY DEF SkillInv, Shapes
<1>2. (me.step \in {"unload", "recover", "recovering", "recovered", "clearing", "read"})
      /\ (Doing # "idle" => New \in Bundles) /\ (IF me.step = "unload" THEN Moving ELSE Reading)
      /\ Turned(me.catch)
  <2>1. Goto("sync", me.catch)
    BY DEF FailStep, Throw, Handlers, me
  <2>2. (Doing # "idle" => New \in Bundles) /\ (IF me.step = "unload" THEN Moving ELSE Reading)
    BY <1>1 DEF Shapes, Reads, Moves
  <2>. QED BY <1>1, <2>1, <2>2, GotoTurns DEF Moving, Reading, Steps, Reads, Moves, Installs, Rollbacks
<1>3. UNCHANGED <<pointer, dir, txn, native, release, anchor, assigned, crashes>> /\ errors' = errors + 1
      /\ Touch
  BY DEF FailStep, Keep, world, disk
<1>4. TypeOK'
  BY <1>1, <1>2, <1>3, CopyFacts, Known, TouchIs DEF TypeOK, Turned, Moving, Reading, Handling, Rollbacks,
       Installs
<1>5. Shapes' /\ ReleaseOK'
  BY <1>1, <1>2, <1>3, Actors DEF Shapes, ReleaseOK, Reading, Moving, Doing, SameJob, SameTurn, Still,
       Built, Reads, Moves, Installs, Rollbacks, Turned, Handling
<1>6. ASSUME ~ touched' PROVE Undisturbed'
  <2>1. ~ touched /\ Undisturbed /\ ~ Interferes'
    BY <1>3, <1>6, Undisturbing
  <2>2. Receipted'
    BY <1>1, <1>2, <1>3, <2>1, CopyFacts, Known DEF Undisturbed, Receipted, Names, Missing, Pointing, Whole,
         Doing, Active, ReleaseOK, Built, SameJob, Reads, Moves, Turned, Moving, Reading, Handling, Rollbacks,
         Installs
  <2>3. Pointing'
    BY <1>1, <1>2, <1>3, <2>1, CopyFacts, Known DEF Undisturbed, Pointing, Whole, Names, Doing, AtPrev,
         AtNew, Active, SameJob, SameTurn, Reads, Moves, Reading, Turned, Moving, Handling, Rollbacks, Installs
  <2>4. Transacting'
    BY <1>1, <1>2, <1>3, <2>1, CopyFacts, Known DEF Undisturbed, Transacting, Pointing, Active, AtNew,
         Whole, Missing, Doing, Under, Names, SameJob, SameTurn, Reads, Moves, Installs, Turned, Moving, Reading,
         Handling, Rollbacks
  <2>5. Recovering'
    BY <1>2, <2>1, NobodyRecovers DEF Recovering, Turned, Moving, Reading, Handling, Rollbacks, Installs
  <2>. QED BY <2>1, <2>2, <2>3, <2>4, <2>5 DEF Undisturbed
<1>7. ASSUME ~ touched', crashes' = 0, errors' <= 1 PROVE Quiet'
  <2>1. Undisturbed /\ Quiet /\ ~ Interferes' /\ errors = 0
    <3>1. errors = 0
      BY <1>1, <1>3, <1>7 DEF Shapes
    <3>2. errors <= 1
      BY <3>1
    <3>. QED BY <1>3, <1>7, <3>1, <3>2, Quieting, Undisturbing
  <2>2. Native'
    BY <1>1, <1>2, <1>3, <2>1, CopyFacts, Known DEF Undisturbed, Pointing, AtPrev, AtNew, Quiet, Native, Of,
         Doing, SameJob, SameTurn, Reads, Moves, Turned, Moving, Reading, Handling, Rollbacks, Installs
  <2>3. \A p \in Processes : proc'[p].step \notin {"recovering", "recovered", "clearing"}
    BY <1>2, <2>1, NobodyRecovers DEF Turned, Moving, Reading, Handling, Rollbacks, Installs
  <2>4. Doing' \in Handling => errors' >= 1
    BY <1>1, <1>3 DEF Shapes
  <2>5. txn' # None => me'.step \in {"manifest", "clear"} \/ Doing' \in Under
    BY <1>1, <1>2, <1>3, <2>1 DEF Quiet, Doing, Under, SameTurn, Reads, Moves, Turned, Moving, Reading,
         Handling, Rollbacks, Installs
  <2>6. errors' = 0 /\ ~ (me'.step = "verify" /\ pointer' = New') => Whichever(pointer)'
    BY <1>1, <1>3 DEF Shapes
  <2>7. Doing' \in Built \ {"revert", "clear", "restore"}
        /\ (errors' = 0 \/ Doing' \in Handling) => Whichever(Prev)'
    BY <1>1, <1>2, <1>3, <2>1, CopyFacts, Known DEF Undisturbed, Pointing, ReleaseOK, Built, Handling,
         Rollbacks, AtPrev, AtNew, Quiet, Whichever, Doing, SameJob, SameTurn, Reads, Moves, Turned, Moving,
         Reading, Installs
  <2>. QED BY <2>2, <2>3, <2>4, <2>5, <2>6, <2>7 DEF Quiet
<1>. QED BY <1>1, <1>4, <1>5, <1>6, <1>7 DEF SkillInv, Shapes

\* The anchor cannot be saved: the bundle is rolled back.
LEMMA UnanchoredKeeps ==
  ASSUME SkillAssumption, SkillInv, FailStep, me.step = "anchor"
  PROVE  SkillInv'
<1>1. TypeOK /\ Shapes /\ ReleaseOK /\ proc \in [Processes -> States]
  BY DEF SkillInv, Shapes
<1>2. me.step = "anchor" /\ New \in Bundles /\ proc' \in [Processes -> States] /\ SameJob /\ Still
      /\ me'.step = "recover" /\ me'.then = "confirm" /\ me'.catch = "restore"
  <2>1. ReadPointer("sync", me, "confirm", "restore")
    BY DEF FailStep, Rollback, Handlers, me
  <2>. QED BY <1>1, <2>1, ReadsAgain DEF Shapes, Doing, Reads, Moves
<1>3. UNCHANGED <<pointer, dir, txn, native, release, anchor, assigned, crashes>> /\ errors' = errors + 1
      /\ Touch
  BY DEF FailStep, Keep, world, disk
<1>4. TypeOK'
  BY <1>1, <1>2, <1>3, CopyFacts, Known, TouchIs DEF TypeOK, Handling, Rollbacks, Installs
<1>5. Shapes' /\ ReleaseOK'
  BY <1>1, <1>2, <1>3, Actors DEF Shapes, ReleaseOK, Reading, Moving, Doing, SameJob, SameTurn, Still,
       Built, Reads, Moves, Installs, Rollbacks, Handling
<1>6. ASSUME ~ touched' PROVE Undisturbed'
  <2>1. ~ touched /\ Undisturbed /\ ~ Interferes'
    BY <1>3, <1>6, Undisturbing
  <2>2. Receipted'
    BY <1>1, <1>2, <1>3, <2>1, CopyFacts, Known DEF Undisturbed, Receipted, Names, Missing, Pointing, Whole,
         Doing, Active, ReleaseOK, Built, SameJob, Reads, Moves, Handling, Rollbacks, Installs
  <2>3. Pointing'
    BY <1>1, <1>2, <1>3, <2>1, CopyFacts, Known DEF Undisturbed, Pointing, Whole, Names, Doing, AtPrev,
         AtNew, Active, SameJob, SameTurn, Reads, Moves, Reading, Handling, Rollbacks, Installs
  <2>4. Transacting'
    BY <1>1, <1>2, <1>3, <2>1, CopyFacts, Known DEF Undisturbed, Transacting, Pointing, Active, AtNew,
         Whole, Missing, Doing, Under, Names, SameJob, SameTurn, Reads, Moves, Installs, Handling, Rollbacks
  <2>5. Recovering'
    BY <1>2, <2>1, NobodyRecovers DEF Recovering, Handling, Rollbacks, Installs
  <2>. QED BY <2>1, <2>2, <2>3, <2>4, <2>5 DEF Undisturbed
<1>7. ASSUME ~ touched', crashes' = 0, errors' <= 1 PROVE Quiet'
  <2>1. Undisturbed /\ Quiet /\ ~ Interferes' /\ errors = 0
    <3>1. errors = 0
      BY <1>1, <1>3, <1>7 DEF Shapes
    <3>2. errors <= 1
      BY <3>1
    <3>. QED BY <1>3, <1>7, <3>1, <3>2, Quieting, Undisturbing
  <2>2. Native'
    BY <1>1, <1>2, <1>3, <2>1, CopyFacts, Known DEF Undisturbed, Pointing, AtPrev, AtNew, Quiet, Native, Of,
         Doing, SameJob, SameTurn, Reads, Moves, Handling, Rollbacks, Installs
  <2>3. \A p \in Processes : proc'[p].step \notin {"recovering", "recovered", "clearing"}
    BY <1>2, <2>1, NobodyRecovers DEF Handling, Rollbacks, Installs
  <2>4. Doing' \in Handling => errors' >= 1
    BY <1>1, <1>3 DEF Shapes
  <2>5. txn' # None => me'.step \in {"manifest", "clear"} \/ Doing' \in Under
    BY <1>1, <1>2, <1>3, <2>1 DEF Quiet, Doing, Under, SameTurn, Reads, Moves, Handling, Rollbacks, Installs
  <2>6. errors' = 0 /\ ~ (me'.step = "verify" /\ pointer' = New') => Whichever(pointer)'
    BY <1>1, <1>3 DEF Shapes
  <2>7. Doing' \in Built \ {"revert", "clear", "restore"}
        /\ (errors' = 0 \/ Doing' \in Handling) => Whichever(Prev)'
    BY <1>1, <1>2, <1>3, <2>1, CopyFacts, Known DEF Undisturbed, Pointing, ReleaseOK, Built, Handling,
         Rollbacks, AtPrev, AtNew, Quiet, Whichever, Doing, SameJob, SameTurn, Reads, Moves, Installs
  <2>. QED BY <2>2, <2>3, <2>4, <2>5, <2>6, <2>7 DEF Quiet
<1>. QED BY <1>1, <1>4, <1>5, <1>6, <1>7 DEF SkillInv, Shapes

\* The receipt cannot be written, or the pointer.
LEMMA UnwrittenKeeps ==
  ASSUME SkillAssumption, SkillInv, FailStep, me.step \in {"receipt", "publish", "point"}
  PROVE  SkillInv'
<1>1. TypeOK /\ Shapes /\ ReleaseOK /\ proc \in [Processes -> States]
  BY DEF SkillInv, Shapes
<1>2. (me.step \in {"receipt", "publish", "point"}) /\ New \in Bundles /\ Turned("undo")
  <2>1. Become("sync", [proc["sync"] EXCEPT !.step = "undo", !.write = TRUE])
    BY DEF FailStep, Handlers, me
  <2>. QED BY <1>1, <2>1, KeepsFailure DEF Shapes, Doing, Reads, Moves
<1>3. UNCHANGED <<pointer, dir, txn, native, release, anchor, assigned, crashes>> /\ errors' = errors + 1
      /\ Touch
  BY DEF FailStep, Keep, world, disk
<1>4. TypeOK'
  BY <1>1, <1>2, <1>3, CopyFacts, Known, TouchIs DEF TypeOK, Turned, Handling, Rollbacks, Installs
<1>5. Shapes' /\ ReleaseOK'
  BY <1>1, <1>2, <1>3, Actors DEF Shapes, ReleaseOK, Reading, Moving, Doing, SameJob, SameTurn, Still,
       Built, Reads, Moves, Installs, Rollbacks, Turned, Handling
<1>6. ASSUME ~ touched' PROVE Undisturbed'
  <2>1. ~ touched /\ Undisturbed /\ ~ Interferes'
    BY <1>3, <1>6, Undisturbing
  <2>2. Receipted'
    BY <1>1, <1>2, <1>3, <2>1, CopyFacts, Known DEF Undisturbed, Receipted, Names, Missing, Pointing, Whole,
         Doing, Active, ReleaseOK, Built, SameJob, Reads, Moves, Turned, Handling, Rollbacks, Installs
  <2>3. Pointing'
    BY <1>1, <1>2, <1>3, <2>1, CopyFacts, Known DEF Undisturbed, Pointing, Whole, Names, Doing, AtPrev,
         AtNew, Active, SameJob, SameTurn, Reads, Moves, Reading, Turned, Handling, Rollbacks, Installs
  <2>4. Transacting'
    BY <1>1, <1>2, <1>3, <2>1, CopyFacts, Known DEF Undisturbed, Transacting, Pointing, Active, AtNew,
         Whole, Missing, Doing, Under, Names, SameJob, SameTurn, Reads, Moves, Installs, Turned, Handling,
         Rollbacks
  <2>5. Recovering'
    BY <1>2, <2>1, NobodyRecovers DEF Recovering, Turned, Handling, Rollbacks, Installs
  <2>. QED BY <2>1, <2>2, <2>3, <2>4, <2>5 DEF Undisturbed
<1>7. ASSUME ~ touched', crashes' = 0, errors' <= 1 PROVE Quiet'
  <2>1. Undisturbed /\ Quiet /\ ~ Interferes' /\ errors = 0
    <3>1. errors = 0
      BY <1>1, <1>3, <1>7 DEF Shapes
    <3>2. errors <= 1
      BY <3>1
    <3>. QED BY <1>3, <1>7, <3>1, <3>2, Quieting, Undisturbing
  <2>2. Native'
    BY <1>1, <1>2, <1>3, <2>1, CopyFacts, Known DEF Undisturbed, Pointing, AtPrev, AtNew, Quiet, Native, Of,
         Doing, SameJob, SameTurn, Reads, Moves, Turned, Handling, Rollbacks, Installs
  <2>3. \A p \in Processes : proc'[p].step \notin {"recovering", "recovered", "clearing"}
    BY <1>2, <2>1, NobodyRecovers DEF Turned, Handling, Rollbacks, Installs
  <2>4. Doing' \in Handling => errors' >= 1
    BY <1>1, <1>3 DEF Shapes
  <2>5. txn' # None => me'.step \in {"manifest", "clear"} \/ Doing' \in Under
    BY <1>1, <1>2, <1>3, <2>1 DEF Quiet, Doing, Under, SameTurn, Reads, Moves, Turned, Handling, Rollbacks,
         Installs
  <2>6. errors' = 0 /\ ~ (me'.step = "verify" /\ pointer' = New') => Whichever(pointer)'
    BY <1>1, <1>3 DEF Shapes
  <2>7. Doing' \in Built \ {"revert", "clear", "restore"}
        /\ (errors' = 0 \/ Doing' \in Handling) => Whichever(Prev)'
    BY <1>1, <1>2, <1>3, <2>1, CopyFacts, Known DEF Undisturbed, Pointing, ReleaseOK, Built, Handling,
         Rollbacks, AtPrev, AtNew, Quiet, Whichever, Doing, SameJob, SameTurn, Reads, Moves, Turned, Installs
  <2>. QED BY <2>2, <2>3, <2>4, <2>5, <2>6, <2>7 DEF Quiet
<1>. QED BY <1>1, <1>4, <1>5, <1>6, <1>7 DEF SkillInv, Shapes

\* The undoing itself fails.
LEMMA UndoFailsKeeps ==
  ASSUME SkillAssumption, SkillInv, FailStep, me.step = "undo"
  PROVE  SkillInv'
<1>1. TypeOK /\ Shapes /\ ReleaseOK /\ proc \in [Processes -> States]
  BY DEF SkillInv, Shapes
<1>2. me.step = "undo" /\ New \in Bundles /\ (Turned("repoint") \/ Turned("idle"))
  <2>1. Goto("sync", "repoint") \/ Goto("sync", "idle")
    BY DEF FailStep, Handlers, me
  <2>. QED BY <1>1, <2>1, GotoTurns DEF Shapes, Doing, Steps, Reads, Moves, Installs, Rollbacks
<1>3. UNCHANGED <<pointer, dir, txn, native, release, anchor, assigned, crashes>> /\ errors' = errors + 1
      /\ Touch
  BY DEF FailStep, Keep, world, disk
<1>4. TypeOK'
  BY <1>1, <1>2, <1>3, CopyFacts, Known, TouchIs DEF TypeOK, Turned, Handling, Rollbacks, Installs
<1>5. Shapes' /\ ReleaseOK'
  BY <1>1, <1>2, <1>3, Actors DEF Shapes, ReleaseOK, Reading, Moving, Doing, SameJob, SameTurn, Still,
       Built, Reads, Moves, Installs, Rollbacks, Turned, Handling
<1>6. ASSUME ~ touched' PROVE Undisturbed'
  <2>1. ~ touched /\ Undisturbed /\ ~ Interferes'
    BY <1>3, <1>6, Undisturbing
  <2>2. Receipted'
    BY <1>1, <1>2, <1>3, <2>1, CopyFacts, Known DEF Undisturbed, Receipted, Names, Missing, Pointing, Whole,
         Doing, Active, ReleaseOK, Built, SameJob, Reads, Moves, Turned, Handling, Rollbacks, Installs
  <2>3. Pointing'
    BY <1>1, <1>2, <1>3, <2>1, CopyFacts, Known DEF Undisturbed, Pointing, Whole, Names, Doing, AtPrev,
         AtNew, Active, SameJob, SameTurn, Reads, Moves, Reading, Turned, Handling, Rollbacks, Installs
  <2>4. Transacting'
    BY <1>1, <1>2, <1>3, <2>1, CopyFacts, Known DEF Undisturbed, Transacting, Pointing, Active, AtNew,
         Whole, Missing, Doing, Under, Names, SameJob, SameTurn, Reads, Moves, Installs, Turned, Handling,
         Rollbacks
  <2>5. Recovering'
    BY <1>2, <2>1, NobodyRecovers DEF Recovering, Turned, Handling, Rollbacks, Installs
  <2>. QED BY <2>1, <2>2, <2>3, <2>4, <2>5 DEF Undisturbed
<1>7. ASSUME ~ touched', crashes' = 0, errors' <= 1 PROVE Quiet'
  <2>1. Undisturbed /\ Quiet /\ ~ Interferes' /\ errors = 0
    <3>1. errors = 0
      BY <1>1, <1>3, <1>7 DEF Shapes
    <3>2. errors <= 1
      BY <3>1
    <3>. QED BY <1>3, <1>7, <3>1, <3>2, Quieting, Undisturbing
  <2>2. Native'
    BY <1>1, <1>2, <1>3, <2>1, CopyFacts, Known DEF Undisturbed, Pointing, AtPrev, AtNew, Quiet, Native, Of,
         Doing, SameJob, SameTurn, Reads, Moves, Turned, Handling, Rollbacks, Installs
  <2>3. \A p \in Processes : proc'[p].step \notin {"recovering", "recovered", "clearing"}
    BY <1>2, <2>1, NobodyRecovers DEF Turned, Handling, Rollbacks, Installs
  <2>4. Doing' \in Handling => errors' >= 1
    BY <1>1, <1>3 DEF Shapes
  <2>5. txn' # None => me'.step \in {"manifest", "clear"} \/ Doing' \in Under
    BY <1>1, <1>2, <1>3, <2>1 DEF Quiet, Doing, Under, SameTurn, Reads, Moves, Turned, Handling, Rollbacks,
         Installs
  <2>6. errors' = 0 /\ ~ (me'.step = "verify" /\ pointer' = New') => Whichever(pointer)'
    BY <1>1, <1>3 DEF Shapes
  <2>7. Doing' \in Built \ {"revert", "clear", "restore"}
        /\ (errors' = 0 \/ Doing' \in Handling) => Whichever(Prev)'
    BY <1>1, <1>2, <1>3, <2>1, CopyFacts, Known DEF Undisturbed, Pointing, ReleaseOK, Built, Handling,
         Rollbacks, AtPrev, AtNew, Quiet, Whichever, Doing, SameJob, SameTurn, Reads, Moves, Turned, Installs
  <2>. QED BY <2>2, <2>3, <2>4, <2>5, <2>6, <2>7 DEF Quiet
<1>. QED BY <1>1, <1>4, <1>5, <1>6, <1>7 DEF SkillInv, Shapes

\* An installation ends where it was.
LEMMA GiveUpKeeps ==
  ASSUME SkillAssumption, SkillInv, FailStep, me.step \in {"build", "verify", "aside", "copy", "copied",
         "revert", "repoint", "post", "restore"}
  PROVE  SkillInv'
<1>1. TypeOK /\ Shapes /\ ReleaseOK /\ proc \in [Processes -> States]
  BY DEF SkillInv, Shapes
<1>2. (me.step \in {"build", "verify", "aside", "copy", "copied", "revert", "repoint", "post", "restore"})
      /\ New \in Bundles /\ Turned("idle")
  <2>1. Goto("sync", "idle")
    BY DEF FailStep, Handlers, me
  <2>. QED BY <1>1, <2>1, GotoTurns DEF Shapes, Doing, Steps, Reads, Moves, Installs, Rollbacks
<1>3. UNCHANGED <<pointer, dir, txn, native, release, anchor, assigned, crashes>> /\ errors' = errors + 1
      /\ Touch
  BY DEF FailStep, Keep, world, disk
<1>4. TypeOK'
  BY <1>1, <1>2, <1>3, CopyFacts, Known, TouchIs DEF TypeOK, Turned, Handling, Rollbacks, Installs
<1>5. Shapes' /\ ReleaseOK'
  BY <1>1, <1>2, <1>3, Actors DEF Shapes, ReleaseOK, Reading, Moving, Doing, SameJob, SameTurn, Still,
       Built, Reads, Moves, Installs, Rollbacks, Turned, Handling
<1>6. ASSUME ~ touched' PROVE Undisturbed'
  <2>1. ~ touched /\ Undisturbed /\ ~ Interferes'
    BY <1>3, <1>6, Undisturbing
  <2>2. Receipted'
    BY <1>1, <1>2, <1>3, <2>1, CopyFacts, Known DEF Undisturbed, Receipted, Names, Missing, Pointing, Whole,
         Doing, Active, ReleaseOK, Built, SameJob, Reads, Moves, Turned, Handling, Rollbacks, Installs
  <2>3. Pointing'
    BY <1>1, <1>2, <1>3, <2>1, CopyFacts, Known DEF Undisturbed, Pointing, Whole, Names, Doing, AtPrev,
         AtNew, Active, SameJob, SameTurn, Reads, Moves, Reading, Turned, Handling, Rollbacks, Installs
  <2>4. Transacting'
    BY <1>1, <1>2, <1>3, <2>1, CopyFacts, Known DEF Undisturbed, Transacting, Pointing, Active, AtNew,
         Whole, Missing, Doing, Under, Names, SameJob, SameTurn, Reads, Moves, Installs, Turned, Handling,
         Rollbacks
  <2>5. Recovering'
    BY <1>2, <2>1, NobodyRecovers DEF Recovering, Turned, Handling, Rollbacks, Installs
  <2>. QED BY <2>1, <2>2, <2>3, <2>4, <2>5 DEF Undisturbed
<1>7. ASSUME ~ touched', crashes' = 0, errors' <= 1 PROVE Quiet'
  <2>1. Undisturbed /\ Quiet /\ ~ Interferes' /\ errors = 0
    <3>1. errors = 0
      BY <1>1, <1>3, <1>7 DEF Shapes
    <3>2. errors <= 1
      BY <3>1
    <3>. QED BY <1>3, <1>7, <3>1, <3>2, Quieting, Undisturbing
  <2>2. Native'
    BY <1>1, <1>2, <1>3, <2>1, CopyFacts, Known DEF Undisturbed, Pointing, AtPrev, AtNew, Quiet, Native, Of,
         Doing, SameJob, SameTurn, Reads, Moves, Turned, Handling, Rollbacks, Installs
  <2>3. \A p \in Processes : proc'[p].step \notin {"recovering", "recovered", "clearing"}
    BY <1>2, <2>1, NobodyRecovers DEF Turned, Handling, Rollbacks, Installs
  <2>4. Doing' \in Handling => errors' >= 1
    BY <1>1, <1>3 DEF Shapes
  <2>5. txn' # None => me'.step \in {"manifest", "clear"} \/ Doing' \in Under
    BY <1>1, <1>2, <1>3, <2>1 DEF Quiet, Doing, Under, SameTurn, Reads, Moves, Turned, Handling, Rollbacks,
         Installs
  <2>6. errors' = 0 /\ ~ (me'.step = "verify" /\ pointer' = New') => Whichever(pointer)'
    BY <1>1, <1>3 DEF Shapes
  <2>7. Doing' \in Built \ {"revert", "clear", "restore"}
        /\ (errors' = 0 \/ Doing' \in Handling) => Whichever(Prev)'
    BY <1>1, <1>2, <1>3, <2>1, CopyFacts, Known DEF Undisturbed, Pointing, ReleaseOK, Built, Handling,
         Rollbacks, AtPrev, AtNew, Quiet, Whichever, Doing, SameJob, SameTurn, Reads, Moves, Turned, Installs
  <2>. QED BY <2>2, <2>3, <2>4, <2>5, <2>6, <2>7 DEF Quiet
<1>. QED BY <1>1, <1>4, <1>5, <1>6, <1>7 DEF SkillInv, Shapes

\* The installation turns out to be wrong.
LEMMA CheckFailsKeeps ==
  ASSUME SkillAssumption, SkillInv, FailStep, me.step \in {"check"}
  PROVE  SkillInv'
<1>1. TypeOK /\ Shapes /\ ReleaseOK /\ proc \in [Processes -> States]
  BY DEF SkillInv, Shapes
<1>2. (me.step \in {"check"}) /\ New \in Bundles /\ Turned("undo")
  <2>1. Goto("sync", "undo")
    BY DEF FailStep, Handlers, me
  <2>. QED BY <1>1, <2>1, GotoTurns DEF Shapes, Doing, Steps, Reads, Moves, Installs, Rollbacks
<1>3. UNCHANGED <<pointer, dir, txn, native, release, anchor, assigned, crashes>> /\ errors' = errors + 1
      /\ Touch
  BY DEF FailStep, Keep, world, disk
<1>4. TypeOK'
  BY <1>1, <1>2, <1>3, CopyFacts, Known, TouchIs DEF TypeOK, Turned, Handling, Rollbacks, Installs
<1>5. Shapes' /\ ReleaseOK'
  BY <1>1, <1>2, <1>3, Actors DEF Shapes, ReleaseOK, Reading, Moving, Doing, SameJob, SameTurn, Still,
       Built, Reads, Moves, Installs, Rollbacks, Turned, Handling
<1>6. ASSUME ~ touched' PROVE Undisturbed'
  <2>1. ~ touched /\ Undisturbed /\ ~ Interferes'
    BY <1>3, <1>6, Undisturbing
  <2>2. Receipted'
    BY <1>1, <1>2, <1>3, <2>1, CopyFacts, Known DEF Undisturbed, Receipted, Names, Missing, Pointing, Whole,
         Doing, Active, ReleaseOK, Built, SameJob, Reads, Moves, Turned, Handling, Rollbacks, Installs
  <2>3. Pointing'
    BY <1>1, <1>2, <1>3, <2>1, CopyFacts, Known DEF Undisturbed, Pointing, Whole, Names, Doing, AtPrev,
         AtNew, Active, SameJob, SameTurn, Reads, Moves, Reading, Turned, Handling, Rollbacks, Installs
  <2>4. Transacting'
    BY <1>1, <1>2, <1>3, <2>1, CopyFacts, Known DEF Undisturbed, Transacting, Pointing, Active, AtNew,
         Whole, Missing, Doing, Under, Names, SameJob, SameTurn, Reads, Moves, Installs, Turned, Handling,
         Rollbacks
  <2>5. Recovering'
    BY <1>2, <2>1, NobodyRecovers DEF Recovering, Turned, Handling, Rollbacks, Installs
  <2>. QED BY <2>1, <2>2, <2>3, <2>4, <2>5 DEF Undisturbed
<1>7. ASSUME ~ touched', crashes' = 0, errors' <= 1 PROVE Quiet'
  <2>1. Undisturbed /\ Quiet /\ ~ Interferes' /\ errors = 0
    <3>1. errors = 0
      BY <1>1, <1>3, <1>7 DEF Shapes
    <3>2. errors <= 1
      BY <3>1
    <3>. QED BY <1>3, <1>7, <3>1, <3>2, Quieting, Undisturbing
  <2>2. Native'
    BY <1>1, <1>2, <1>3, <2>1, CopyFacts, Known DEF Undisturbed, Pointing, AtPrev, AtNew, Quiet, Native, Of,
         Doing, SameJob, SameTurn, Reads, Moves, Turned, Handling, Rollbacks, Installs
  <2>3. \A p \in Processes : proc'[p].step \notin {"recovering", "recovered", "clearing"}
    BY <1>2, <2>1, NobodyRecovers DEF Turned, Handling, Rollbacks, Installs
  <2>4. Doing' \in Handling => errors' >= 1
    BY <1>1, <1>3 DEF Shapes
  <2>5. txn' # None => me'.step \in {"manifest", "clear"} \/ Doing' \in Under
    BY <1>1, <1>2, <1>3, <2>1 DEF Quiet, Doing, Under, SameTurn, Reads, Moves, Turned, Handling, Rollbacks,
         Installs
  <2>6. errors' = 0 /\ ~ (me'.step = "verify" /\ pointer' = New') => Whichever(pointer)'
    BY <1>1, <1>3 DEF Shapes
  <2>7. Doing' \in Built \ {"revert", "clear", "restore"}
        /\ (errors' = 0 \/ Doing' \in Handling) => Whichever(Prev)'
    BY <1>1, <1>2, <1>3, <2>1, CopyFacts, Known DEF Undisturbed, Pointing, ReleaseOK, Built, Handling,
         Rollbacks, AtPrev, AtNew, Quiet, Whichever, Doing, SameJob, SameTurn, Reads, Moves, Turned, Installs
  <2>. QED BY <2>2, <2>3, <2>4, <2>5, <2>6, <2>7 DEF Quiet
<1>. QED BY <1>1, <1>4, <1>5, <1>6, <1>7 DEF SkillInv, Shapes

\* The rollback ends where it was.
LEMMA UnrolledKeeps ==
  ASSUME SkillAssumption, SkillInv, FailStep, me.step \in {"begin", "manifest", "stage", "clear"}
  PROVE  SkillInv'
<1>1. TypeOK /\ Shapes /\ ReleaseOK /\ proc \in [Processes -> States]
  BY DEF SkillInv, Shapes
<1>2. (me.step \in {"begin", "manifest", "stage", "clear"}) /\ New \in Bundles /\ Turned("restore")
  <2>1. Goto("sync", "restore")
    BY DEF FailStep, Handlers, me
  <2>. QED BY <1>1, <2>1, GotoTurns DEF Shapes, Doing, Steps, Reads, Moves, Installs, Rollbacks
<1>3. UNCHANGED <<pointer, dir, txn, native, release, anchor, assigned, crashes>> /\ errors' = errors + 1
      /\ Touch
  BY DEF FailStep, Keep, world, disk
<1>4. TypeOK'
  BY <1>1, <1>2, <1>3, CopyFacts, Known, TouchIs DEF TypeOK, Turned, Handling, Rollbacks, Installs
<1>5. Shapes' /\ ReleaseOK'
  BY <1>1, <1>2, <1>3, Actors DEF Shapes, ReleaseOK, Reading, Moving, Doing, SameJob, SameTurn, Still,
       Built, Reads, Moves, Installs, Rollbacks, Turned, Handling
<1>6. ASSUME ~ touched' PROVE Undisturbed'
  <2>1. ~ touched /\ Undisturbed /\ ~ Interferes'
    BY <1>3, <1>6, Undisturbing
  <2>2. Receipted'
    BY <1>1, <1>2, <1>3, <2>1, CopyFacts, Known DEF Undisturbed, Receipted, Names, Missing, Pointing, Whole,
         Doing, Active, ReleaseOK, Built, SameJob, Reads, Moves, Turned, Handling, Rollbacks, Installs
  <2>3. Pointing'
    BY <1>1, <1>2, <1>3, <2>1, CopyFacts, Known DEF Undisturbed, Pointing, Whole, Names, Doing, AtPrev,
         AtNew, Active, SameJob, SameTurn, Reads, Moves, Reading, Turned, Handling, Rollbacks, Installs
  <2>4. Transacting'
    BY <1>1, <1>2, <1>3, <2>1, CopyFacts, Known DEF Undisturbed, Transacting, Pointing, Active, AtNew,
         Whole, Missing, Doing, Under, Names, SameJob, SameTurn, Reads, Moves, Installs, Turned, Handling,
         Rollbacks
  <2>5. Recovering'
    BY <1>2, <2>1, NobodyRecovers DEF Recovering, Turned, Handling, Rollbacks, Installs
  <2>. QED BY <2>1, <2>2, <2>3, <2>4, <2>5 DEF Undisturbed
<1>7. ASSUME ~ touched', crashes' = 0, errors' <= 1 PROVE Quiet'
  <2>1. Undisturbed /\ Quiet /\ ~ Interferes' /\ errors = 0
    <3>1. errors = 0
      BY <1>1, <1>3, <1>7 DEF Shapes
    <3>2. errors <= 1
      BY <3>1
    <3>. QED BY <1>3, <1>7, <3>1, <3>2, Quieting, Undisturbing
  <2>2. Native'
    BY <1>1, <1>2, <1>3, <2>1, CopyFacts, Known DEF Undisturbed, Pointing, AtPrev, AtNew, Quiet, Native, Of,
         Doing, SameJob, SameTurn, Reads, Moves, Turned, Handling, Rollbacks, Installs
  <2>3. \A p \in Processes : proc'[p].step \notin {"recovering", "recovered", "clearing"}
    BY <1>2, <2>1, NobodyRecovers DEF Turned, Handling, Rollbacks, Installs
  <2>4. Doing' \in Handling => errors' >= 1
    BY <1>1, <1>3 DEF Shapes
  <2>5. txn' # None => me'.step \in {"manifest", "clear"} \/ Doing' \in Under
    BY <1>1, <1>2, <1>3, <2>1 DEF Quiet, Doing, Under, SameTurn, Reads, Moves, Turned, Handling, Rollbacks,
         Installs
  <2>6. errors' = 0 /\ ~ (me'.step = "verify" /\ pointer' = New') => Whichever(pointer)'
    BY <1>1, <1>3 DEF Shapes
  <2>7. Doing' \in Built \ {"revert", "clear", "restore"}
        /\ (errors' = 0 \/ Doing' \in Handling) => Whichever(Prev)'
    BY <1>1, <1>2, <1>3, <2>1, CopyFacts, Known DEF Undisturbed, Pointing, ReleaseOK, Built, Handling,
         Rollbacks, AtPrev, AtNew, Quiet, Whichever, Doing, SameJob, SameTurn, Reads, Moves, Turned, Installs
  <2>. QED BY <2>2, <2>3, <2>4, <2>5, <2>6, <2>7 DEF Quiet
<1>. QED BY <1>1, <1>4, <1>5, <1>6, <1>7 DEF SkillInv, Shapes

\* The exchange of the directories is mended.
LEMMA SwapFailsKeeps ==
  ASSUME SkillAssumption, SkillInv, FailStep, me.step \in {"shelve", "swap", "switch"}
  PROVE  SkillInv'
<1>1. TypeOK /\ Shapes /\ ReleaseOK /\ proc \in [Processes -> States]
  BY DEF SkillInv, Shapes
<1>2. (me.step \in {"shelve", "swap", "switch"}) /\ New \in Bundles /\ Turned("mend")
  <2>1. Goto("sync", "mend")
    BY DEF FailStep, Handlers, me
  <2>. QED BY <1>1, <2>1, GotoTurns DEF Shapes, Doing, Steps, Reads, Moves, Installs, Rollbacks
<1>3. UNCHANGED <<pointer, dir, txn, native, release, anchor, assigned, crashes>> /\ errors' = errors + 1
      /\ Touch
  BY DEF FailStep, Keep, world, disk
<1>4. TypeOK'
  BY <1>1, <1>2, <1>3, CopyFacts, Known, TouchIs DEF TypeOK, Turned, Handling, Rollbacks, Installs
<1>5. Shapes' /\ ReleaseOK'
  BY <1>1, <1>2, <1>3, Actors DEF Shapes, ReleaseOK, Reading, Moving, Doing, SameJob, SameTurn, Still,
       Built, Reads, Moves, Installs, Rollbacks, Turned, Handling
<1>6. ASSUME ~ touched' PROVE Undisturbed'
  <2>1. ~ touched /\ Undisturbed /\ ~ Interferes'
    BY <1>3, <1>6, Undisturbing
  <2>2. Receipted'
    BY <1>1, <1>2, <1>3, <2>1, CopyFacts, Known DEF Undisturbed, Receipted, Names, Missing, Pointing, Whole,
         Doing, Active, ReleaseOK, Built, SameJob, Reads, Moves, Turned, Handling, Rollbacks, Installs
  <2>3. Pointing'
    BY <1>1, <1>2, <1>3, <2>1, CopyFacts, Known DEF Undisturbed, Pointing, Whole, Names, Doing, AtPrev,
         AtNew, Active, SameJob, SameTurn, Reads, Moves, Reading, Turned, Handling, Rollbacks, Installs
  <2>4. Transacting'
    BY <1>1, <1>2, <1>3, <2>1, CopyFacts, Known DEF Undisturbed, Transacting, Pointing, Active, AtNew,
         Whole, Missing, Doing, Under, Names, SameJob, SameTurn, Reads, Moves, Installs, Turned, Handling,
         Rollbacks
  <2>5. Recovering'
    BY <1>2, <2>1, NobodyRecovers DEF Recovering, Turned, Handling, Rollbacks, Installs
  <2>. QED BY <2>1, <2>2, <2>3, <2>4, <2>5 DEF Undisturbed
<1>7. ASSUME ~ touched', crashes' = 0, errors' <= 1 PROVE Quiet'
  <2>1. Undisturbed /\ Quiet /\ ~ Interferes' /\ errors = 0
    <3>1. errors = 0
      BY <1>1, <1>3, <1>7 DEF Shapes
    <3>2. errors <= 1
      BY <3>1
    <3>. QED BY <1>3, <1>7, <3>1, <3>2, Quieting, Undisturbing
  <2>2. Native'
    BY <1>1, <1>2, <1>3, <2>1, CopyFacts, Known DEF Undisturbed, Pointing, AtPrev, AtNew, Quiet, Native, Of,
         Doing, SameJob, SameTurn, Reads, Moves, Turned, Handling, Rollbacks, Installs
  <2>3. \A p \in Processes : proc'[p].step \notin {"recovering", "recovered", "clearing"}
    BY <1>2, <2>1, NobodyRecovers DEF Turned, Handling, Rollbacks, Installs
  <2>4. Doing' \in Handling => errors' >= 1
    BY <1>1, <1>3 DEF Shapes
  <2>5. txn' # None => me'.step \in {"manifest", "clear"} \/ Doing' \in Under
    BY <1>1, <1>2, <1>3, <2>1 DEF Quiet, Doing, Under, SameTurn, Reads, Moves, Turned, Handling, Rollbacks,
         Installs
  <2>6. errors' = 0 /\ ~ (me'.step = "verify" /\ pointer' = New') => Whichever(pointer)'
    BY <1>1, <1>3 DEF Shapes
  <2>7. Doing' \in Built \ {"revert", "clear", "restore"}
        /\ (errors' = 0 \/ Doing' \in Handling) => Whichever(Prev)'
    BY <1>1, <1>2, <1>3, <2>1, CopyFacts, Known DEF Undisturbed, Pointing, ReleaseOK, Built, Handling,
         Rollbacks, AtPrev, AtNew, Quiet, Whichever, Doing, SameJob, SameTurn, Reads, Moves, Turned, Installs
  <2>. QED BY <2>2, <2>3, <2>4, <2>5, <2>6, <2>7 DEF Quiet
<1>. QED BY <1>1, <1>4, <1>5, <1>6, <1>7 DEF SkillInv, Shapes

\* HQ refuses the receipt.
LEMMA RefuseKeeps ==
  ASSUME SkillAssumption, SkillInv, Refuse
  PROVE  SkillInv'
<1>1. TypeOK /\ Shapes /\ ReleaseOK /\ proc \in [Processes -> States]
  BY DEF SkillInv, Shapes
<1>2. me.step = "post" /\ New \in Bundles /\ proc' \in [Processes -> States] /\ SameJob /\ Still
      /\ me'.step = "recover" /\ me'.then = "confirm" /\ me'.catch = "restore"
  <2>1. ReadPointer("sync", me, "confirm", "restore") /\ me.step = "post"
    BY DEF Refuse, Rollback, At, me
  <2>. QED BY <1>1, <2>1, ReadsAgain DEF Shapes, Doing, Reads, Moves
<1>3. UNCHANGED <<pointer, dir, txn, native, release, anchor, assigned, crashes>> /\ errors' = errors + 1
      /\ Touch
  BY DEF Refuse, Keep, world, disk
<1>4. TypeOK'
  BY <1>1, <1>2, <1>3, CopyFacts, Known, TouchIs DEF TypeOK, Handling, Rollbacks, Installs
<1>5. Shapes' /\ ReleaseOK'
  BY <1>1, <1>2, <1>3, Actors DEF Shapes, ReleaseOK, Reading, Moving, Doing, SameJob, SameTurn, Still,
       Built, Reads, Moves, Installs, Rollbacks, Handling
<1>6. ASSUME ~ touched' PROVE Undisturbed'
  <2>1. ~ touched /\ Undisturbed /\ ~ Interferes'
    BY <1>3, <1>6, Undisturbing
  <2>2. Receipted'
    BY <1>1, <1>2, <1>3, <2>1, CopyFacts, Known DEF Undisturbed, Receipted, Names, Missing, Pointing, Whole,
         Doing, Active, ReleaseOK, Built, SameJob, Reads, Moves, Handling, Rollbacks, Installs
  <2>3. Pointing'
    BY <1>1, <1>2, <1>3, <2>1, CopyFacts, Known DEF Undisturbed, Pointing, Whole, Names, Doing, AtPrev,
         AtNew, Active, SameJob, SameTurn, Reads, Moves, Reading, Handling, Rollbacks, Installs
  <2>4. Transacting'
    BY <1>1, <1>2, <1>3, <2>1, CopyFacts, Known DEF Undisturbed, Transacting, Pointing, Active, AtNew,
         Whole, Missing, Doing, Under, Names, SameJob, SameTurn, Reads, Moves, Installs, Handling, Rollbacks
  <2>5. Recovering'
    BY <1>2, <2>1, NobodyRecovers DEF Recovering, Handling, Rollbacks, Installs
  <2>. QED BY <2>1, <2>2, <2>3, <2>4, <2>5 DEF Undisturbed
<1>7. ASSUME ~ touched', crashes' = 0, errors' <= 1 PROVE Quiet'
  <2>1. Undisturbed /\ Quiet /\ ~ Interferes' /\ errors = 0
    <3>1. errors = 0
      BY <1>1, <1>3, <1>7 DEF Shapes
    <3>2. errors <= 1
      BY <3>1
    <3>. QED BY <1>3, <1>7, <3>1, <3>2, Quieting, Undisturbing
  <2>2. Native'
    BY <1>1, <1>2, <1>3, <2>1, CopyFacts, Known DEF Undisturbed, Pointing, AtPrev, AtNew, Quiet, Native, Of,
         Doing, SameJob, SameTurn, Reads, Moves, Handling, Rollbacks, Installs
  <2>3. \A p \in Processes : proc'[p].step \notin {"recovering", "recovered", "clearing"}
    BY <1>2, <2>1, NobodyRecovers DEF Handling, Rollbacks, Installs
  <2>4. Doing' \in Handling => errors' >= 1
    BY <1>1, <1>3 DEF Shapes
  <2>5. txn' # None => me'.step \in {"manifest", "clear"} \/ Doing' \in Under
    BY <1>1, <1>2, <1>3, <2>1 DEF Quiet, Doing, Under, SameTurn, Reads, Moves, Handling, Rollbacks, Installs
  <2>6. errors' = 0 /\ ~ (me'.step = "verify" /\ pointer' = New') => Whichever(pointer)'
    BY <1>1, <1>3 DEF Shapes
  <2>7. Doing' \in Built \ {"revert", "clear", "restore"}
        /\ (errors' = 0 \/ Doing' \in Handling) => Whichever(Prev)'
    BY <1>1, <1>2, <1>3, <2>1, CopyFacts, Known DEF Undisturbed, Pointing, ReleaseOK, Built, Handling,
         Rollbacks, AtPrev, AtNew, Quiet, Whichever, Doing, SameJob, SameTurn, Reads, Moves, Installs
  <2>. QED BY <2>2, <2>3, <2>4, <2>5, <2>6, <2>7 DEF Quiet
<1>. QED BY <1>1, <1>4, <1>5, <1>6, <1>7 DEF SkillInv, Shapes

\* The process dies.
LEMMA CrashKeeps ==
  ASSUME SkillAssumption, SkillInv, Crash
  PROVE  SkillInv'
<1>1. TypeOK /\ Shapes /\ ReleaseOK /\ proc \in [Processes -> States]
  BY DEF SkillInv, Shapes
<1>2. me.step # "idle" /\ proc' \in [Processes -> States] /\ me' = Asleep /\ me'.step = "idle" /\ Still
  BY <1>1, SleepIs DEF Crash, At, me
<1>3. (IF me.step \in {"point", "repoint"} THEN pointer' \in {pointer, None} ELSE pointer' = pointer)
      /\ (IF txn # None THEN txn' \in {txn, NoBundle} ELSE txn' = txn)
      /\ UNCHANGED <<dir, native, release, anchor, assigned, errors>> /\ crashes' = crashes + 1 /\ Touch
  BY DEF Crash, world, At, me
<1>4. TypeOK'
  BY <1>1, <1>2, <1>3, CopyFacts, Known, TouchIs DEF TypeOK, OptBundle
<1>5. Shapes' /\ ReleaseOK'
  BY <1>1, <1>2, <1>3, Actors DEF Shapes, ReleaseOK, Reading, Moving, Doing, SameJob, SameTurn, Still,
       Built, Reads, Moves, Installs, Rollbacks
<1>6. ASSUME ~ touched' PROVE Undisturbed'
  <2>1. ~ touched /\ Undisturbed /\ ~ Interferes'
    BY <1>3, <1>6, Undisturbing
  <2>2. Receipted'
    BY <1>1, <1>2, <1>3, <2>1, CopyFacts, Known DEF Undisturbed, Receipted, Names, Missing, Pointing, Whole,
         Doing, Active, ReleaseOK, Built, SameJob, Reads, Moves
  <2>3. Pointing'
    BY <1>1, <1>2, <1>3, <2>1, CopyFacts, Known DEF Undisturbed, Pointing, Whole, Names, Doing, AtPrev,
         AtNew, Active, SameJob, SameTurn, Reads, Moves, Reading
  <2>4. Transacting'
    BY <1>1, <1>2, <1>3, <2>1, CopyFacts, Known DEF Undisturbed, Transacting, Pointing, Active, AtNew,
         Whole, Missing, Doing, Under, Names, SameJob, SameTurn, Reads, Moves, Installs
  <2>5. Recovering'
    BY <1>2, <2>1, NobodyRecovers DEF Recovering
  <2>. QED BY <2>1, <2>2, <2>3, <2>4, <2>5 DEF Undisturbed
<1>7. ASSUME ~ touched', crashes' = 0, errors' <= 1 PROVE Quiet'
  <2>. QED BY <1>1, <1>3, <1>7 DEF Shapes
<1>. QED BY <1>1, <1>4, <1>5, <1>6, <1>7 DEF SkillInv, Shapes

-----------------------------------------------------------------------------
(* The readers, who hold no lock.                                          *)

\* What is installed, or rolled back, is none of their business: they only read.
Reader(p) ==
    /\ me' = me
    /\ proc' \in [Processes -> States] /\ proc'[p].then = "idle" /\ proc'[p].catch = "idle"
    /\ \A q \in Processes : q = "sync" \/ q = p

LEMMA ReaderGoes ==
  ASSUME SkillAssumption, Shapes, NEW p \in Readers, NEW x \in Steps, Goto(p, x)
  PROVE  Reader(p) /\ proc'[p].step = x
BY Actors, GotoIs DEF Reader, Shapes, me

LEMMA ReaderThrows ==
  ASSUME SkillAssumption, Shapes, NEW p \in Readers, Throw(p)
  PROVE  Reader(p) /\ proc'[p].step = "idle"
BY ReaderGoes DEF Throw, Shapes, Steps

\* It repairs while no synchronisation is at work, unless it interferes.
LEMMA ReaderAlone ==
  ASSUME SkillAssumption, SkillInv, NEW p \in Readers, Reader(p), Touch, ~ touched', Repairs(p) \/ Repairs(p)'
  PROVE  ~ touched /\ Undisturbed /\ ~ Interferes' /\ me' = me /\ me.step = "idle" /\ Doing = "idle"
         /\ Doing' = "idle"
<1>1. ~ touched /\ Undisturbed /\ ~ Interferes /\ ~ Interferes' /\ me' = me
  BY Undisturbing DEF Undisturbed, Reader
<1>2. me.step = "idle"
  BY <1>1 DEF Interferes, At, me
<1>. QED BY <1>1, <1>2 DEF Doing, Reads, Moves

\* A step that changes nothing on disk.
LEMMA ReaderLooks ==
  ASSUME SkillAssumption, SkillInv, NEW p \in Readers, Reader(p), proc'[p].step \in {"idle", "recover", "read"},
         UNCHANGED <<disk, anchor, assigned, crashes, errors>>, Touch
  PROVE  SkillInv'
<1>1. TypeOK /\ Shapes /\ ReleaseOK /\ proc \in [Processes -> States]
  BY DEF SkillInv, Shapes
<1>2. Doing' = Doing /\ New' = New /\ Prev' = Prev /\ me' = me
  BY DEF Reader, Doing, New, Prev, me
<1>3. TypeOK' /\ Shapes' /\ ReleaseOK'
  <2>1. TypeOK'
    BY <1>1, TouchIs DEF Reader, TypeOK, disk
  <2>2. Shapes'
    BY <1>1, <1>2, Actors DEF Reader, Shapes, Reading, Moving, SkillsOf, Reads
  <2>. QED BY <1>1, <1>2, <2>1, <2>2 DEF ReleaseOK, disk
<1>4. ASSUME ~ touched' PROVE Undisturbed'
  <2>1. Undisturbed /\ ~ Interferes'
    BY <1>4, Undisturbing
  <2>2. Receipted' /\ Pointing'
    BY <1>2, <2>1 DEF Undisturbed, Receipted, Pointing, Whole, Missing, disk
  <2>3. Transacting'
    BY <1>2, <2>1 DEF Undisturbed, Transacting, Whole, Missing, CopyOf, disk
  <2>4. Recovering'
    BY <1>2, <2>1 DEF Undisturbed, Recovering, Whole, Missing, Reader, disk, me
  <2>. QED BY <2>1, <2>2, <2>3, <2>4 DEF Undisturbed
<1>5. ASSUME ~ touched', crashes' = 0, errors' <= 1 PROVE Quiet'
  <2>1. Quiet
    BY <1>5, Quieting
  <2>2. Native'
    BY <1>2, <2>1 DEF Quiet, Native, Of, SkillsOf, disk
  <2>3. \A q \in Processes : proc'[q].step \notin {"recovering", "recovered", "clearing"}
    BY <1>2, <2>1 DEF Quiet, Reader, me
  <2>. QED BY <1>2, <2>1, <2>2, <2>3 DEF Quiet, Whichever, disk
<1>. QED BY <1>1, <1>3, <1>4, <1>5 DEF SkillInv, Shapes

\* A command or the source scan begins.
LEMMA ReaderBeginRead ==
  ASSUME SkillAssumption, SkillInv, NEW p \in Readers, BeginRead(p)
  PROVE  SkillInv'
<1>1. Shapes
  BY DEF SkillInv
<1>2. Reader(p) /\ proc'[p].step \in {"idle", "recover", "read"}
  <2>1. ReadPointer(p, Asleep, "idle", "idle") /\ Asleep \in States /\ "idle" \in Steps
    BY AsleepIs DEF BeginRead, Steps
  <2>. QED BY <1>1, <2>1, ReadPointerIs, Actors DEF Shapes, Reader, me
<1>3. UNCHANGED <<disk, anchor, assigned, crashes, errors>> /\ Touch
  BY DEF BeginRead, Keep, world
<1>. QED BY <1>2, <1>3, ReaderLooks

\* Nothing to recover.
LEMMA ReaderRecover ==
  ASSUME SkillAssumption, SkillInv, NEW p \in Readers, Recover(p)
  PROVE  SkillInv'
<1>1. Shapes
  BY DEF SkillInv
<1>2. Reader(p) /\ proc'[p].step \in {"idle", "recover", "read"}
  <2>1. Throw(p) \/ Goto(p, "read")
    BY <1>1 DEF Recover, Shapes
  <2>. QED BY <1>1, <2>1, ReaderGoes, ReaderThrows DEF Steps, Reads
<1>3. UNCHANGED <<disk, anchor, assigned, crashes, errors>> /\ Touch
  BY DEF Recover, Keep, world
<1>. QED BY <1>2, <1>3, ReaderLooks

\* The pointer is read.
LEMMA ReaderRead ==
  ASSUME SkillAssumption, SkillInv, NEW p \in Readers, Read(p)
  PROVE  SkillInv'
<1>1. Shapes
  BY DEF SkillInv
<1>2. Reader(p) /\ proc'[p].step \in {"idle", "recover", "read"}
  <2>1. Goto(p, "idle")
    BY <1>1 DEF Read, Shapes
  <2>. QED BY <1>1, <2>1, ReaderGoes, ReaderThrows DEF Steps, Reads
<1>3. UNCHANGED <<disk, anchor, assigned, crashes, errors>> /\ Touch
  BY DEF Read, Keep, world
<1>. QED BY <1>2, <1>3, ReaderLooks

\* It is refused.
LEMMA ReaderReadRefused ==
  ASSUME SkillAssumption, SkillInv, NEW p \in Readers, ReadRefused(p)
  PROVE  SkillInv'
<1>1. Shapes
  BY DEF SkillInv
<1>2. Reader(p) /\ proc'[p].step \in {"idle", "recover", "read"}
  <2>1. Throw(p)
    BY <1>1 DEF ReadRefused, Shapes
  <2>. QED BY <1>1, <2>1, ReaderGoes, ReaderThrows DEF Steps, Reads
<1>3. UNCHANGED <<disk, anchor, assigned, crashes, errors>> /\ Touch
  BY DEF ReadRefused, Keep, world
<1>. QED BY <1>2, <1>3, ReaderLooks

\* An interrupted rollback is recovered: the directory, ...
LEMMA ReaderRecoverRollback ==
  ASSUME SkillAssumption, SkillInv, NEW p \in Readers, RecoverRollback(p)
  PROVE  SkillInv'
<1>1. TypeOK /\ Shapes /\ ReleaseOK /\ proc \in [Processes -> States]
  BY DEF SkillInv, Shapes
<1>2. Reader(p) /\ proc[p].step = "recover" /\ proc'[p].step \in {"recovering"}
  <2>1. Goto(p, "recovering") /\ proc[p].step = "recover"
    BY DEF RecoverRollback, Become, Goto, At
  <2>. QED BY <1>1, <2>1, ReaderGoes DEF Steps, Reads, Moves, Installs, Rollbacks
<1>3. txn \in Bundles
      /\ (IF ~ Missing("backup") THEN Moved("backup", "active") ELSE IF Missing("active")
          THEN Put("active") /\ dir'["active"] = CopyOf(txn) ELSE dir' = dir)
      /\ UNCHANGED <<pointer, txn, native, release, anchor, assigned, crashes, errors>> /\ Touch
  BY <1>1, RecoverRollbackIs
<1>4. TypeOK'
  BY <1>1, <1>2, <1>3, CopyFacts, Known, TouchIs DEF TypeOK, Reader, Moved, Put, CopyOf
<1>5. Shapes' /\ ReleaseOK'
  BY <1>1, <1>2, <1>3, Actors DEF Shapes, ReleaseOK, Reading, Moving, SkillsOf, Doing, Reader, New, Prev,
       me, Reads, Moves
<1>6. ASSUME ~ touched' PROVE Undisturbed' /\ (crashes' = 0 /\ errors' <= 1 => Quiet')
  <2>1. ~ touched /\ Undisturbed /\ ~ Interferes' /\ me' = me /\ me.step = "idle" /\ Doing = "idle"
        /\ Doing' = "idle"
    BY <1>2, <1>3, <1>6, ReaderAlone DEF Repairs
  <2>2. Receipted'
    BY <1>1, <1>2, <1>3, <2>1, CopyFacts, Known DEF Undisturbed, Receipted, Names, Missing, Moved, Put, CopyOf
  <2>3. Pointing'
    BY <2>1 DEF Pointing, AtPrev, AtNew, Active
  <2>4. Transacting'
    BY <1>1, <1>2, <1>3, <2>1, CopyFacts, Known, Actors DEF Undisturbed, Transacting, Recovering, Whole,
         Missing, Names, Under, Installs, BundleIn, Moved, Put, CopyOf
  <2>5. Recovering'
    BY <1>1, <1>2, <1>3, <2>1, CopyFacts, Known, Actors DEF Undisturbed, Transacting, Recovering, Whole,
         Missing, Names, Reader, me, Moved, Put, CopyOf
  <2>6. ASSUME crashes' = 0, errors' <= 1 PROVE Quiet'
    <3>1. Quiet
      BY <1>3, <1>6, <2>6, Quieting
    <3>. QED BY <1>1, <1>2, <1>3, <2>1, <3>1, Actors, CopyFacts DEF Quiet, Under
  <2>. QED BY <2>1, <2>2, <2>3, <2>4, <2>5, <2>6 DEF Undisturbed
<1>. QED BY <1>1, <1>4, <1>5, <1>6 DEF SkillInv, Shapes

\* ... the native skills, ...
LEMMA ReaderRecoverNative ==
  ASSUME SkillAssumption, SkillInv, NEW p \in Readers, RecoverNative(p)
  PROVE  SkillInv'
<1>1. TypeOK /\ Shapes /\ ReleaseOK /\ proc \in [Processes -> States]
  BY DEF SkillInv, Shapes
<1>2. Reader(p) /\ proc[p].step = "recovering" /\ proc'[p].step \in {"recovered", "idle"}
  <2>1. (Goto(p, "recovered") \/ Throw(p)) /\ proc[p].step = "recovering"
    BY DEF RecoverNative, At
  <2>. QED BY <1>1, <2>1, ReaderGoes, ReaderThrows DEF Steps, Reads, Moves, Installs, Rollbacks
<1>3. native' \in [SkillIds -> OptBundle]
      /\ UNCHANGED <<pointer, dir, txn, release, anchor, assigned, crashes, errors>> /\ Touch
  BY <1>1, RecoverNativeIs
<1>4. TypeOK'
  BY <1>1, <1>2, <1>3, CopyFacts, Known, TouchIs DEF TypeOK, Reader
<1>5. Shapes' /\ ReleaseOK'
  BY <1>1, <1>2, <1>3, Actors DEF Shapes, ReleaseOK, Reading, Moving, SkillsOf, Doing, Reader, New, Prev,
       me, Reads, Moves
<1>6. ASSUME ~ touched' PROVE Undisturbed' /\ (crashes' = 0 /\ errors' <= 1 => Quiet')
  <2>1. ~ touched /\ Undisturbed /\ ~ Interferes' /\ me' = me /\ me.step = "idle" /\ Doing = "idle"
        /\ Doing' = "idle"
    BY <1>2, <1>3, <1>6, ReaderAlone DEF Repairs
  <2>2. Receipted'
    BY <1>1, <1>2, <1>3, <2>1, CopyFacts, Known DEF Undisturbed, Receipted, Names, Missing
  <2>3. Pointing'
    BY <2>1 DEF Pointing, AtPrev, AtNew, Active
  <2>4. Transacting'
    BY <1>1, <1>2, <1>3, <2>1, CopyFacts, Known, Actors DEF Undisturbed, Transacting, Recovering, Whole,
         Missing, Names, Under, Installs, BundleIn
  <2>5. Recovering'
    BY <1>1, <1>2, <1>3, <2>1, CopyFacts, Known, Actors DEF Undisturbed, Transacting, Recovering, Whole,
         Missing, Names, Reader, me
  <2>6. ASSUME crashes' = 0, errors' <= 1 PROVE Quiet'
    <3>1. Quiet
      BY <1>3, <1>6, <2>6, Quieting
    <3>. QED BY <1>1, <1>2, <1>3, <2>1, <3>1, Actors, CopyFacts DEF Quiet, Under
  <2>. QED BY <2>1, <2>2, <2>3, <2>4, <2>5, <2>6 DEF Undisturbed
<1>. QED BY <1>1, <1>4, <1>5, <1>6 DEF SkillInv, Shapes

\* ... the pointer.
LEMMA ReaderRecoverPointer ==
  ASSUME SkillAssumption, SkillInv, NEW p \in Readers, RecoverPointer(p)
  PROVE  SkillInv'
<1>1. TypeOK /\ Shapes /\ ReleaseOK /\ proc \in [Processes -> States]
  BY DEF SkillInv, Shapes
<1>2. Reader(p) /\ proc[p].step = "recovered" /\ proc'[p].step \in {"clearing", "idle"}
  <2>1. (Goto(p, "clearing") \/ Throw(p)) /\ proc[p].step = "recovered"
    BY DEF RecoverPointer, At
  <2>. QED BY <1>1, <2>1, ReaderGoes, ReaderThrows DEF Steps, Reads, Moves, Installs, Rollbacks
<1>3. pointer' = (IF txn \in Bundles THEN txn ELSE pointer)
      /\ UNCHANGED <<dir, txn, native, release, anchor, assigned, crashes, errors>> /\ Touch
  BY <1>1, RecoverPointerIs
<1>4. TypeOK'
  BY <1>1, <1>2, <1>3, CopyFacts, Known, TouchIs DEF TypeOK, Reader
<1>5. Shapes' /\ ReleaseOK'
  BY <1>1, <1>2, <1>3, Actors DEF Shapes, ReleaseOK, Reading, Moving, SkillsOf, Doing, Reader, New, Prev,
       me, Reads, Moves
<1>6. ASSUME ~ touched' PROVE Undisturbed' /\ (crashes' = 0 /\ errors' <= 1 => Quiet')
  <2>1. ~ touched /\ Undisturbed /\ ~ Interferes' /\ me' = me /\ me.step = "idle" /\ Doing = "idle"
        /\ Doing' = "idle"
    BY <1>2, <1>3, <1>6, ReaderAlone DEF Repairs
  <2>2. Receipted'
    BY <1>1, <1>2, <1>3, <2>1, CopyFacts, Known DEF Undisturbed, Receipted, Names, Missing
  <2>3. Pointing'
    BY <2>1 DEF Pointing, AtPrev, AtNew, Active
  <2>4. Transacting'
    BY <1>1, <1>2, <1>3, <2>1, CopyFacts, Known, Actors DEF Undisturbed, Transacting, Recovering, Whole,
         Missing, Names, Under, Installs, BundleIn
  <2>5. Recovering'
    BY <1>1, <1>2, <1>3, <2>1, CopyFacts, Known, Actors DEF Undisturbed, Transacting, Recovering, Whole,
         Missing, Names, Reader, me
  <2>6. ASSUME crashes' = 0, errors' <= 1 PROVE Quiet'
    <3>1. Quiet
      BY <1>3, <1>6, <2>6, Quieting
    <3>. QED BY <1>1, <1>2, <1>3, <2>1, <3>1, Actors, CopyFacts DEF Quiet, Under
  <2>. QED BY <2>1, <2>2, <2>3, <2>4, <2>5, <2>6 DEF Undisturbed
<1>. QED BY <1>1, <1>4, <1>5, <1>6 DEF SkillInv, Shapes

\* The transaction is over.
LEMMA ReaderClearRecovered ==
  ASSUME SkillAssumption, SkillInv, NEW p \in Readers, ClearRecovered(p)
  PROVE  SkillInv'
<1>1. TypeOK /\ Shapes /\ ReleaseOK /\ proc \in [Processes -> States]
  BY DEF SkillInv, Shapes
<1>2. Reader(p) /\ proc[p].step = "clearing" /\ proc'[p].step \in {"recover"}
  <2>1. Goto(p, "recover") /\ proc[p].step = "clearing"
    BY DEF ClearRecovered, Become, Goto, At
  <2>. QED BY <1>1, <2>1, ReaderGoes DEF Steps, Reads, Moves, Installs, Rollbacks
<1>3. txn' = None /\ Cleared /\ UNCHANGED <<pointer, native, release, anchor, assigned, crashes, errors>>
      /\ Touch
  BY <1>1, ClearRecoveredIs
<1>4. TypeOK'
  BY <1>1, <1>2, <1>3, TouchIs DEF TypeOK, OptBundle, Reader, Cleared
<1>5. Shapes' /\ ReleaseOK'
  BY <1>1, <1>2, <1>3, Actors DEF Shapes, ReleaseOK, Reading, Moving, SkillsOf, Doing, Reader, New, Prev,
       me, Reads, Moves
<1>6. ASSUME ~ touched' PROVE Undisturbed' /\ (crashes' = 0 /\ errors' <= 1 => Quiet')
  <2>1. ~ touched /\ Undisturbed /\ ~ Interferes' /\ me' = me /\ me.step = "idle" /\ Doing = "idle"
        /\ Doing' = "idle"
    BY <1>2, <1>3, <1>6, ReaderAlone DEF Repairs
  <2>2. Receipted'
    BY <1>1, <1>2, <1>3, <2>1, CopyFacts, Known DEF Undisturbed, Receipted, Names, Missing, Cleared
  <2>3. Pointing'
    BY <2>1 DEF Pointing, AtPrev, AtNew, Active
  <2>4. Transacting'
    BY <1>1, <1>2, <1>3, <2>1, CopyFacts, Known, Actors DEF Undisturbed, Transacting, Recovering, Whole,
         Missing, Names, Under, Installs, BundleIn, Cleared
  <2>5. Recovering'
    BY <1>1, <1>2, <1>3, <2>1, CopyFacts, Known, Actors DEF Undisturbed, Transacting, Recovering, Whole,
         Missing, Names, Reader, me, Cleared
  <2>6. ASSUME crashes' = 0, errors' <= 1 PROVE Quiet'
    <3>1. Quiet
      BY <1>3, <1>6, <2>6, Quieting
    <3>. QED BY <1>1, <1>2, <1>3, <2>1, <3>1, Actors, CopyFacts DEF Quiet, Under
  <2>. QED BY <2>1, <2>2, <2>3, <2>4, <2>5, <2>6 DEF Undisturbed
<1>. QED BY <1>1, <1>4, <1>5, <1>6 DEF SkillInv, Shapes

\* The active copy is set aside ...
LEMMA ReaderRejectActive ==
  ASSUME SkillAssumption, SkillInv, NEW p \in Readers, RejectActive(p)
  PROVE  SkillInv'
<1>1. TypeOK /\ Shapes /\ ReleaseOK /\ proc \in [Processes -> States]
  BY DEF SkillInv, Shapes
<1>2. Reader(p) /\ proc[p].step = "read" /\ proc'[p].step \in {"reject"}
  <2>1. Goto(p, "reject") /\ proc[p].step = "read"
    BY DEF RejectActive, Become, Goto, At
  <2>. QED BY <1>1, <2>1, ReaderGoes DEF Steps, Reads, Moves, Installs, Rollbacks
<1>3. BundleIn("active") # pointer /\ Moved("active", "rejected")
      /\ UNCHANGED <<pointer, txn, native, release, anchor, assigned, crashes, errors>> /\ Touch
  BY <1>1, RejectActiveIs
<1>4. TypeOK'
  BY <1>1, <1>2, <1>3, CopyFacts, Known, TouchIs DEF TypeOK, Reader, Moved
<1>5. Shapes' /\ ReleaseOK'
  BY <1>1, <1>2, <1>3, Actors DEF Shapes, ReleaseOK, Reading, Moving, SkillsOf, Doing, Reader, New, Prev,
       me, Reads, Moves
<1>6. ASSUME ~ touched' PROVE Undisturbed' /\ (crashes' = 0 /\ errors' <= 1 => Quiet')
  <2>1. ~ touched /\ Undisturbed /\ ~ Interferes' /\ me' = me /\ me.step = "idle" /\ Doing = "idle"
        /\ Doing' = "idle"
    BY <1>2, <1>3, <1>6, ReaderAlone DEF Repairs
  <2>2. Receipted'
    BY <1>1, <1>2, <1>3, <2>1, CopyFacts, Known DEF Undisturbed, Receipted, Names, Missing, Moved
  <2>3. Pointing'
    BY <2>1 DEF Pointing, AtPrev, AtNew, Active
  <2>4. Transacting'
    <3>1. txn = None
      BY <1>2, <1>3, <2>1 DEF Undisturbed, Interferes, At
    <3>. QED BY <1>1, <1>2, <1>3, <2>1, <3>1, CopyFacts DEF Undisturbed, Transacting, Missing, Names, Under,
         Installs, Moved
  <2>5. Recovering'
    BY <1>1, <1>2, <1>3, <2>1, CopyFacts, Known, Actors DEF Undisturbed, Transacting, Recovering, Whole,
         Missing, Names, Reader, me, Moved
  <2>6. ASSUME crashes' = 0, errors' <= 1 PROVE Quiet'
    <3>1. Quiet
      BY <1>3, <1>6, <2>6, Quieting
    <3>2. Native'
      BY <1>3, <2>1, <3>1 DEF Quiet, Native, Of, SkillsOf
    <3>3. \A q \in Processes : proc'[q].step \notin {"recovering", "recovered", "clearing"}
      BY <1>2, <2>1, <3>1 DEF Quiet, Reader, me
    <3>. QED BY <1>3, <2>1, <3>1, <3>2, <3>3 DEF Quiet, Whichever, Handling, Rollbacks, Built
  <2>. QED BY <2>1, <2>2, <2>3, <2>4, <2>5, <2>6 DEF Undisturbed
<1>. QED BY <1>1, <1>4, <1>5, <1>6 DEF SkillInv, Shapes

\* ... for the one before.
LEMMA ReaderRestoreRollback ==
  ASSUME SkillAssumption, SkillInv, NEW p \in Readers, RestoreRollback(p)
  PROVE  SkillInv'
<1>1. TypeOK /\ Shapes /\ ReleaseOK /\ proc \in [Processes -> States]
  BY DEF SkillInv, Shapes
<1>2. Reader(p) /\ proc[p].step = "reject" /\ proc'[p].step \in {"read", "idle"}
  <2>1. (Goto(p, "read") \/ Throw(p)) /\ proc[p].step = "reject"
    BY DEF RestoreRollback, At
  <2>. QED BY <1>1, <2>1, ReaderGoes, ReaderThrows DEF Steps, Reads, Moves, Installs, Rollbacks
<1>3. Restored /\ UNCHANGED <<pointer, txn, native, release, anchor, assigned, crashes, errors>> /\ Touch
  BY <1>1, RestoreRollbackIs
<1>4. TypeOK'
  BY <1>1, <1>2, <1>3, CopyFacts, Known, TouchIs DEF TypeOK, Reader, Restored, Moved
<1>5. Shapes' /\ ReleaseOK'
  BY <1>1, <1>2, <1>3, Actors DEF Shapes, ReleaseOK, Reading, Moving, SkillsOf, Doing, Reader, New, Prev,
       me, Reads, Moves
<1>6. ASSUME ~ touched' PROVE Undisturbed' /\ (crashes' = 0 /\ errors' <= 1 => Quiet')
  <2>1. ~ touched /\ Undisturbed /\ ~ Interferes' /\ me' = me /\ me.step = "idle" /\ Doing = "idle"
        /\ Doing' = "idle"
    BY <1>2, <1>3, <1>6, ReaderAlone DEF Repairs
  <2>2. Receipted'
    BY <1>1, <1>2, <1>3, <2>1, CopyFacts, Known DEF Undisturbed, Receipted, Names, Missing, Restored, Moved
  <2>3. Pointing'
    BY <2>1 DEF Pointing, AtPrev, AtNew, Active
  <2>4. Transacting'
    <3>1. txn = None
      BY <1>2, <1>3, <2>1 DEF Undisturbed, Interferes, At
    <3>. QED BY <1>1, <1>2, <1>3, <2>1, <3>1, CopyFacts DEF Undisturbed, Transacting, Missing, Names, Under,
         Installs, Moved, Restored
  <2>5. Recovering'
    BY <1>1, <1>2, <1>3, <2>1, CopyFacts, Known, Actors DEF Undisturbed, Transacting, Recovering, Whole,
         Missing, Names, Reader, me, Restored, Moved
  <2>6. ASSUME crashes' = 0, errors' <= 1 PROVE Quiet'
    <3>1. Quiet
      BY <1>3, <1>6, <2>6, Quieting
    <3>2. Native'
      BY <1>3, <2>1, <3>1 DEF Quiet, Native, Of, SkillsOf
    <3>3. \A q \in Processes : proc'[q].step \notin {"recovering", "recovered", "clearing"}
      BY <1>2, <2>1, <3>1 DEF Quiet, Reader, me
    <3>. QED BY <1>3, <2>1, <3>1, <3>2, <3>3 DEF Quiet, Whichever, Handling, Rollbacks, Built
  <2>. QED BY <2>1, <2>2, <2>3, <2>4, <2>5, <2>6 DEF Undisturbed
<1>. QED BY <1>1, <1>4, <1>5, <1>6 DEF SkillInv, Shapes

-----------------------------------------------------------------------------
(* The whole module.                                                       *)

\* HQ assigns another bundle, or nothing happens.
LEMMA Standing ==
  ASSUME SkillAssumption, SkillInv, UNCHANGED <<disk, anchor, proc, crashes, errors, touched>>,
         assigned' \in Bundles
  PROVE  SkillInv'
<1>1. TypeOK /\ Shapes /\ ReleaseOK /\ proc \in [Processes -> States]
  BY DEF SkillInv, Shapes
<1>2. Doing' = Doing /\ New' = New /\ Prev' = Prev /\ me' = me
  BY DEF Doing, New, Prev, me
<1>3. TypeOK' /\ Shapes' /\ ReleaseOK'
  <2>1. TypeOK'
    BY <1>1 DEF TypeOK, disk
  <2>2. Shapes'
    BY <1>1, <1>2 DEF Shapes, Reading, Moving, SkillsOf, Reads
  <2>. QED BY <1>1, <1>2, <2>1, <2>2 DEF ReleaseOK, disk
<1>4. ASSUME Undisturbed PROVE Undisturbed'
  <2>1. ~ Interferes'
    BY <1>4 DEF Undisturbed, Interferes, Repairs, At, disk
  <2>2. Receipted' /\ Pointing'
    BY <1>2, <1>4 DEF Undisturbed, Receipted, Pointing, Whole, Missing, disk
  <2>3. Transacting'
    BY <1>2, <1>4 DEF Undisturbed, Transacting, Whole, Missing, CopyOf, disk
  <2>4. Recovering'
    BY <1>4 DEF Undisturbed, Recovering, Whole, Missing, disk
  <2>. QED BY <2>1, <2>2, <2>3, <2>4 DEF Undisturbed
<1>5. ASSUME Quiet PROVE Quiet'
  <2>1. Native'
    BY <1>2, <1>5 DEF Quiet, Native, Of, SkillsOf, disk
  <2>. QED BY <1>2, <1>5, <2>1 DEF Quiet, Whichever, disk
<1>. QED BY <1>1, <1>3, <1>4, <1>5 DEF SkillInv

LEMMA SkillBegins ==
  ASSUME SkillAssumption, Init
  PROVE  SkillInv
<1>1. proc \in [Processes -> States] /\ (\A p \in Processes : proc[p] = Asleep) /\ me = Asleep
  BY AsleepIs, Actors DEF Init, me
<1>2. Asleep.step = "idle" /\ Asleep.then = "idle" /\ Asleep.catch = "idle"
  BY AsleepIs
<1>3. Doing = "idle" /\ me.step = "idle"
  BY <1>1, <1>2 DEF Doing, Reads, Moves
<1>4. \A p \in Processes : proc[p].step = "idle" /\ proc[p].then = "idle" /\ proc[p].catch = "idle"
  BY <1>1, <1>2
<1>5. Absent \in Copies /\ Absent.receipt = None
  BY DEF Absent, Copies, OptBundle, OptReceipt
<1>6. TypeOK
  BY <1>1, <1>5 DEF Init, TypeOK, OptBundle, OptReceipt
<1>7. Shapes /\ ReleaseOK
  BY <1>1, <1>3, <1>4, Actors DEF Init, Shapes, ReleaseOK, Reads, Moves, Built, Rollbacks
<1>8. Undisturbed
  <2>1. ~ Interferes
    BY <1>4, Actors DEF Interferes, Repairs, At
  <2>2. Receipted
    BY <1>5 DEF Init, Receipted, Missing
  <2>3. Pointing /\ Transacting /\ Recovering
    BY <1>3, <1>4, CopyFacts, <1>6 DEF Init, Pointing, Transacting, Recovering, AtPrev, AtNew, Active, Under,
         Missing, Names, Installs
  <2>. QED BY <2>1, <2>2, <2>3 DEF Undisturbed
<1>9. Quiet
  <2>1. Native
    BY <1>3 DEF Init, Native, Of, SkillsOf
  <2>. QED BY <1>3, <1>4, <2>1 DEF Init, Quiet, Handling, Rollbacks, Whichever, Built
<1>. QED BY <1>6, <1>7, <1>8, <1>9 DEF SkillInv

\* A call that fails, whichever step it belongs to.
LEMMA FailStepKeeps ==
  ASSUME SkillAssumption, SkillInv, FailStep
  PROVE  SkillInv'
<1>1. me \in States
  BY Known DEF SkillInv, Shapes
<1>2. me.step \in {"unload", "recover", "recovering", "recovered", "clearing", "read", "anchor", "receipt",
      "publish",
                   "point", "undo", "build", "verify", "aside", "copy", "copied", "revert", "repoint", "post",
                   "restore", "check", "begin", "manifest", "stage", "clear", "shelve", "swap", "switch"}
  BY DEF FailStep, Handlers, me
<1>. QED BY <1>2, ThrowKeeps, UnanchoredKeeps, UnwrittenKeeps, UndoFailsKeeps, GiveUpKeeps, CheckFailsKeeps,
         UnrolledKeeps, SwapFailsKeeps

LEMMA SyncKeeps ==
  ASSUME SkillAssumption, SkillInv, Sync
  PROVE  SkillInv'
<1>1. CASE Step("sync")
  BY <1>1, UnloadKeeps, UnloadFailsKeeps, LoadKeeps, RecoverKeeps, RecoverRollbackKeeps, RecoverNativeKeeps,
     RecoverPointerKeeps, ClearRecoveredKeeps, ReadKeeps, ReadRefusedKeeps, RejectActiveKeeps,
     RestoreRollbackKeeps DEF Step
<1>2. CASE Install
  BY <1>2, BuildReleaseKeeps, VerifyReleaseKeeps, SetAsideKeeps, BeginCopyKeeps, EndCopyKeeps, RevertKeeps,
     CheckKeeps, UndoKeeps, RepointKeeps, WriteReleaseReceiptKeeps, WriteActiveReceiptKeeps,
     SwitchPointerKeeps, SaveAnchorKeeps, PostReceiptKeeps DEF Install
<1>3. CASE Unconfirmed
  BY <1>3, ConfirmKeeps, BeginTransactionKeeps, WriteManifestKeeps, StagePreviousKeeps, ShelveActiveKeeps,
     SwapActiveKeeps, SwitchBackKeeps, MendKeeps, MendPointerKeeps, ClearTransactionKeeps, RestoreAnchorKeeps
     DEF Unconfirmed
<1>. QED BY <1>1, <1>2, <1>3, AskHqKeeps DEF Sync

\* A reader never exchanges native skills.
LEMMA ReaderKeeps ==
  ASSUME SkillAssumption, SkillInv, NEW p \in Readers, BeginRead(p) \/ Step(p)
  PROVE  SkillInv'
<1>1. ~ (Unload(p) \/ UnloadFails(p) \/ Load(p))
  BY DEF SkillInv, Shapes, Reads, Unload, UnloadFails, Load, At
<1>. QED BY <1>1, ReaderBeginRead, ReaderRecover, ReaderRead, ReaderReadRefused, ReaderRecoverRollback,
         ReaderRecoverNative, ReaderRecoverPointer, ReaderClearRecovered, ReaderRejectActive,
         ReaderRestoreRollback DEF Step

LEMMA SkillStep ==
  ASSUME SkillAssumption, SkillInv, [Next]_vars
  PROVE  SkillInv'
<1>1. ASSUME NEW b \in Bundles, Assign(b) PROVE SkillInv'
  BY <1>1, Standing DEF Assign, counters
<1>2. CASE UNCHANGED vars
  BY <1>2, Standing DEF vars, world, counters, SkillInv, TypeOK
<1>. QED BY <1>1, <1>2, SyncKeeps, ReaderKeeps, FailStepKeeps, PollKeeps, PollByHandKeeps, ConsultKeeps,
         RefuseKeeps, CrashKeeps DEF Next

\* What is granted is a whole copy, and its skills are the native ones.
LEMMA InvIsSafe ==
  ASSUME SkillAssumption, SkillInv
  PROVE  SkillSafe
<1>1. TypeOK
  BY DEF SkillInv
<1>. SUFFICES ASSUME ~ touched PROVE GrantsWholeCopies /\ GrantsWhatIsNative
  BY <1>1 DEF SkillSafe
<1>2. Undisturbed
  BY DEF SkillInv
<1>3. GrantsWholeCopies
  BY <1>1, <1>2, CopyFacts DEF GrantsWholeCopies, Granted, Undisturbed, Receipted, BundleIn, Missing, Names
<1>4. GrantsWhatIsNative
  <2>. SUFFICES ASSUME NEW b \in Bundles, crashes = 0, errors <= 1, At("sync", "idle"), Granted(b)
                PROVE  native = [s \in SkillIds |-> IF s \in Skills[b] THEN b ELSE None]
    BY DEF GrantsWhatIsNative
  <2>1. ~ (crashes > 0) /\ ~ (errors > 1)
    BY DEF SkillInv, Shapes
  <2>2. Quiet
    BY <2>1, Zenon DEF SkillInv
  <2>3. me.step = "idle" /\ pointer = b
    BY DEF At, me, Granted
  <2>4. native = Of(b)
    BY <2>2, <2>3 DEF Quiet, Native
  <2>. QED BY <1>1, <2>4, CopyFacts DEF Of
<1>. QED BY <1>3, <1>4

\* The pointer moves when a bundle is installed, when its installation or its
\* rollback is undone, and when an interrupted rollback is recovered.
LEMMA PointerMoves ==
  ASSUME SkillAssumption, SkillInv, [Next]_vars, pointer' # pointer
  PROVE  \/ SwitchPointer \/ Repoint \/ SwitchBack \/ MendPointer \/ Crash
         \/ RecoverPointer("sync") \/ \E p \in Readers : RecoverPointer(p)
<1>1. ASSUME NEW p, Step(p) PROVE RecoverPointer(p)
  BY <1>1 DEF Step, Unload, UnloadFails, Load, Recover, RecoverRollback, RecoverNative, ClearRecovered, Read,
     ReadRefused, RejectActive, RestoreRollback, disk
<1>2. ASSUME Install PROVE SwitchPointer \/ Repoint
  BY <1>2 DEF Install, BuildRelease, VerifyRelease, SetAside, BeginCopy, EndCopy, Revert, Check, Undo,
     WriteReleaseReceipt, WriteActiveReceipt, SaveAnchor, PostReceipt, disk
<1>3. ASSUME Unconfirmed PROVE SwitchBack \/ MendPointer
  BY <1>3 DEF Unconfirmed, Confirm, BeginTransaction, WriteManifest, StagePrevious, ShelveActive, SwapActive,
     SwapIn, Mend, ClearTransaction, RestoreAnchor, disk
<1>4. ~ (Poll \/ Consult \/ PollByHand \/ AskHq \/ Refuse \/ FailStep \/ UNCHANGED vars)
  BY DEF Poll, Consult, PollByHand, AskHq, Refuse, FailStep, disk, vars
<1>5. ~ (\E b \in Bundles : Assign(b)) /\ ~ (\E p \in Readers : BeginRead(p))
  BY DEF Assign, BeginRead, disk
<1>. QED BY <1>1, <1>2, <1>3, <1>4, <1>5 DEF Next, Sync

LEMMA SwitchIsSafe ==
  ASSUME SkillAssumption, SkillInv, [Next]_vars
  PROVE  SwitchesToCopy
<1>. SUFFICES ASSUME pointer' # pointer, pointer' # None, ~ touched'
              PROVE  BundleIn("active") = pointer' /\ dir["active"].whole
  BY DEF SwitchesToCopy
<1>1. TypeOK /\ Shapes /\ proc \in [Processes -> States] /\ Touch
  <2>1. Touch
    BY PointerMoves DEF SwitchPointer, Repoint, SwitchBack, MendPointer, Crash, RecoverPointer, Keep
  <2>. QED BY <2>1 DEF SkillInv, Shapes
<1>2. Undisturbed /\ ~ Interferes'
  BY <1>1, Undisturbing
<1>3. CASE SwitchPointer
  BY <1>1, <1>2, <1>3, CopyFacts DEF SwitchPointer, At, me, Undisturbed, Pointing, Active, Doing, Whole, BundleIn,
     Missing, Reads, Moves
<1>4. CASE Repoint
  BY <1>2, <1>4 DEF Repoint, At, me, Undisturbed, Pointing, AtPrev, Doing, Reads, Moves
<1>5. CASE SwitchBack
  BY <1>1, <1>2, <1>5, CopyFacts DEF SwitchBack, At, me, Undisturbed, Transacting, Doing, Whole, BundleIn,
     Missing, Reads, Moves, Prev
<1>6. CASE MendPointer
  BY <1>2, <1>6 DEF MendPointer, At, me, Undisturbed, Pointing, AtNew, Doing, Reads, Moves
<1>7. CASE Crash
  BY <1>7 DEF Crash
<1>8. ASSUME NEW p \in Processes, RecoverPointer(p)
      PROVE  BundleIn("active") = pointer' /\ dir["active"].whole
  BY <1>1, <1>2, <1>8, CopyFacts DEF RecoverPointer, At, Undisturbed, Recovering, Whole, BundleIn, Missing
<1>. QED BY <1>3, <1>4, <1>5, <1>6, <1>7, <1>8, PointerMoves, Actors

\* However a synchronisation is cut short, fails, is refused or raced by readers,
\* what the workspace, the transaction and the native skills are at each of its
\* steps is known: for any bundles, skills and bounds.
THEOREM SkillHolds ==
  ASSUME SkillAssumption
  PROVE  Spec => []SkillInv
<1>1. Init => SkillInv
  BY SkillBegins
<1>2. SkillInv /\ [Next]_vars => SkillInv'
  BY SkillStep
<1>. QED BY <1>1, <1>2, PTL DEF Spec

\* An authorization is granted only for a whole copy of its bundle and, while
\* nobody has died and one call at most has failed, what the provider sees are its
\* skills (getActiveSkillBundleAuthorization, installSkillBundle).
THEOREM SkillIsSafe ==
  ASSUME SkillAssumption
  PROVE  Spec => []SkillSafe
<1>1. SkillInv => SkillSafe
  BY InvIsSafe
<1>. QED BY <1>1, SkillHolds, PTL

\* The pointer moves to a bundle only when `active` holds a whole copy of it,
\* unless a reader interferes (writeActiveBundlePointer and its callers).
THEOREM SwitchesAreSafe ==
  ASSUME SkillAssumption
  PROVE  Spec => SwitchesUnlessTouched
<1>1. SkillInv /\ [Next]_vars => [SwitchesToCopy]_vars
  BY SwitchIsSafe
<1>. QED BY <1>1, SkillHolds, PTL DEF Spec, SwitchesUnlessTouched
=============================================================================
