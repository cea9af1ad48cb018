------------------------ MODULE EnrollmentTrust_proofs ------------------------
(***************************************************************************)
(* Proofs about EnrollmentTrust: the processes of a device, its two copies *)
(* of the trust, its crashes and lost stores implement the one trust of    *)
(* DeviceTrust, for any processes, operations, roots and keysets: a device *)
(* trusts another keyset only as a verified successor, and another root    *)
(* only after its keyset has expired.                                      *)
(***************************************************************************)
EXTENDS EnrollmentTrust, TLAPS

Ops == {"open", "install", "load", "claim", "bootstrap", "restore", "prefer", "deliver"}
Steps == {"idle", "client", "wait", "held", "recover", "install", "replace", "write", "prefer",
          "resume", "confirm", "finish"}
Served == [root : Roots, keyset : Keysets]
Picks == Keysets \cup Served \cup {None, "manual", "resume"}
ProcessStates ==
    [op : Ops \cup {None}, pc : Steps, config : Configs \cup {None}, pick : Picks, since : 0 .. MaxTime]

\* An operation knows its configuration, and what it was begun for.
Knows(s) ==
    /\ s.pc \notin {"idle", "client"} => s.config \in Configs
    /\ s.op = "install" => s.pick \in Keysets
    /\ s.pc = "install" => s.op = "install"
    /\ s.op = "deliver" => s.pick \in Served
    /\ s.op = "prefer" => s.pick \in {"manual", "resume"}
    /\ s.pc = "prefer" /\ s.op # "prefer" => s.config.mode # None

\* Nobody else touches the journal that the holder of the lock finishes.
Finishing(p) == lock = p /\ proc[p].pc \in {"resume", "confirm"} => IsJournal(anchor)

Types == TypeOK /\ proc \in [Processes -> ProcessStates]
Processing == \A p \in Processes : Knows(proc[p]) /\ Finishing(p)

IInv == Types /\ Processing

-----------------------------------------------------------------------------
(* The records the actions are made of.                                    *)

LEMMA Records ==
    ASSUME TrustAssumption PROVE
    /\ \A c \in Configs :
        /\ c # None /\ c.root \in Roots /\ c.keyset \in Keysets \cup {None} /\ c.at \in 0 .. MaxStamps /\ c.mode \in Modes
        /\ TrustOf(c) \in Trusts
        /\ \A k \in Keysets \cup {None} : [c EXCEPT !.keyset = k] \in Configs
        /\ \A m \in Modes : [c EXCEPT !.mode = m] \in Configs
        /\ \A x \in Trusts \cup Served : Replacement(c, x) \in Configs
    /\ \A t \in Trusts :
        /\ t # None /\ t.root \in Roots /\ t.keyset \in Keysets \cup {None} /\ t.at \in 0 .. MaxStamps
        /\ Anchor(t) \in Anchors /\ Anchor(t) # None /\ Anchor(t).trust = t
        /\ \A c \in Configs : Journal(t, c) \in Anchors /\ IsJournal(Journal(t, c)) /\ Journal(t, c).trust = t
    /\ \A x \in Anchors : x # None /\ x.trust \in Trusts /\ x.from \in Configs \cup {None}
  <1> USE DEF TrustAssumption
  <1>1. ASSUME NEW c \in Configs PROVE
        /\ c # None /\ c.root \in Roots /\ c.keyset \in Keysets \cup {None} /\ c.at \in 0 .. MaxStamps /\ c.mode \in Modes
        /\ TrustOf(c) \in Trusts
    BY DEF Configs, Trusts, TrustOf
  <1>2. ASSUME NEW c \in Configs, NEW k \in Keysets \cup {None} PROVE [c EXCEPT !.keyset = k] \in Configs
    BY DEF Configs
  <1>3. ASSUME NEW c \in Configs, NEW m \in Modes PROVE [c EXCEPT !.mode = m] \in Configs
    BY DEF Configs
  <1>4. ASSUME NEW c \in Configs, NEW x \in Trusts \cup Served PROVE Replacement(c, x) \in Configs
    BY DEF Configs, Trusts, Served, Replacement, Modes
  <1>5. ASSUME NEW x \in Anchors PROVE x # None /\ x.trust \in Trusts /\ x.from \in Configs \cup {None}
    BY DEF Anchors
  <1>6. ASSUME NEW t \in Trusts PROVE
        /\ t # None /\ t.root \in Roots /\ t.keyset \in Keysets \cup {None} /\ t.at \in 0 .. MaxStamps
    BY DEF Trusts
  <1>7. ASSUME NEW t \in Trusts PROVE Anchor(t) \in Anchors /\ Anchor(t) # None /\ Anchor(t).trust = t
    BY DEF Anchors, Anchor
  <1>8. ASSUME NEW t \in Trusts, NEW c \in Configs PROVE
            Journal(t, c) \in Anchors /\ IsJournal(Journal(t, c)) /\ Journal(t, c).trust = t
    BY DEF Anchors, Journal, IsJournal
  <1> QED
    BY <1>1, <1>2, <1>3, <1>4, <1>5, <1>6, <1>7, <1>8

\* device.json as it is loaded is device.json but for its mode.
LEMMA ConfigIs ==
    ASSUME TrustAssumption, TypeOK
    PROVE /\ Config \in Configs \cup {None}
          /\ Config = None <=> file = None
          /\ file # None => Config.root = file.root /\ Config.keyset = file.keyset /\ Config.at = file.at
  <1>1. preference # None => preference.mode \in Modes
    BY DEF TypeOK, Modes
  <1>2. CASE file = None
    BY <1>2 DEF Config, Loaded
  <1>3. CASE file # None
    <2>1. file \in Configs
      BY <1>3 DEF TypeOK
    <2>2. CASE preference = None
      BY <1>3, <2>1, <2>2, Records DEF Config, Loaded
    <2>3. CASE preference # None
      <3> DEFINE m == IF preference.to = <<file.root, file.at>> THEN preference.mode ELSE "manual"
      <3>1. m \in Modes
        BY <1>1, <2>3 DEF Modes
      <3>2. Config = [file EXCEPT !.mode = m]
        BY <1>3, <2>3 DEF Config, Loaded
      <3>3. [file EXCEPT !.mode = m] \in Configs
        BY <2>1, <3>1, Records
      <3>4. [file EXCEPT !.mode = m].root = file.root /\ [file EXCEPT !.mode = m].keyset = file.keyset
            /\ [file EXCEPT !.mode = m].at = file.at
        BY <2>1 DEF Configs
      <3> HIDE DEF m
      <3> QED
        BY <1>3, <3>2, <3>3, <3>4, Records
    <2> QED
      BY <2>2, <2>3
  <1> QED
    BY <1>2, <1>3

LEMMA SlotIs ==
    ASSUME TrustAssumption, TypeOK
    PROVE Slot # None => Slot \in Anchors
  BY Records DEF TypeOK, Slot

-----------------------------------------------------------------------------
(* What an operation becomes.                                              *)

LEMMA ProcessRecords ==
    ASSUME TrustAssumption PROVE
    /\ Idle \in ProcessStates /\ Knows(Idle) /\ Idle.pc = "idle"
    /\ LET r == [Idle EXCEPT !.op = "open", !.pc = "client"] IN
       r \in ProcessStates /\ Knows(r) /\ r.pc = "client"
    /\ \A s \in ProcessStates :
        /\ s.op \in Ops \cup {None} /\ s.pick \in Picks /\ s.config \in Configs \cup {None}
  <1>0. 0 \in 0 .. MaxTime
    BY DEF TrustAssumption
  <1>1. Idle \in ProcessStates /\ Knows(Idle) /\ Idle.pc = "idle"
    <2>1. Idle \in ProcessStates
      BY <1>0 DEF Idle, ProcessStates, Picks, Steps
    <2>2. Knows(Idle) /\ Idle.pc = "idle"
      <3>1. None \notin {"install", "deliver", "prefer"}
        BY DEF TrustAssumption
      <3> QED
        BY <3>1 DEF Idle, Knows
    <2> QED
      BY <2>1, <2>2
  <1>2. [Idle EXCEPT !.op = "open", !.pc = "client"] \in ProcessStates
    BY <1>0 DEF Idle, ProcessStates, Picks, Steps, Ops
  <1>3. LET r == [Idle EXCEPT !.op = "open", !.pc = "client"] IN Knows(r) /\ r.pc = "client"
    BY DEF Idle, Knows
  <1>4. ASSUME NEW s \in ProcessStates PROVE
        /\ s.op \in Ops \cup {None} /\ s.pick \in Picks /\ s.config \in Configs \cup {None}
    BY DEF ProcessStates
  <1> QED
    BY <1>1, <1>2, <1>3, <1>4

-----------------------------------------------------------------------------
(* What an action must show of the operation it moves: the others keep what *)
(* they know, and nobody but the holder of the lock finishes a journal.     *)

\* The stored state, as TypeOK has it.
DiskOK ==
    /\ now \in 0 .. MaxTime
    /\ served \in Served
    /\ file \in Configs \cup {None}
    /\ preference \in [to : Roots \X (0 .. MaxStamps), mode : {"manual", "resume"}] \cup {None}
    /\ anchor \in Anchors \cup {None}
    /\ legacy \in Trusts \cup {None}
    /\ lock \in Processes \cup {None}
    /\ stamps \in 0 .. MaxStamps
    /\ faults \in 0 .. MaxFaults

\* Process p goes on to a sound state, and finishes a journal only if there is one.
Moves(p) ==
    \E r \in ProcessStates :
        Knows(r) /\ Become(p, r) /\ (lock' = p /\ r.pc \in {"resume", "confirm"} => IsJournal(anchor'))

\* The lock changes hands by p only, the anchor under p's lock or nobody else's.
Alone(p) == lock' \in {lock, p, None} /\ (anchor' = anchor \/ lock \in {p, None})

LEMMA Typed ==
    ASSUME TrustAssumption
    PROVE Types <=> DiskOK /\ proc \in [Processes -> ProcessStates]
  <1>1. ASSUME proc \in [Processes -> ProcessStates], NEW p \in Processes
        PROVE proc[p].config \in Configs \cup {None}
    BY <1>1, ProcessRecords
  <1> QED
    BY <1>1 DEF Types, TypeOK, DiskOK, Served

LEMMA MoveKeeps ==
    ASSUME TrustAssumption, IInv, NEW p \in Processes, Moves(p), Alone(p), DiskOK'
    PROVE IInv'
  <1>1. PICK r \in ProcessStates :
            Knows(r) /\ Become(p, r) /\ (lock' = p /\ r.pc \in {"resume", "confirm"} => IsJournal(anchor'))
    BY DEF Moves
  <1>2. proc \in [Processes -> ProcessStates]
    BY DEF IInv, Types
  <1>3. proc' \in [Processes -> ProcessStates] /\ proc'[p] = r
    BY <1>1, <1>2 DEF Become
  <1>4. \A q \in Processes \ {p} : proc'[q] = proc[q]
    BY <1>1, <1>2 DEF Become
  <1>5. \A q \in Processes : Knows(proc[q])' /\ Finishing(q)'
    <2> SUFFICES ASSUME NEW q \in Processes PROVE Knows(proc[q])' /\ Finishing(q)'
      OBVIOUS
    <2>1. CASE q = p
      BY <1>1, <1>3, <2>1 DEF Knows, Finishing, IsJournal
    <2>2. CASE q # p
      <3>1. Knows(proc[q])'
        BY <1>4, <2>2 DEF IInv, Processing, Knows
      <3>2. lock' = q => lock = q /\ anchor' = anchor
        BY <2>2 DEF Alone, TrustAssumption
      <3> QED
        BY <1>4, <2>2, <3>1, <3>2 DEF IInv, Processing, Finishing, IsJournal
    <2> QED
      BY <2>1, <2>2
  <1>6. Types'
    <2>1. \A q \in Processes : proc'[q].config \in Configs \cup {None}
      BY <1>3, ProcessRecords
    <2> QED
      BY <1>3, <2>1 DEF Types, TypeOK, DiskOK, Served
  <1> QED
    BY <1>5, <1>6 DEF IInv, Processing

LEMMA StillKeeps ==
    ASSUME TrustAssumption, IInv, DiskOK', UNCHANGED <<lock, proc>>,
           anchor' = anchor \/ lock = None \/ ~ IsJournal(anchor)
    PROVE IInv'
  <1>1. Types'
    BY DEF IInv, Types, TypeOK, DiskOK, Served
  <1>2. Processing'
    <2> SUFFICES ASSUME NEW q \in Processes PROVE Knows(proc[q])' /\ Finishing(q)'
      BY DEF Processing
    <2>1. Knows(proc[q])'
      BY DEF IInv, Processing, Knows
    <2>2. Finishing(q)'
      BY DEF IInv, Processing, Finishing, IsJournal, TrustAssumption
    <2> QED
      BY <2>1, <2>2
  <1> QED
    BY <1>1, <1>2 DEF IInv

-----------------------------------------------------------------------------
(* The steps that leave the anchor alone.                                  *)

\* The device's trust takes a step of DeviceTrust, or none.
Simulates == [T!TrustNext]_<<Trusted, now>>

LEMMA Still ==
    ASSUME UNCHANGED <<anchor, now>>
    PROVE Simulates
  BY DEF Simulates, Trusted

LEMMA Before == ASSUME TrustAssumption, IInv PROVE DiskOK /\ proc \in [Processes -> ProcessStates] /\ TypeOK
  BY Typed DEF IInv, Types

\* An operation goes on with the lock, or gives it up, and finishes no journal.
LEMMA Goes ==
    ASSUME TrustAssumption, IInv, NEW p \in Processes, NEW r \in ProcessStates,
           Knows(r), Become(p, r), r.pc \notin {"resume", "confirm"},
           lock' \in {lock, p, None}, UNCHANGED <<anchor, now>>, DiskOK'
    PROVE IInv' /\ Simulates
  BY MoveKeeps, Still DEF Moves, Alone

LEMMA Fails ==
    ASSUME TrustAssumption, IInv, NEW p \in Processes, Fail(p),
           UNCHANGED <<does, now, served>>, faults' \in 0 .. MaxFaults
    PROVE IInv' /\ Simulates
  <1>1. DiskOK'
    BY Before DEF DiskOK, Fail, Give, disk
  <1> QED
    BY <1>1, Goes, ProcessRecords DEF Fail, Give, disk

LEMMA FailsQuietly ==
    ASSUME TrustAssumption, IInv, NEW p \in Processes, Fail(p), Quiet
    PROVE IInv' /\ Simulates
  BY Before, Fails DEF Quiet, DiskOK

\* A new operation has its configuration, and what it is begun for.
LEMMA Begins ==
    ASSUME TrustAssumption, IInv, NEW p \in Processes, NEW op \in Ops,
           NEW pc \in {"wait", "prefer"}, NEW c \in Configs, NEW k \in Picks,
           Begin(p, op, pc, c, k),
           op = "install" => k \in Keysets,
           op = "deliver" => k \in Served,
           op = "prefer" => k \in {"manual", "resume"},
           pc = "prefer" => op = "prefer"
    PROVE IInv' /\ Simulates
  <1> DEFINE r == [op |-> op, pc |-> pc, config |-> c, pick |-> k,
                   since |-> IF op \in {"claim", "deliver"} THEN now ELSE 0]
  <1>1. now \in 0 .. MaxTime /\ 0 \in 0 .. MaxTime
    BY Before DEF DiskOK, TrustAssumption
  <1>2. r \in ProcessStates
    BY <1>1 DEF ProcessStates, Steps
  <1>3. Knows(r) /\ r.pc \notin {"resume", "confirm"}
    BY DEF Knows
  <1>4. Become(p, r)
    BY DEF Begin
  <1>5. DiskOK' /\ UNCHANGED <<lock, anchor, now>>
    BY Before DEF DiskOK, Begin, Quiet, disk
  <1> HIDE DEF r
  <1> QED
    BY <1>2, <1>3, <1>4, <1>5, Goes

LEMMA TakeStep ==
    ASSUME TrustAssumption, IInv, NEW p \in Processes, Take(p)
    PROVE IInv' /\ Simulates
  <1> DEFINE s == proc[p]
             r == [s EXCEPT !.pc = "held"]
  <1>1. s \in ProcessStates /\ Knows(s) /\ s.pc = "wait"
    BY Before DEF Take, IInv, Processing
  <1>2. s.config \in Configs
    BY <1>1 DEF Knows
  <1>3. r \in ProcessStates /\ r.op = s.op /\ r.pc = "held" /\ r.config = s.config /\ r.pick = s.pick
    BY <1>1, <1>2 DEF ProcessStates, Steps
  <1>4. Knows(r)
    BY <1>1, <1>2, <1>3 DEF Knows
  <1>5. DiskOK' /\ UNCHANGED <<anchor, now>> /\ lock' = p /\ Become(p, r)
    BY Before DEF DiskOK, Take, Quiet, disk
  <1> HIDE DEF r, s
  <1> QED
    BY <1>3, <1>4, <1>5, Goes

\* Go as Goes has it: operations between "held" and "finish" only change their step.
LEMMA GoesOn ==
    ASSUME TrustAssumption, IInv, NEW p \in Processes, NEW x \in Steps \ {"idle", "client", "prefer"},
           NEW c \in Configs, Go(p, x, c), x = "install" => proc[p].op = "install"
    PROVE \E r \in ProcessStates : Knows(r) /\ Become(p, r) /\ r.pc = x
  <1> DEFINE s == proc[p]
             r == [s EXCEPT !.pc = x, !.config = c]
  <1>1. s \in ProcessStates /\ Knows(s)
    BY Before DEF IInv, Processing
  <1>2. r \in ProcessStates /\ r.op = s.op /\ r.pc = x /\ r.config = c /\ r.pick = s.pick
    BY <1>1 DEF ProcessStates
  <1>3. Knows(r)
    BY <1>1, <1>2 DEF Knows
  <1>4. Become(p, r)
    BY DEF Go
  <1> HIDE DEF r, s
  <1> QED
    BY <1>2, <1>3, <1>4

LEMMA RereadStep ==
    ASSUME TrustAssumption, IInv, NEW p \in Processes, Reread(p)
    PROVE IInv' /\ Simulates
  <1>1. CASE Fail(p)
    BY <1>1, FailsQuietly DEF Reread
  <1>2. CASE file # None /\ Go(p, "recover", Config) /\ UNCHANGED <<disk, lock, stamps>>
    <2>1. Config \in Configs
      BY <1>2, Before, ConfigIs
    <2>2. PICK r \in ProcessStates : Knows(r) /\ Become(p, r) /\ r.pc = "recover"
      BY <1>2, <2>1, GoesOn DEF Steps
    <2>3. DiskOK' /\ UNCHANGED <<lock, anchor, now>>
      BY <1>2, Before DEF DiskOK, Reread, Quiet, disk
    <2> QED
      BY <2>2, <2>3, Goes
  <1> QED
    BY <1>1, <1>2 DEF Reread

\* The end of recoverEnrollmentLocked, with or without a step of the disk.
LEMMA RecoveredKeeps ==
    ASSUME TrustAssumption, IInv, NEW p \in Processes, NEW c \in Configs, Recovered(p, c)
    PROVE /\ lock' \in {lock, None}
          /\ \E r \in ProcessStates : Knows(r) /\ Become(p, r) /\ r.pc \notin {"resume", "confirm"}
  <1>1. proc[p] \in ProcessStates
    BY Before
  <1>2. CASE Become(p, [proc[p] EXCEPT !.op = "load", !.pc = "wait", !.config = c]) /\ Give(p)
    <2>1. LET r == [proc[p] EXCEPT !.op = "load", !.pc = "wait", !.config = c] IN
          r \in ProcessStates /\ Knows(r) /\ r.pc = "wait"
      BY <1>1 DEF ProcessStates, Ops, Steps, Knows
    <2> QED
      BY <1>2, <2>1 DEF Give
  <1>3. CASE proc[p].op = "install" /\ Go(p, "install", c) /\ UNCHANGED lock
    BY <1>3, GoesOn DEF Steps
  <1>4. CASE Become(p, Idle) /\ Give(p)
    BY <1>4, ProcessRecords DEF Give
  <1> QED
    BY <1>2, <1>3, <1>4 DEF Recovered

LEMMA OpenStep ==
    ASSUME TrustAssumption, IInv, NEW p \in Processes, Open(p)
    PROVE IInv' /\ Simulates
  <1>1. Config \in Configs
    BY Before, ConfigIs DEF Open
  <1> QED
    BY <1>1, Begins DEF Open, Ops, Picks

LEMMA RegisterStep ==
    ASSUME TrustAssumption, IInv, NEW p \in Processes, Register(p)
    PROVE IInv' /\ Simulates
  <1>1. Config \in Configs /\ served.keyset \in Keysets
    BY Before, ConfigIs DEF Register, DiskOK, Served
  <1> QED
    BY <1>1, Begins DEF Register, Ops, Picks

LEMMA PreferStep ==
    ASSUME TrustAssumption, IInv, NEW p \in Processes, Prefer(p)
    PROVE IInv' /\ Simulates
  <1>1. Config \in Configs
    BY Before, ConfigIs DEF Prefer
  <1>2. PICK m \in {"manual", "resume"} : Begin(p, "prefer", "prefer", Config, m)
    BY DEF Prefer
  <1> QED
    BY <1>1, <1>2, Begins DEF Ops, Picks

LEMMA DeliverStep ==
    ASSUME TrustAssumption, IInv, NEW p \in Processes, Deliver(p)
    PROVE IInv' /\ Simulates
  <1>1. Config \in Configs /\ served \in Served
    BY Before, ConfigIs DEF Deliver, Recoverable, DiskOK
  <1> QED
    BY <1>1, Begins DEF Deliver, Ops, Picks

LEMMA ReauthenticateStep ==
    ASSUME TrustAssumption, IInv, NEW p \in Processes, Reauthenticate(p)
    PROVE IInv' /\ Simulates
  <1> DEFINE c == IF Config.keyset = None THEN Config ELSE [Config EXCEPT !.keyset = served.keyset]
             k == IF Config.keyset \in {None, served.keyset} THEN None ELSE served.keyset
  <1>1. Config \in Configs /\ served.keyset \in Keysets
    BY Before, ConfigIs DEF Reauthenticate, DiskOK, Served
  <1>2. c \in Configs /\ k \in Picks
    BY <1>1, Records DEF Picks
  <1>3. Begin(p, "restore", "wait", c, k)
    BY DEF Reauthenticate
  <1> HIDE DEF c, k
  <1> QED
    BY <1>2, <1>3, Begins DEF Ops

LEMMA CloseStep ==
    ASSUME TrustAssumption, IInv, NEW p \in Processes, Close(p)
    PROVE IInv' /\ Simulates
  BY FailsQuietly DEF Close

LEMMA StopStep ==
    ASSUME TrustAssumption, IInv, NEW p \in Processes, Stop(p)
    PROVE IInv' /\ Simulates
  <1>1. faults' \in 0 .. MaxFaults
    BY Before DEF Stop, DiskOK, TrustAssumption
  <1> QED
    BY <1>1, Fails DEF Stop

LEMMA ClaimStep ==
    ASSUME TrustAssumption, IInv, NEW p \in Processes, Claim(p)
    PROVE IInv' /\ Simulates
  <1> DEFINE c == [root |-> served.root, keyset |-> served.keyset, at |-> Stamp, mode |-> None]
             r == [op |-> "claim", pc |-> "wait", config |-> c, pick |-> None, since |-> now]
  <1>0. stamps' \in 0 .. MaxStamps
    BY Before DEF Claim, DiskOK, TrustAssumption
  <1>1. Stamp \in 0 .. MaxStamps
    <2>1. CASE file = None
      BY <2>1, Before DEF Claim, Stamp, DiskOK, TrustAssumption
    <2>2. CASE file # None
      BY <2>2, Before, Records DEF Stamp, DiskOK
    <2> QED
      BY <2>1, <2>2
  <1>2. c \in Configs
    BY <1>1, Before DEF Configs, Modes, DiskOK, Served
  <1>3. r \in ProcessStates
    BY <1>2, Before DEF ProcessStates, Ops, Steps, Picks, DiskOK
  <1>4. Knows(r) /\ r.pc = "wait"
    BY <1>2 DEF Knows
  <1>5. Become(p, r) /\ UNCHANGED <<lock, anchor, now>>
    BY DEF Claim, disk, Quiet
  <1>6. DiskOK'
    BY <1>0, Before DEF Claim, DiskOK, disk, Quiet
  <1> HIDE DEF r, c
  <1> QED
    BY <1>3, <1>4, <1>5, <1>6, Goes

LEMMA BootstrapStep ==
    ASSUME TrustAssumption, IInv, NEW p \in Processes, Bootstrap(p)
    PROVE IInv' /\ Simulates
  <1> DEFINE R(c) == [op |-> "bootstrap", pc |-> "write", pick |-> None, since |-> 0, config |-> c]
  <1>0. 0 \in 0 .. MaxTime /\ served.keyset \in Keysets /\ served.root \in Roots
    BY Before DEF DiskOK, TrustAssumption, Served
  <1>1. ASSUME NEW c \in Configs PROVE R(c) \in ProcessStates /\ Knows(R(c)) /\ R(c).pc = "write"
    BY <1>0 DEF ProcessStates, Ops, Steps, Picks, Knows
  <1>2. \E c \in Configs : Become(p, R(c))
    <2>1. CASE file = None
      <3>1. stamps + 1 \in 0 .. MaxStamps
        BY <2>1, Before DEF Bootstrap, DiskOK, TrustAssumption
      <3>2. \A m \in Modes : [root |-> served.root, keyset |-> served.keyset, at |-> stamps + 1, mode |-> m] \in Configs
        BY <1>0, <3>1 DEF Configs
      <3>3. PICK m \in Modes :
                Become(p, R([root |-> served.root, keyset |-> served.keyset, at |-> stamps + 1, mode |-> m]))
        BY <2>1 DEF Bootstrap
      <3> QED
        BY <3>2, <3>3
    <2>2. CASE file # None
      <3>1. Config \in Configs
        BY <2>2, Before, ConfigIs
      <3>2. [Config EXCEPT !.keyset = served.keyset] \in Configs
        BY <1>0, <3>1, Records
      <3>3. Become(p, R([Config EXCEPT !.keyset = served.keyset]))
        BY <2>2 DEF Bootstrap
      <3> QED
        BY <3>2, <3>3
    <2> QED
      BY <2>1, <2>2
  <1>3. UNCHANGED <<lock, anchor, now>>
    BY DEF Bootstrap, disk, Quiet
  <1>4. DiskOK'
    BY Before DEF Bootstrap, DiskOK, disk, Quiet, TrustAssumption
  <1> HIDE DEF R
  <1> QED
    BY <1>1, <1>2, <1>3, <1>4, Goes

\* Behind the idle ones, every operation has its configuration.
LEMMA Running ==
    ASSUME TrustAssumption, IInv, NEW p \in Processes, proc[p].pc \notin {"idle", "client"}
    PROVE proc[p].config \in Configs
  BY DEF IInv, Processing, Knows

LEMMA AgreeStep ==
    ASSUME TrustAssumption, IInv, NEW p \in Processes, Agree(p)
    PROVE IInv' /\ Simulates
  <1>1. proc[p].config \in Configs
    BY Running DEF Agree, Under
  <1>2. DiskOK' /\ UNCHANGED <<anchor, now>>
    <2>1. lock' \in {lock, None}
      BY <1>1, RecoveredKeeps DEF Agree
    <2> QED
      BY <2>1, Before DEF Agree, DiskOK, Quiet, disk
  <1> QED
    BY <1>1, <1>2, RecoveredKeeps, Goes DEF Agree

LEMMA CatchUpStep ==
    ASSUME TrustAssumption, IInv, NEW p \in Processes, CatchUp(p)
    PROVE IInv' /\ Simulates
  <1> DEFINE next == [proc[p].config EXCEPT !.keyset = anchor.trust.keyset]
  <1>1. proc[p].config \in Configs
    BY Running DEF CatchUp, Under
  <1>2. anchor.trust.keyset \in Keysets \cup {None}
    BY Before, Records DEF CatchUp, DiskOK
  <1>3. next \in Configs
    BY <1>1, <1>2, Records
  <1>4. Recovered(p, next) /\ file' = next
    BY DEF CatchUp
  <1>5. DiskOK' /\ UNCHANGED <<anchor, now>>
    <2>1. lock' \in {lock, None}
      BY <1>3, <1>4, RecoveredKeeps
    <2> HIDE DEF next
    <2> QED
      BY <1>3, <1>4, <2>1, Before DEF CatchUp, DiskOK, Quiet
  <1> HIDE DEF next
  <1> QED
    BY <1>3, <1>4, <1>5, RecoveredKeeps, Goes

LEMMA UnverifiedStep ==
    ASSUME TrustAssumption, IInv, NEW p \in Processes, Unverified(p)
    PROVE IInv' /\ Simulates
  BY FailsQuietly DEF Unverified

LEMMA ResumesStep ==
    ASSUME TrustAssumption, IInv, NEW p \in Processes, Resumes(p)
    PROVE IInv' /\ Simulates
  <1>1. CASE Fail(p)
    BY <1>1, FailsQuietly DEF Resumes
  <1>2. CASE Go(p, "resume", proc[p].config) /\ UNCHANGED <<disk, lock, stamps>>
    <2>1. proc[p].config \in Configs
      BY Running DEF Resumes, Under
    <2>2. Moves(p)
      <3>1. PICK r \in ProcessStates : Knows(r) /\ Become(p, r) /\ r.pc = "resume"
        BY <1>2, <2>1, GoesOn DEF Steps
      <3> QED
        BY <1>2, <3>1 DEF Resumes, Moves, disk, IsJournal
    <2>3. Alone(p) /\ UNCHANGED <<anchor, now>> /\ DiskOK'
      BY <1>2, Before DEF Resumes, Alone, DiskOK, Quiet, disk
    <2> QED
      BY <2>2, <2>3, MoveKeeps, Still
  <1> QED
    BY <1>1, <1>2 DEF Resumes

LEMMA ReplaceStep ==
    ASSUME TrustAssumption, IInv, NEW p \in Processes, Replace(p)
    PROVE IInv' /\ Simulates
  <1>1. proc[p].config \in Configs
    BY Running DEF Replace, Under
  <1>2. DiskOK' /\ UNCHANGED <<anchor, now>> /\ lock' \in {lock, None}
    BY <1>1, Before DEF Replace, Give, DiskOK, Quiet
  <1> QED
    BY <1>2, ProcessRecords, Goes DEF Replace, Client

LEMMA LoadStep ==
    ASSUME TrustAssumption, IInv, NEW p \in Processes, Load(p)
    PROVE IInv' /\ Simulates
  <1>1. CASE Fail(p)
    BY <1>1, FailsQuietly DEF Load
  <1>2. CASE Client(p) /\ Give(p) /\ UNCHANGED <<disk, stamps>>
    <2>1. DiskOK' /\ UNCHANGED <<anchor, now>> /\ lock' \in {lock, None}
      BY <1>2, Before DEF Load, Give, DiskOK, Quiet, disk
    <2> QED
      BY <1>2, <2>1, ProcessRecords, Goes DEF Client
  <1> QED
    BY <1>1, <1>2 DEF Load

LEMMA WriteStep ==
    ASSUME TrustAssumption, IInv, NEW p \in Processes, Write(p)
    PROVE IInv' /\ Simulates
  <1>1. proc[p].config \in Configs /\ proc[p] \in ProcessStates /\ Knows(proc[p])
    BY Running, Before DEF Write, IInv, Processing
  <1>2. CASE Fail(p)
    BY <1>2, FailsQuietly DEF Write
  <1>3. CASE ~ Fail(p)
    <2>1. DiskOK' /\ UNCHANGED <<anchor, now, lock>>
      BY <1>1, <1>3, Before DEF Write, DiskOK, Quiet
    <2>2. \E r \in ProcessStates : Knows(r) /\ Become(p, r) /\ r.pc \notin {"resume", "confirm"}
      <3> DEFINE r == [proc[p] EXCEPT !.pc = "wait"]
      <3>1. r \in ProcessStates /\ r.op = proc[p].op /\ r.pc = "wait" /\ r.config = proc[p].config
            /\ r.pick = proc[p].pick
        BY <1>1 DEF ProcessStates, Steps
      <3>2. Knows(r)
        BY <1>1, <3>1 DEF Knows
      <3>3. Become(p, r) \/ Become(p, Idle)
        BY <1>3 DEF Write
      <3> HIDE DEF r
      <3> QED
        BY <3>1, <3>2, <3>3, ProcessRecords
    <2> QED
      BY <2>1, <2>2, Goes
  <1> QED
    BY <1>2, <1>3

LEMMA SavePreferenceStep ==
    ASSUME TrustAssumption, IInv, NEW p \in Processes, SavePreference(p)
    PROVE IInv' /\ Simulates
  <1> DEFINE c == proc[p].config
             mode == IF proc[p].op = "prefer" THEN proc[p].pick ELSE c.mode
  <1>1. c \in Configs
    BY Running DEF SavePreference
  <1>2. mode \in {"manual", "resume"}
    BY <1>1, Records DEF SavePreference, IInv, Processing, Knows, Modes
  <1>3. preference' \in [to : Roots \X (0 .. MaxStamps), mode : {"manual", "resume"}] \cup {None}
    <2>1. preference' = preference \/ preference' = [to |-> <<c.root, c.at>>, mode |-> mode]
      BY DEF SavePreference
    <2>2. c.root \in Roots /\ c.at \in 0 .. MaxStamps
      BY <1>1, Records
    <2> HIDE DEF c, mode
    <2> QED
      BY <1>2, <2>1, <2>2, Before DEF DiskOK
  <1>4. DiskOK' /\ UNCHANGED <<anchor, now, lock>>
    BY <1>3, Before DEF SavePreference, DiskOK, Quiet
  <1> QED
    BY <1>4, ProcessRecords, Goes DEF SavePreference

LEMMA FinishStep ==
    ASSUME TrustAssumption, IInv, NEW p \in Processes, Finish(p)
    PROVE IInv' /\ Simulates
  <1>1. CASE Fail(p)
    BY <1>1, FailsQuietly DEF Finish
  <1>2. CASE Config = proc[p].config /\ Recovered(p, Config) /\ UNCHANGED <<disk, stamps>>
    <2>1. Config \in Configs
      BY <1>2, Running DEF Finish, Under
    <2>2. DiskOK' /\ UNCHANGED <<anchor, now>>
      <3>1. lock' \in {lock, None}
        BY <1>2, <2>1, RecoveredKeeps
      <3> QED
        BY <1>2, <3>1, Before DEF Finish, DiskOK, Quiet, disk
    <2> QED
      BY <1>2, <2>1, <2>2, RecoveredKeeps, Goes
  <1> QED
    BY <1>1, <1>2 DEF Finish

-----------------------------------------------------------------------------
(* The steps that write the anchor, and what DeviceTrust makes of them.    *)

\* A device without an anchor of its own gets one.
LEMMA Enrolls ==
    ASSUME TrustAssumption, anchor = None, anchor' \in Anchors, UNCHANGED now
    PROVE Simulates
  <1>1. anchor'.trust \in Trusts /\ anchor' # None
    BY Records
  <1> QED
    BY <1>1 DEF Simulates, Trusted, Trusts, T!TrustNext, T!Enroll

\* The keyset of the same enrollment is followed by a verified one.
LEMMA Renews ==
    ASSUME TrustAssumption, anchor \in Anchors, NEW c \in Configs, SameBase(anchor.trust, c), Behind(c),
           anchor' = Anchor(TrustOf(c)), UNCHANGED now
    PROVE Simulates
  <1> DEFINE t == anchor.trust
  <1>1. t \in Trusts /\ Trusted = t /\ t # None
    BY Records DEF Trusted
  <1>2. Trusted' = TrustOf(c)
    BY Records DEF Trusted
  <1>3. TrustOf(c) = [t EXCEPT !.keyset = c.keyset]
    BY <1>1 DEF TrustOf, SameBase, Trusts
  <1>4. c.keyset \in Keysets
    BY Records DEF Behind
  <1>5. IF t.keyset = None THEN T!Initial(t.root, c.keyset) ELSE T!Successor(t.root, t.keyset, c.keyset)
    BY DEF Behind, SameBase, T!Transition, T!Successor
  <1>6. T!Renew
    <2> HIDE DEF t
    <2> QED
      BY <1>1, <1>2, <1>3, <1>4, <1>5 DEF T!Renew
  <1> QED
    BY <1>6 DEF Simulates, T!TrustNext

LEMMA Admitted ==
    ASSUME TrustAssumption, IInv, NEW c \in Configs, Admits(c), anchor' = Anchor(TrustOf(c)), UNCHANGED now
    PROVE Simulates /\ anchor' \in Anchors
  <1>1. TrustOf(c) \in Trusts /\ anchor' \in Anchors /\ anchor'.trust = TrustOf(c) /\ anchor' # None
    BY Records
  <1>2. CASE anchor = None
    BY <1>1, <1>2, Enrolls
  <1>3. CASE anchor # None /\ SameBase(anchor.trust, c) /\ anchor.trust.keyset = c.keyset
    <2>1. anchor.trust \in Trusts
      BY <1>3, Before, Records DEF DiskOK
    <2>2. anchor.trust = TrustOf(c)
      BY <1>3, <2>1 DEF TrustOf, SameBase, Trusts
    <2> QED
      BY <1>1, <1>3, <2>2 DEF Simulates, Trusted
  <1>4. CASE anchor # None /\ SameBase(anchor.trust, c) /\ Behind(c)
    BY <1>1, <1>4, Before, Renews DEF DiskOK
  <1> QED
    BY <1>1, <1>2, <1>3, <1>4 DEF Admits

LEMMA MigrateStep ==
    ASSUME TrustAssumption, IInv, NEW p \in Processes, Migrate(p)
    PROVE IInv' /\ Simulates
  <1>1. CASE Fail(p)
    BY <1>1, FailsQuietly DEF Migrate
  <1>2. CASE anchor' = Anchor(legacy) /\ UNCHANGED <<file, preference, legacy, lock, proc, stamps>>
    <2>1. anchor = None /\ anchor' \in Anchors
      BY <1>2, Before, Records DEF Migrate, DiskOK
    <2>2. DiskOK' /\ UNCHANGED now /\ ~ IsJournal(anchor)
      BY <1>2, <2>1, Before DEF Migrate, DiskOK, Quiet, IsJournal
    <2> QED
      BY <1>2, <2>1, <2>2, Enrolls, StillKeeps
  <1> QED
    BY <1>1, <1>2 DEF Migrate

LEMMA SaveAheadStep ==
    ASSUME TrustAssumption, IInv, NEW p \in Processes, SaveAhead(p)
    PROVE IInv' /\ Simulates
  <1> DEFINE c == proc[p].config
  <1>1. c \in Configs
    BY Running DEF SaveAhead, Under
  <1>2. Simulates /\ anchor' \in Anchors
    <2>1. anchor \in Anchors
      BY Before DEF SaveAhead, DiskOK
    <2> QED
      BY <1>1, <2>1, Records, Renews DEF SaveAhead, Quiet
  <1>3. Recovered(p, c) /\ lock = p
    BY DEF SaveAhead, Under
  <1>4. DiskOK' /\ Alone(p)
    <2>1. lock' \in {lock, None}
      BY <1>1, <1>3, RecoveredKeeps
    <2> QED
      BY <1>2, <1>3, <2>1, Before DEF SaveAhead, DiskOK, Quiet, Alone
  <1>5. Moves(p)
    BY <1>1, <1>3, RecoveredKeeps DEF Moves
  <1> QED
    BY <1>2, <1>4, <1>5, MoveKeeps

LEMMA InstallStep ==
    ASSUME TrustAssumption, IInv, NEW p \in Processes, Install(p)
    PROVE IInv' /\ Simulates
  <1> DEFINE next == [proc[p].config EXCEPT !.keyset = proc[p].pick]
  <1>1. proc[p].config \in Configs /\ lock = p
    BY Running DEF Install, Under
  <1>2. CASE Fail(p)
    BY <1>2, FailsQuietly DEF Install
  <1>3. CASE Client(p) /\ Give(p) /\ UNCHANGED <<disk, stamps>>
    <2>1. DiskOK' /\ UNCHANGED <<anchor, now>> /\ lock' \in {lock, None}
      BY <1>3, Before DEF Install, Give, DiskOK, Quiet, disk
    <2> QED
      BY <1>3, <2>1, ProcessRecords, Goes DEF Client
  <1>4. CASE /\ T!Transition(proc[p].config.root, proc[p].config.keyset, proc[p].pick) /\ Admits(next)
             /\ anchor' = Anchor(TrustOf(next))
             /\ Go(p, "replace", next)
             /\ UNCHANGED <<file, preference, legacy, lock, stamps>>
    <2>1. proc[p].pick \in Keysets
      BY DEF Install, Under, IInv, Processing, Knows
    <2>2. next \in Configs
      BY <1>1, <2>1, Records
    <2> HIDE DEF next
    <2>3. Simulates /\ anchor' \in Anchors
      BY <1>4, <2>2, Admitted DEF Install, Quiet
    <2>4. Moves(p)
      BY <1>4, <2>2, GoesOn DEF Moves, Steps
    <2>5. DiskOK' /\ Alone(p)
      BY <1>1, <1>4, <2>3, Before DEF Install, DiskOK, Quiet, Alone
    <2> QED
      BY <2>3, <2>4, <2>5, MoveKeeps
  <1> QED
    BY <1>2, <1>3, <1>4 DEF Install

\* Save, when it writes the anchor, under the lock that it then gives up.
LEMMA SaveStep ==
    ASSUME TrustAssumption, IInv, NEW p \in Processes, Save(p)
    PROVE IInv' /\ Simulates
  <1> DEFINE c == proc[p].config
  <1>1. c \in Configs /\ lock = p
    BY Running DEF Save, Under
  <1>2. CASE Fail(p)
    BY <1>2, FailsQuietly DEF Save
  <1>3. CASE ~ Fail(p)
    <2>1. /\ IF proc[p].op = "restore" THEN Slot = None ELSE Admits(c)
          /\ anchor' = Anchor(TrustOf(c))
          /\ \/ Go(p, "write", c)
             \/ c.mode # None /\ Go(p, "prefer", c)
             \/ Become(p, Idle)
          /\ Give(p)
          /\ UNCHANGED <<file, preference, legacy, stamps, now, served, faults>>
      BY <1>3 DEF Save, Quiet
    <2>2. Simulates /\ anchor' \in Anchors
      <3>1. anchor' \in Anchors
        BY <1>1, <2>1, Records
      <3>2. CASE Slot = None
        <4>1. anchor = None
          BY <3>2, Before, Records DEF Slot, DiskOK
        <4> QED
          BY <2>1, <3>1, <4>1, Enrolls
      <3>3. CASE Admits(c)
        BY <1>1, <2>1, <3>3, Admitted
      <3> QED
        BY <2>1, <3>1, <3>2, <3>3
    <2>3. lock' = None
      BY <1>1, <2>1 DEF Give
    <2>4. Moves(p)
      <3>1. CASE Go(p, "write", c)
        BY <1>1, <2>3, <3>1, GoesOn DEF Moves, Steps
      <3>2. CASE c.mode # None /\ Go(p, "prefer", c)
        <4> DEFINE s == proc[p]
                   r == [s EXCEPT !.pc = "prefer", !.config = c]
        <4>1. s \in ProcessStates /\ Knows(s)
          BY Before DEF IInv, Processing
        <4>2. r \in ProcessStates /\ r.op = s.op /\ r.pc = "prefer" /\ r.config = c /\ r.pick = s.pick
          BY <1>1, <4>1 DEF ProcessStates, Steps
        <4>3. Knows(r) /\ Become(p, r)
          BY <1>1, <3>2, <4>1, <4>2 DEF Knows, Go
        <4> HIDE DEF r, s
        <4> QED
          BY <4>2, <4>3 DEF Moves
      <3>3. CASE Become(p, Idle)
        BY <3>3, ProcessRecords DEF Moves
      <3> QED
        BY <2>1, <3>1, <3>2, <3>3
    <2>5. DiskOK' /\ Alone(p)
      BY <1>1, <2>1, <2>2, <2>3, Before DEF DiskOK, Alone
    <2> QED
      BY <2>2, <2>4, <2>5, MoveKeeps
  <1> QED
    BY <1>2, <1>3

\* What a recovery makes of a trust.
LEMMA Recovery ==
    ASSUME NEW t \in Trusts, NEW r \in Roots, NEW k \in Keysets
    PROVE [t EXCEPT !.root = r, !.keyset = k] = [root |-> r, keyset |-> k, at |-> t.at]
  <1> DEFINE v == [t EXCEPT !.root = r, !.keyset = k]
  <1>1. v \in [root : Roots, keyset : Keysets \cup {None}, at : 0 .. MaxStamps]
    BY DEF Trusts
  <1>2. v.root = r /\ v.keyset = k /\ v.at = t.at
    BY DEF Trusts
  <1> HIDE DEF v
  <1>3. v = [root |-> v.root, keyset |-> v.keyset, at |-> v.at]
    BY <1>1
  <1> QED
    BY <1>2, <1>3 DEF v

\* The journal of a recovery replaces the trust of a keyset that has expired.
LEMMA CommitStep ==
    ASSUME TrustAssumption, IInv, NEW p \in Processes, Commit(p)
    PROVE IInv' /\ Simulates
  <1> DEFINE c == proc[p].config
             x == proc[p].pick
             next == Replacement(c, x)
  <1>1. c \in Configs /\ lock = p /\ x \in Served
    BY Running DEF Commit, Under, IInv, Processing, Knows
  <1>2. CASE Fail(p)
    BY <1>2, FailsQuietly DEF Commit
  <1>3. CASE ~ Fail(p)
    <2>1. /\ Recoverable(c) /\ Candidate(c, x.root, x.keyset)
          /\ anchor' = Journal(TrustOf(next), c)
          /\ Go(p, "resume", c)
          /\ UNCHANGED <<file, preference, legacy, lock, stamps, now, served, faults>>
      BY <1>3 DEF Commit, Quiet
    <2>2. next \in Configs
      BY <1>1, Records
    <2>3. /\ anchor' \in Anchors /\ IsJournal(anchor') /\ anchor'.trust = TrustOf(next) /\ anchor' # None
      BY ZenonT(60), <1>1, <2>1, <2>2, Records DEF IsJournal
    <2>4. Simulates
      <3>1. CASE anchor = None
        BY <2>1, <2>3, <3>1, Enrolls
      <3>2. CASE anchor # None
        <4> DEFINE t == anchor.trust
        <4>1. t \in Trusts /\ t # None /\ Trusted = t /\ t = TrustOf(c) /\ t.keyset # None /\ ~ T!Live(t.keyset)
          BY <1>1, <2>1, <3>2, Before, Records DEF DiskOK, Trusted, Recoverable, Slot, TrustOf
        <4>2. t.root = c.root /\ t.keyset = c.keyset
          BY <4>1 DEF TrustOf
        <4>3. Trusted' = TrustOf(next)
          BY <2>3 DEF Trusted
        <4>4. TrustOf(next) = [t EXCEPT !.root = x.root, !.keyset = x.keyset]
          <5>1. next.root = x.root /\ next.keyset = x.keyset /\ next.at = c.at
            BY <1>1 DEF Replacement, Configs
          <5>2. t.at = c.at
            BY <4>1 DEF TrustOf
          <5> HIDE DEF t, next, x
          <5>3. [t EXCEPT !.root = x.root, !.keyset = x.keyset]
                = [root |-> x.root, keyset |-> x.keyset, at |-> t.at]
            BY <1>1, <4>1, Recovery DEF Served
          <5>4. TrustOf(next) = [root |-> x.root, keyset |-> x.keyset, at |-> t.at]
            BY <5>1, <5>2 DEF TrustOf
          <5> QED
            BY <5>3, <5>4
        <4>5. x.root \in Roots \ {t.root} /\ x.keyset \in Keysets /\ T!Initial(x.root, x.keyset)
              /\ x.keyset.gen = t.keyset.gen + 1
          BY <1>1, <2>1, <4>2 DEF Candidate, Served
        <4>6. T!Replace
          <5> HIDE DEF t, next, x
          <5> QED
            BY <2>1, <4>1, <4>3, <4>4, <4>5 DEF T!Replace
        <4> QED
          BY <4>6 DEF Simulates, T!TrustNext
      <3> QED
        BY <3>1, <3>2
    <2>5. Moves(p)
      BY <1>1, <2>1, <2>3, GoesOn DEF Moves, Steps
    <2>6. DiskOK' /\ Alone(p)
      BY <1>1, <2>1, <2>3, Before DEF DiskOK, Alone
    <2> QED
      BY <2>4, <2>5, <2>6, MoveKeeps
  <1> QED
    BY <1>2, <1>3

\* Whoever finishes a journal under the lock finds one.
LEMMA Finds ==
    ASSUME TrustAssumption, IInv, NEW p \in Processes, lock = p, proc[p].pc \in {"resume", "confirm"}
    PROVE IsJournal(anchor) /\ anchor \in Anchors /\ anchor.from \in Configs /\ anchor.trust \in Trusts
  <1>1. IsJournal(anchor)
    BY DEF IInv, Processing, Finishing
  <1>2. anchor \in Anchors
    BY <1>1, Before DEF IsJournal, DiskOK
  <1> QED
    BY <1>1, <1>2, Records DEF IsJournal

LEMMA ResumeStep ==
    ASSUME TrustAssumption, IInv, NEW p \in Processes, Resume(p)
    PROVE IInv' /\ Simulates
  <1> DEFINE next == Replacement(anchor.from, anchor.trust)
  <1>1. proc[p].config \in Configs /\ lock = p
    BY Running DEF Resume, Under
  <1>2. CASE Fail(p)
    BY <1>2, FailsQuietly DEF Resume
  <1>3. CASE ~ Fail(p)
    <2>1. /\ file' \in {file, next}
          /\ Go(p, "confirm", proc[p].config)
          /\ UNCHANGED <<preference, anchor, legacy, lock, stamps, now, served, faults>>
      BY <1>3 DEF Resume, Quiet
    <2>2. IsJournal(anchor) /\ next \in Configs
      BY Finds, Records DEF Resume, Under
    <2>3. Moves(p)
      BY <1>1, <2>1, <2>2, GoesOn DEF Moves, Steps, IsJournal
    <2>4. DiskOK' /\ Alone(p)
      BY <2>1, <2>2, Before DEF DiskOK, Alone
    <2> QED
      BY <2>1, <2>3, <2>4, MoveKeeps, Still
  <1> QED
    BY <1>2, <1>3

LEMMA ConfirmStep ==
    ASSUME TrustAssumption, IInv, NEW p \in Processes, Confirm(p)
    PROVE IInv' /\ Simulates
  <1>1. lock = p
    BY DEF Confirm, Under
  <1>2. CASE Fail(p)
    BY <1>2, FailsQuietly DEF Confirm
  <1>3. CASE ~ Fail(p)
    <2>1. /\ Config # None
          /\ anchor' = Anchor(anchor.trust)
          /\ Go(p, "finish", Config)
          /\ UNCHANGED <<file, preference, legacy, lock, stamps, now, served, faults>>
      BY <1>3 DEF Confirm, IsNext, Quiet
    <2>2. anchor # None /\ anchor' \in Anchors /\ anchor' # None /\ anchor'.trust = anchor.trust
      BY <2>1, Finds, Records DEF Confirm, Under, IsJournal
    <2>3. Simulates
      BY <2>1, <2>2 DEF Simulates, Trusted
    <2>4. Config \in Configs
      BY <2>1, Before, ConfigIs
    <2>5. Moves(p)
      BY <2>1, <2>4, GoesOn DEF Moves, Steps
    <2>6. DiskOK' /\ Alone(p)
      BY <1>1, <2>1, <2>2, Before DEF DiskOK, Alone
    <2> QED
      BY <2>3, <2>5, <2>6, MoveKeeps
  <1> QED
    BY <1>2, <1>3

-----------------------------------------------------------------------------
(* The store, HQ and the clock.                                            *)

LEMMA LoseStoreStep ==
    ASSUME TrustAssumption, IInv, LoseStore
    PROVE IInv' /\ Simulates
  <1>1. DiskOK' /\ lock = None /\ UNCHANGED <<lock, proc>>
    BY Before DEF LoseStore, DiskOK, TrustAssumption
  <1>2. Simulates
    BY DEF LoseStore, Simulates, Trusted, T!TrustNext, T!Lose
  <1> QED
    BY <1>1, <1>2, StillKeeps

LEMMA RotateStep ==
    ASSUME TrustAssumption, IInv, Rotate
    PROVE IInv' /\ Simulates
  <1>1. served' \in Served
    BY DEF Rotate, Served
  <1>2. DiskOK' /\ UNCHANGED <<lock, proc, anchor, now>>
    BY <1>1, Before DEF Rotate, DiskOK, disk
  <1> QED
    BY <1>2, StillKeeps, Still

LEMMA TickStep ==
    ASSUME TrustAssumption, IInv, Tick
    PROVE IInv' /\ Simulates
  <1>1. DiskOK' /\ UNCHANGED <<lock, proc, anchor>>
    BY Before DEF Tick, DiskOK, disk, TrustAssumption
  <1>2. Simulates
    BY DEF Tick, disk, Simulates, Trusted, T!TrustNext, T!Tick
  <1> QED
    BY <1>1, <1>2, StillKeeps

-----------------------------------------------------------------------------
LEMMA InitHolds == ASSUME TrustAssumption, Init PROVE IInv /\ T!TrustInit
  <1> USE DEF TrustAssumption
  <1>1. served \in Served /\ 0 \in 0 .. MaxTime /\ 0 \in 0 .. MaxStamps /\ 0 \in 0 .. MaxFaults
    BY DEF Init, Served
  <1>2. /\ file \in Configs \cup {None}
        /\ legacy \in Trusts \cup {None}
        /\ anchor = None \/ \E t \in Trusts : anchor = Anchor(t)
    <2>1. CASE file = None /\ anchor = None /\ legacy = None
      BY <2>1
    <2>2. CASE \E k \in {served.keyset, None}, m \in {None, "resume"} :
             LET c == [root |-> served.root, keyset |-> k, at |-> 0, mode |-> m] IN
             /\ file = c
             /\ \/ anchor = Anchor(TrustOf(c)) /\ legacy = None
                \/ anchor = None /\ legacy \in {TrustOf(c), None}
      <3>1. PICK k \in {served.keyset, None}, m \in {None, "resume"} :
             LET c == [root |-> served.root, keyset |-> k, at |-> 0, mode |-> m] IN
             /\ file = c
             /\ \/ anchor = Anchor(TrustOf(c)) /\ legacy = None
                \/ anchor = None /\ legacy \in {TrustOf(c), None}
        BY <2>2
      <3> DEFINE c == [root |-> served.root, keyset |-> k, at |-> 0, mode |-> m]
      <3>2. c \in Configs
        BY <1>1 DEF Configs, Modes, Served
      <3>3. TrustOf(c) \in Trusts
        BY <3>2, Records
      <3>4. file = c /\ ((anchor = Anchor(TrustOf(c)) /\ legacy = None) \/ (anchor = None /\ legacy \in {TrustOf(c), None}))
        BY <3>1
      <3> HIDE DEF c
      <3> QED
        BY <3>2, <3>3, <3>4
    <2> QED
      BY <2>1, <2>2 DEF Init
  <1>3. anchor \in Anchors \cup {None}
    BY <1>2, Records
  <1>4. DiskOK
    BY <1>1, <1>2, <1>3 DEF Init, DiskOK
  <1>5. proc \in [Processes -> ProcessStates] /\ \A p \in Processes : proc[p] = Idle
    BY ProcessRecords DEF Init
  <1>6. Processing
    BY <1>5, ProcessRecords DEF Init, Processing, Finishing
  <1>7. T!TrustInit
    <2>1. CASE anchor = None
      BY <2>1 DEF T!TrustInit, Trusted
    <2>2. CASE anchor # None
      BY <1>3, <2>2, Records DEF T!TrustInit, Trusted, Trusts
    <2> QED
      BY <2>1, <2>2
  <1> QED
    BY <1>4, <1>5, <1>6, <1>7, Typed DEF IInv

LEMMA NextHolds == ASSUME TrustAssumption, IInv, [Next]_vars PROVE IInv' /\ Simulates
  <1>1. CASE UNCHANGED vars
    <2>1. DiskOK' /\ UNCHANGED <<lock, proc, anchor, now>>
      BY <1>1, Before DEF vars, disk, DiskOK
    <2> QED
      BY <2>1, StillKeeps, Still
  <1>2. CASE Rotate \/ Tick \/ LoseStore
    BY <1>2, RotateStep, TickStep, LoseStoreStep
  <1>3. ASSUME NEW p \in Processes, Step(p) PROVE IInv' /\ Simulates
    BY <1>3, TakeStep, RereadStep, MigrateStep, AgreeStep, CatchUpStep, SaveAheadStep, UnverifiedStep,
       ResumesStep, InstallStep, ReplaceStep, LoadStep, SaveStep, WriteStep, SavePreferenceStep,
       CommitStep, ResumeStep, ConfirmStep, FinishStep DEF Step
  <1>4. ASSUME NEW p \in Processes, Start(p) PROVE IInv' /\ Simulates
    BY <1>4, OpenStep, RegisterStep, CloseStep, ClaimStep, BootstrapStep, ReauthenticateStep,
       PreferStep, DeliverStep DEF Start
  <1>5. ASSUME NEW p \in Processes, Stop(p) PROVE IInv' /\ Simulates
    BY <1>5, StopStep
  <1> QED
    BY <1>1, <1>2, <1>3, <1>4, <1>5 DEF Next

\* The stored trust and every operation are well-formed in every state, and a
\* journal is finished only by the holder of the anchor lock, who finds it where
\* it was put.
THEOREM TrustHolds == ASSUME TrustAssumption PROVE Spec => []IInv
  <1>1. Init => IInv
    BY InitHolds
  <1>2. IInv /\ [Next]_vars => IInv'
    BY NextHolds
  <1> QED
    BY <1>1, <1>2, PTL DEF Spec

\* Whatever processes open, claim, log in, recover, crash and write behind each
\* other's back, the trust of the device takes the steps of DeviceTrust: another
\* keyset only as a verified successor, another root only in a recovery from a
\* keyset that has expired.
THEOREM ImplementsTrust == ASSUME TrustAssumption PROVE Spec => Implements
  <1>1. Init => IInv /\ T!TrustInit
    BY InitHolds
  <1>2. IInv /\ [Next]_vars => IInv' /\ [T!TrustNext]_<<Trusted, now>>
    BY NextHolds DEF Simulates
  <1> QED
    BY <1>1, <1>2, PTL DEF Spec, Implements, T!TrustSpec

===============================================================================
