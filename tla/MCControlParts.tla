---------------------------- MODULE MCControlParts ----------------------------
(***************************************************************************)
(* Small instances of the parts that a device is controlled by, checked    *)
(* together as MCDeviceParts does: the lock of its signing control, the    *)
(* authorized policy of a workspace with its ledger of uploads, and the    *)
(* host of a recovery of expired trust.                                    *)
(*                                                                         *)
(* The lock is a relay with a caller and a command.  There are no more     *)
(* process ids than processes, so that a restarted process takes one that  *)
(* a file may still hold.  In the other parts nobody uses the lock.        *)
(***************************************************************************)
EXTENDS EnrollmentAnchorLock, TLC

CONSTANTS
    Local, Unused,
    loop1, relay, command,   \* a caller in the relay, processes
    k1, k2                   \* capsules

VARIABLES part, v1, v2, v3, v4, v5, v6, v7, v8, v9, v10, v11, v12

MCProcessOf == [c \in Callers |-> IF c = command THEN command ELSE relay]

vs == <<v1, v2, v3, v4, v5, v6, v7, v8, v9, v10, v11, v12>>
all == <<part, vars, vs>>

\* Two capsules, of which one fits into a day, and two midnights.
W == INSTANCE WorkspacePolicy WITH
    Clients <- {relay, command}, Capsules <- {k1, k2}, Size <- [k \in {k1, k2} |-> 2], Limit <- 3,
    Lifetime <- 1, MaxDay <- 2, MaxIssued <- 2, MaxFaults <- 1,
    today <- v1, issued <- v2, lock <- v3, record <- v4, policy <- v5, ledger <- v6, client <- v7,
    applied <- v8, reserved <- v9, forgot <- v10, faults <- v11

\* A handle that may wait for its offer twice.
H == INSTANCE SigningRecoveryHost WITH
    MaxReads <- 3, MaxFaults <- 4,
    phase <- v1, submitted <- v2, attempted <- v3, challenge <- v4, live <- v5, step <- v6, sent <- v7,
    line <- v8, answer <- v9, hq <- v10, local <- v11, faults <- v12

ASSUME Assumptions ==
    /\ W!PolicyAssumption
    /\ H!HostAssumption

-----------------------------------------------------------------------------
AllInit ==
    /\ Init
    /\ \/ /\ part = "lock"
          /\ v1 = Unused /\ v2 = Unused /\ v3 = Unused /\ v4 = Unused /\ v5 = Unused /\ v6 = Unused
          /\ v7 = Unused /\ v8 = Unused /\ v9 = Unused /\ v10 = Unused /\ v11 = Unused /\ v12 = Unused
       \/ part = "policy" /\ lock = None /\ W!Init /\ v12 = Unused
       \/ part = "host" /\ lock = None /\ H!Init

AllNext ==
    /\ \/ part = "lock" /\ Next /\ UNCHANGED vs
       \/ part = "policy" /\ W!Next /\ UNCHANGED <<v12, vars>>
       \/ part = "host" /\ H!Next /\ UNCHANGED vars
    /\ UNCHANGED part

\* The fairness of each part, as its module states it.
Fairness ==
    /\ \A c \in Callers : WF_vars(part = "lock" /\ Step(c))
    /\ \A c \in {relay, command} : WF_(W!vars)(part = "policy" /\ (W!SyncStep(c) \/ W!UploadStep(c)))
    /\ SF_(W!vars)(part = "policy" /\ \E c \in {relay, command} : W!BeginSync(c))
    /\ SF_(W!vars)(part = "policy" /\ \E c \in {relay, command}, a \in v2 : W!Newest(a) /\ W!Register(c, a))

AllSpec == AllInit /\ [][AllNext]_all /\ Fairness

-----------------------------------------------------------------------------
(* The properties of the other parts, where their modules state and        *)
(* explain them; those of the lock are checked as its module has them.     *)

\* Policy: types, a covered policy, no revoked grant, the daily quota.
PolicySafe == part = "policy" => W!PolicySafe

\* Policy: the replay record moves on only, and one ahead of its policy is made good.
RecordRepaired ==
    /\ [][part = "policy" => W!RecordMoves]_all
    /\ (part = "policy" /\ W!RecordAhead) ~> (part = "policy" => W!MadeGood)

\* Recovery host: types, asked once, true reports.
HostSafe == part = "host" => H!HostSafe

=============================================================================
