----------------------------- MODULE MCFileParts -----------------------------
(***************************************************************************)
(* Small instances of the parts that keep several files or rows of a       *)
(* device in step, checked together as MCDeviceParts does: the enrollment, *)
(* with the constants of MCEnrollmentTrust, the managed copies of a        *)
(* repository package, and the operation that sets a session up.  In the   *)
(* other parts the enrollment is one that nobody uses.                     *)
(***************************************************************************)
EXTENDS MCEnrollmentTrust

CONSTANT Unused

VARIABLES part, v1, v2, v3, v4, v5, v6, v7, v8, v9, v10, v11, v12, v13, v14, v15, v16, v17, v18, v19

vs == <<v1, v2, v3, v4, v5, v6, v7, v8, v9, v10, v11, v12, v13, v14, v15, v16, v17, v18, v19>>
all == <<part, vars, vs>>

\* Two writers, and two snapshots that change one path and add or remove another: two
\* transactions with one crash, and one transaction whose recovery may crash too.
MCFiles == "s1" :> (1 :> "a" @@ 2 :> None) @@ "s2" :> (1 :> "b" @@ 2 :> "a")

C == INSTANCE PackageCopies WITH
    Writers <- {p1, p2}, Paths <- {1, 2}, Contents <- {"a", "b"}, Snapshots <- {"s1", "s2"}, Files <- MCFiles,
    Own <- "own", MaxTx <- 2, MaxFaults <- 1,
    target <- v1, staged <- v2, backup <- v3, index <- v4, manifest <- v5, journal <- v6, lock <- v7,
    life <- v8, pc <- v9, want <- v10, mine <- v11, seen <- v12, todo <- v13, tries <- v14, txs <- v15,
    faults <- v16, edited <- v17, kept <- v18, usurped <- v19

R == INSTANCE PackageCopies WITH
    Writers <- {p1, p2}, Paths <- {1, 2}, Contents <- {"a", "b"}, Snapshots <- {"s1", "s2"}, Files <- MCFiles,
    Own <- "own", MaxTx <- 1, MaxFaults <- 2,
    target <- v1, staged <- v2, backup <- v3, index <- v4, manifest <- v5, journal <- v6, lock <- v7,
    life <- v8, pc <- v9, want <- v10, mine <- v11, seen <- v12, todo <- v13, tries <- v14, txs <- v15,
    faults <- v16, edited <- v17, kept <- v18, usurped <- v19

\* A host that starts twice, and time for one wait after the other.
D == INSTANCE CodexSetup WITH
    Hosts <- {p1, p2}, Expires <- 3, Wait <- 1, AcceptedWait <- 1, MaxFaults <- 1,
    now <- v1, op <- v2, session <- v3, ready <- v4, registered <- v5, pc <- v6, closed <- v7,
    deadline <- v8, seen <- v9, ack <- v10, result <- v11, answer <- v12, sup <- v13, child <- v14,
    executions <- v15, starts <- v16, spawns <- v17, faults <- v18

ASSUME Assumptions ==
    /\ TrustAssumption
    /\ C!CopiesAssumption
    /\ R!CopiesAssumption
    /\ D!SetupAssumption

-----------------------------------------------------------------------------
NoTrust == Init /\ file = None /\ does = CHOOSE d \in MCCasts : TRUE

AllInit ==
    \/ /\ part = "trust" /\ Init
       /\ v1 = Unused /\ v2 = Unused /\ v3 = Unused /\ v4 = Unused /\ v5 = Unused /\ v6 = Unused
       /\ v7 = Unused /\ v8 = Unused /\ v9 = Unused /\ v10 = Unused /\ v11 = Unused /\ v12 = Unused
       /\ v13 = Unused /\ v14 = Unused /\ v15 = Unused /\ v16 = Unused /\ v17 = Unused /\ v18 = Unused
       /\ v19 = Unused
    \/ part = "copies" /\ NoTrust /\ C!Init
    \/ part = "recovery" /\ NoTrust /\ R!Init
    \/ part = "setup" /\ NoTrust /\ D!Init /\ v19 = Unused

AllNext ==
    /\ \/ part = "trust" /\ Next /\ UNCHANGED vs
       \/ part = "copies" /\ C!Next /\ UNCHANGED vars
       \/ part = "recovery" /\ R!Next /\ UNCHANGED vars
       \/ part = "setup" /\ D!Next /\ UNCHANGED <<vars, v19>>
    /\ UNCHANGED part

AllSpec == AllInit /\ [][AllNext]_all

-----------------------------------------------------------------------------
(* The properties of the other parts, where their modules state and        *)
(* explain them; those of the trust are checked as EnrollmentTrust has     *)
(* them.                                                                   *)

\* Copies: whole at rest, rolled forward, never stuck, the user's text kept.
CopiesSafe == (part = "copies" => C!CopiesSafe) /\ (part = "recovery" => R!CopiesSafe)

\* Setup: run once, drained when unconfirmed, confirmed in time, ready when completed.
SetupSafe == part = "setup" => D!SetupSafe

\* What no step may do.  Trust: resume what was not consented to.  Setup: move a
\* row back, or change what is written of its end.
WritesKeep ==
    /\ Consents
    /\ [][part = "setup" => D!RowsMove]_all

=============================================================================
