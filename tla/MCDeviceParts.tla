---------------------------- MODULE MCDeviceParts ----------------------------
(***************************************************************************)
(* Small instances of the parts of a device that share no state with each  *)
(* other, checked together: the execution of an action, the lease of the   *)
(* relay process, the presence at the gateway, the back-off of failing     *)
(* loops, and the completion of tasks.  A behaviour is one of `part',      *)
(* which is chosen at the start; the v's hold the variables of that part,  *)
(* in the order in which its module declares them, and the completion of   *)
(* tasks has its own.  In the other parts its loop is never opened.        *)
(***************************************************************************)
EXTENDS TaskCompletion, TLC

CONSTANTS
    Ownerless, Ghost, Unused,
    relay1, relay2,        \* processes
    s1, s2, g1, g2,        \* sockets of one device, each to a gateway of its own
    w1, p1, p2,            \* a workspace and its policy paths
    loop, task1, task2     \* a workspace loop and its tasks

VARIABLES part, v1, v2, v3, v4, v5, v6, v7, v8, v9, v10, v11, v12, v13, v14, v15

\* One loop with two tasks.
MCHome == task1 :> loop @@ task2 :> loop

vs == <<v1, v2, v3, v4, v5, v6, v7, v8, v9, v10, v11, v12, v13, v14, v15>>
all == <<part, vars, vs>>

\* One process executes actions, with every decision and every receiver.
A == INSTANCE ActionExecution WITH
    Runners <- {relay1}, Decisions <- BOOLEAN, Guards <- BOOLEAN, MaxFaults <- 4, MaxEffects <- 2,
    released <- v1, guarded <- v2, record <- v3, claim <- v4, consumed <- v5, stored <- v6,
    effects <- v7, returned <- v8, pc <- v9, seen <- v10, answer <- v11, faults <- v12

\* Two relays, and what an earlier one has left.
L == INSTANCE RelayLease WITH
    Callers <- {relay1, relay2}, Leftovers <- {None}, MaxCrashes <- 2,
    lock <- v1, recovery <- v2, pidFile <- v3, alive <- v4, pc <- v5, seen <- v6, crashes <- v7

\* A device whose second socket goes to another gateway.
P == INSTANCE RelayPresence WITH
    Gateways <- {g1, g2}, Sockets <- {s1, s2}, Device <- s1 :> "device" @@ s2 :> "device",
    Gateway <- s1 :> g1 @@ s2 :> g2, MaxMessages <- 2, MaxFaults <- 1,
    presence <- v1, queue <- v2, ready <- v3, sock <- v4, received <- v5, current <- v6, stage <- v7,
    done <- v8, last <- v9, answers <- v10, recorded <- v11, faults <- v12

\* One workspace that fails often enough for the long retry.
B == INSTANCE RelaySupervision WITH
    Workspaces <- {w1}, Paths <- {p1, p2}, LongestDelay <- 2, CredentialLimit <- 2, CredentialRetry <- 3,
    MaxFailures <- 5, MaxChanges <- 1, MaxOutages <- 0,
    registry <- v1, rows <- v2, pc <- v3, stopped <- v4, workers <- v5, flight <- v6, failures <- v7,
    queue <- v8, authorized <- v9, trusted <- v10, streak <- v11, rest <- v12, failed <- v13,
    changes <- v14, outages <- v15

ASSUME Assumptions ==
    /\ A!ActionAssumption
    /\ L!LeaseAssumption
    /\ P!PresenceAssumption
    /\ CompletionAssumption

-----------------------------------------------------------------------------
Tail8 == <<v8, v9, v10, v11, v12>>
Tail13 == <<v13, v14, v15>>

Unused1 == v1 = Unused /\ v2 = Unused /\ v3 = Unused /\ v4 = Unused /\ v5 = Unused /\ v6 = Unused /\ v7 = Unused
Unused8 == v8 = Unused /\ v9 = Unused /\ v10 = Unused /\ v11 = Unused /\ v12 = Unused
Unused13 == v13 = Unused /\ v14 = Unused /\ v15 = Unused

AllInit ==
    /\ Init
    /\ \/ part = "completion" /\ Unused1 /\ Unused8 /\ Unused13
       \/ /\ policy = 1
          /\ \/ part = "action" /\ A!Init /\ Unused13
             \/ part = "lease" /\ L!Init /\ Unused8 /\ Unused13
             \/ part = "presence" /\ P!Init /\ Unused13
             \/ part = "backoff" /\ B!Init

AllNext ==
    /\ \/ part = "completion" /\ Next /\ UNCHANGED vs
       \/ part = "action" /\ A!Next /\ UNCHANGED <<Tail13, vars>>
       \/ part = "lease" /\ L!Next /\ UNCHANGED <<Tail8, Tail13, vars>>
       \/ part = "presence" /\ P!Next /\ UNCHANGED <<Tail13, vars>>
       \/ part = "backoff" /\ B!Next /\ UNCHANGED vars
    /\ UNCHANGED part

\* The fairness of each part, as its module states it.
Fairness ==
    /\ WF_(A!vars)(part = "action" /\ A!Expire)
    /\ WF_(A!vars)(part = "action" /\ A!Step(relay1))
    /\ \A c \in {relay1, relay2} : WF_(L!vars)(part = "lease" /\ L!Step(c))
    /\ \A s \in {s1, s2} : WF_(P!vars)(part = "presence" /\ P!Handle(s))
    /\ \A g \in {g1, g2} : WF_(P!vars)(part = "presence" /\ (P!RedisExecutes(g)))
    /\ \A g \in {g1, g2} : WF_(P!vars)(part = "presence" /\ (P!Reconnect(g)))
    /\ WF_(P!vars)(part = "presence" /\ P!Expire("device"))
    /\ WF_vars(part = "completion" /\ pc[loop] # "idle" /\ Step(loop))
    /\ WF_vars(part = "completion" /\ FetchPolicy(loop))
    /\ SF_vars(part = "completion" /\ SyncQueued(loop))

AllSpec == AllInit /\ [][AllNext]_all /\ Fairness

-----------------------------------------------------------------------------
(* The properties of the other parts, where their modules state and explain *)
(* them; those of the completion of tasks are checked as its module has them. *)

\* Actions: types, one execution, and true receipts.
ActionSafe == part = "action" => A!ActionSafe

\* Actions: the task gets its receipt.
Settles == <>[](part = "action" => A!Settled)

\* Lease: types, one relay, kept leases.
LeaseSafe == part = "lease" => L!LeaseSafe

\* Presence: answers in order, presence recorded first.
PresenceSafe == part = "presence" => P!PresenceSafe

\* Lease: a dead lock goes.  Presence: it ends when every socket is closed.
DeadForgotten ==
    /\ (part = "lease" /\ L!LeftLocked) ~> (part = "lease" => L!FreedOrGivenUp)
    /\ <>[](part = "presence" /\ P!Away("device")) => <>[](part = "presence" /\ P!Absent("device"))

\* What no step may do: change a recorded receipt, take away the presence of
\* another socket, cut the long retry of a loop short, or send what is withheld.
StepsKeep ==
    [][/\ part = "action" => A!KeepsReceipt
       /\ part = "presence" => P!RemovesOnlyOwn
       /\ part = "backoff" => B!WaitsOutRetry
       /\ part = "completion" => Withholds]_all

=============================================================================
