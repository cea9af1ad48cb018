----------------------------- MODULE MCRelayParts -----------------------------
(***************************************************************************)
(* Small instances of the parts of a running relay that share no state     *)
(* with each other, checked together as MCDeviceParts does: the signed     *)
(* outbox of one client, and the preparation of skill rollouts.  In the    *)
(* other parts the outbox is one that nobody uses.                         *)
(***************************************************************************)
EXTENDS MCSignedOutbox

CONSTANTS
    Unused,
    r1, r2      \* skill rollouts

VARIABLES part, v1, v2, v3, v4, v5, v6, v7, v8, v9, v10, v11, v12, v13, v14

vs == <<v1, v2, v3, v4, v5, v6, v7, v8, v9, v10, v11, v12, v13, v14>>
all == <<part, vars, vs>>

\* Two rollouts, and what changes under them.
K == INSTANCE SkillPreparation WITH
    Rollouts <- {r1, r2}, MaxChanges <- 3, MaxFaults <- 1,
    assigned <- v1, expired <- v2, policy <- v3, active <- v4, dirs <- v5, pointer <- v6, tx <- v7, act <- v8,
    stopping <- v9, pc <- v10, job <- v11, used <- v12, changes <- v13, faults <- v14

ASSUME Assumptions == K!PreparationAssumption

-----------------------------------------------------------------------------
AllInit ==
    /\ Init
    /\ \/ /\ part = "outbox"
          /\ v1 = Unused /\ v2 = Unused /\ v3 = Unused /\ v4 = Unused /\ v5 = Unused /\ v6 = Unused
          /\ v7 = Unused /\ v8 = Unused /\ v9 = Unused /\ v10 = Unused /\ v11 = Unused /\ v12 = Unused
          /\ v13 = Unused /\ v14 = Unused
       \/ part = "preparation" /\ K!Init

AllNext ==
    /\ \/ part = "outbox" /\ Next /\ UNCHANGED vs
       \/ part = "preparation" /\ K!Next /\ UNCHANGED vars
    /\ UNCHANGED part

\* The fairness of each part, as its module states it.
AllFairness ==
    /\ \A c \in Clients :
         /\ WF_vars(part = "outbox" /\ Open(c))
         /\ WF_vars(part = "outbox" /\ Step(c))
         /\ WF_vars(part = "outbox" /\ (Close(c) \/ \E r \in Requests : Request(c, r)))
    /\ WF_vars(part = "outbox" /\ Hq)
    /\ WF_(K!vars)(part = "preparation" /\ (K!Pump \/ K!Restart))
    /\ SF_(K!vars)(part = "preparation" /\ (K!Relay \/ K!Lock))
    /\ WF_(K!vars)(part = "preparation" /\ K!Hand)

AllSpec == AllInit /\ [][AllNext]_all /\ AllFairness

-----------------------------------------------------------------------------
(* The properties of the other parts, where their modules state and        *)
(* explain them; those of the outbox are checked as its module has them.   *)

\* Preparation: types, the pointer's attempt, one owner, one use, one policy.
PreparationSafe == part = "preparation" => K!PreparationSafe

\* Preparation: what HQ assigns is installed in the end.
Converges == <>[](part = "preparation" => K!Arrived)

=============================================================================
