-------------------------- MODULE CompletionLedger --------------------------
(***************************************************************************)
(* What the relay promises about the completions of tasks, without files,  *)
(* messages or processes: each completion is offered to HQ, is accepted,   *)
(* is stored with its receipt, and is acknowledged by the CLI, in that     *)
(* order and each at most once.  Only a completion HQ has not accepted can *)
(* be withdrawn, and there is at most one that is not settled.             *)
(***************************************************************************)
CONSTANT Completions

VARIABLE stage

Stages == {"new", "offered", "accepted", "stored", "acknowledged"}

Unsettled == {"offered", "accepted"}

Init == stage = [t \in Completions |-> "new"]

Move(t, from, to) ==
    /\ stage[t] \in from
    /\ stage' = [stage EXCEPT ![t] = to]

Offer(t) ==
    /\ \A u \in Completions : stage[u] \notin Unsettled
    /\ Move(t, {"new"}, "offered")

Withdraw(t) == Move(t, {"offered"}, "new")
Accept(t) == Move(t, {"offered"}, "accepted")
Store(t) == Move(t, {"accepted"}, "stored")
Finish(t) == Move(t, {"stored"}, "acknowledged")

Next == \E t \in Completions :
    Offer(t) \/ Withdraw(t) \/ Accept(t) \/ Store(t) \/ Finish(t)

Spec == Init /\ [][Next]_stage

=============================================================================
