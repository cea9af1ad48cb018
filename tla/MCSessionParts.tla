---------------------------- MODULE MCSessionParts ----------------------------
(***************************************************************************)
(* Small instances of the parts that an agent session on a device rests    *)
(* on, checked together as MCDeviceParts does: the skills of the provider, *)
(* and the inbox of a named session, in two sizes.  In the parts of the    *)
(* inbox nobody uses the skills.                                           *)
(***************************************************************************)
EXTENDS SkillActivation, TLC

CONSTANTS
    Unused,
    p1, p2, q1, q2    \* processes and questions of the inbox

VARIABLES part, v1, v2, v3, v4, v5, v6, v7, v8, v9, v10, v11, v12, v13, v14, v15, v16, v17, v18

SkillsOfTwo == [b \in Bundles |-> IF b = CHOOSE c \in Bundles : TRUE THEN {"s1"} ELSE {"s1", "s2"}]

vs == <<v1, v2, v3, v4, v5, v6, v7, v8, v9, v10, v11, v12, v13, v14, v15, v16, v17, v18>>
all == <<part, vars, vs>>

\* Two questions, of which one may expire, and one fault; one question and two.
Two == INSTANCE SessionInbox WITH
    Processes <- {p1, p2}, Questions <- {q1, q2}, Mortal <- {q1}, MaxFaults <- 1,
    mode <- v1, hq <- v2, past <- v3, wire <- v4, binding <- v5, detached <- v6, lease <- v7, offer <- v8,
    handoff <- v9, reply <- v10, life <- v11, pc <- v12, cur <- v13, text <- v14, heard <- v15,
    consumed <- v16, turns <- v17, faults <- v18
One == INSTANCE SessionInbox WITH
    Processes <- {p1, p2}, Questions <- {q1}, Mortal <- {q1}, MaxFaults <- 2,
    mode <- v1, hq <- v2, past <- v3, wire <- v4, binding <- v5, detached <- v6, lease <- v7, offer <- v8,
    handoff <- v9, reply <- v10, life <- v11, pc <- v12, cur <- v13, text <- v14, heard <- v15,
    consumed <- v16, turns <- v17, faults <- v18

ASSUME Assumptions ==
    /\ SkillAssumption
    /\ Two!InboxAssumption
    /\ One!InboxAssumption

-----------------------------------------------------------------------------
NoSkills == assigned = CHOOSE b \in Bundles : TRUE

AllInit ==
    /\ Init
    /\ \/ /\ part = "skill"
          /\ v1 = Unused /\ v2 = Unused /\ v3 = Unused /\ v4 = Unused /\ v5 = Unused /\ v6 = Unused
          /\ v7 = Unused /\ v8 = Unused /\ v9 = Unused /\ v10 = Unused /\ v11 = Unused /\ v12 = Unused
          /\ v13 = Unused /\ v14 = Unused /\ v15 = Unused /\ v16 = Unused /\ v17 = Unused /\ v18 = Unused
       \/ part = "inbox" /\ NoSkills /\ Two!Init
       \/ part = "question" /\ NoSkills /\ One!Init

AllNext ==
    /\ \/ part = "skill" /\ Next /\ UNCHANGED vs
       \/ part = "inbox" /\ Two!Next /\ UNCHANGED vars
       \/ part = "question" /\ One!Next /\ UNCHANGED vars
    /\ UNCHANGED part

\* The fairness of each part, as its module states it.
AllFairness ==
    /\ SF_vars(part = "skill" /\ Poll) /\ SF_vars(part = "skill" /\ Consult) /\ WF_vars(part = "skill" /\ Sync)
    /\ \A p \in {p1, p2} :
         /\ WF_vs(part = "inbox" /\ Two!Step(p) /\ v12[p] # "handed")
         /\ WF_vs(part = "question" /\ One!Step(p) /\ v12[p] # "handed")
    /\ WF_vs(part = "inbox" /\ \E m \in v4 : Two!Take(m))
    /\ WF_vs(part = "question" /\ \E m \in v4 : One!Take(m))
    /\ WF_vs(part = "inbox" /\ Two!Expire(q1))
    /\ WF_vs(part = "question" /\ One!Expire(q1))

AllSpec == AllInit /\ [][AllNext]_all /\ AllFairness

-----------------------------------------------------------------------------
(* The properties of the inbox, where its module states and explains them; *)
(* those of the skills are checked as their module has them.               *)

\* Skills: the assigned bundle comes into force again, unless nothing mends it.
SkillsRecover == part = "skill" => Recovers

\* Inbox: asked once, true receipts, no answer lost, one owner.
InboxSafe ==
    /\ part = "inbox" => Two!InboxSafe
    /\ part = "question" => One!InboxSafe

\* Inbox: the answers that were paid for are acknowledged or set apart.
AnswersDue ==
    \/ part = "inbox" /\ \E q \in {q1, q2} : Two!Unsettled(q)
    \/ part = "question" /\ One!Unsettled(q1)
AnswersSettled == AnswersDue ~> ~ AnswersDue

=============================================================================
