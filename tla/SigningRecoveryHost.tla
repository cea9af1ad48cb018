------------------------- MODULE SigningRecoveryHost -------------------------
(***************************************************************************)
(* The host that owns a recovery of expired signing trust (relay client    *)
(* signingRecoveryHost.ts, signingRecoveryOfferClient.ts and               *)
(* signingRecoveryClient.ts): one handle, three phases, each of which asks *)
(* HQ under signatures that are good once, over a network that loses       *)
(* requests and answers or hands HQ a request after its sender has given   *)
(* up.  What the delivery writes is EnrollmentTrust's.                     *)
(***************************************************************************)
EXTENDS Integers, FiniteSets

CONSTANTS
    MaxReads,   \* bound on offers read
    MaxFaults   \* bound on losses, on time limits and on local changes

HostAssumption == {MaxReads, MaxFaults} \subseteq Nat

VARIABLES
    phase,      \* state.state of the handle
    submitted, attempted,   \* the handle's two flags
    challenge,  \* whether the handle has the challenge
    live,       \* not disposed of
    step,       \* of the call in progress, or "idle"
    sent,       \* requests made, of each kind
    line,       \* requests on their way to HQ
    answer,     \* what HQ has answered the call in progress
    hq,         \* how far the recovery is at HQ
    local,      \* the trust of the device: still "expired", "ours" or "other"
    faults

vars == <<phase, submitted, attempted, challenge, live, step, sent, line, answer, hq, local, faults>>
handle == <<phase, submitted, attempted, challenge>>
world == <<live, line, hq, faults>>

Kinds == {"prepare", "read", "register", "deliver"}
Progress == <<"nothing", "prepared", "offered", "registered", "published">>
Far(h) == CHOOSE i \in DOMAIN Progress : Progress[i] = h
Phases == {"prepared", "awaiting_browser_offer", "pending_approval", "trust_installed",
           "submission_unconfirmed", "offer_unconfirmed", "delivery_unconfirmed", "failed"}
Steps == {"idle", "submit", "sign", "prepare", "receipt", "progress", "read", "offer", "register",
          "registered", "complete", "deliver", "delivered", "commit", "confirm"}
Waits == [prepare |-> "receipt", read |-> "offer", register |-> "registered", deliver |-> "delivered"]

Init ==
    /\ phase = "prepared" /\ submitted = FALSE /\ attempted = FALSE /\ challenge = FALSE
    /\ live = TRUE
    /\ step = "idle"
    /\ sent = [k \in Kinds |-> 0]
    /\ line = {}
    /\ answer = "none"
    /\ hq = "nothing"
    /\ local = "expired"
    /\ faults = 0

\* recheck: the scope is current and the local plan is the one that was prepared.
Rechecked == live /\ local = "expired"

-----------------------------------------------------------------------------
(* submitOwnedSigningRecoveryPreparation, progressOwnedSigningRecoveryOffer *)
(* and completeOwnedSigningRecovery: one call at a time.                    *)
Begin ==
    /\ live /\ step = "idle"
    /\ step' = CASE phase = "prepared" /\ ~ submitted -> "submit"
                 [] phase = "awaiting_browser_offer" -> "progress"
                 [] phase = "pending_approval" /\ challenge /\ ~ attempted -> "complete"
                 [] OTHER -> "idle"
    /\ step' # "idle"
    /\ sent.read < MaxReads
    /\ UNCHANGED <<handle, world, sent, answer, local>>

\* Mutant: a delivery that failed can be tried again.
RetriesDelivery(s) ==
    CASE s \in {"submit", "sign", "prepare"} -> "failed"
      [] s = "receipt" -> "submission_unconfirmed"
      [] s \in {"progress", "read", "offer", "register", "registered"} -> "offer_unconfirmed"
      [] s \in {"deliver", "delivered"} -> "pending_approval"
      [] OTHER -> IF attempted THEN "delivery_unconfirmed" ELSE "failed"

\* Mutant: a submission that got no answer has failed.
NotConfirmed(s) ==
    CASE s \in {"submit", "sign", "prepare", "receipt"} -> "failed"
      [] s \in {"progress", "read", "offer", "register", "registered"} -> "offer_unconfirmed"
      [] OTHER -> IF attempted THEN "delivery_unconfirmed" ELSE "failed"

\* What is left of the handle when the step s throws.
After(s) ==
    CASE s \in {"submit", "sign", "prepare"} -> "failed"
      [] s = "receipt" -> "submission_unconfirmed"
      [] s \in {"progress", "read", "offer", "register", "registered"} -> "offer_unconfirmed"
      [] OTHER -> IF attempted THEN "delivery_unconfirmed" ELSE "failed"

Throw ==
    /\ phase' = After(step)
    /\ step' = "idle" /\ answer' = "none"
    /\ UNCHANGED <<submitted, attempted, challenge, world, sent, local>>

Go(s) == step' = s /\ UNCHANGED <<handle, world, sent, answer, local>>

\* The checks that the device is still as it was planned for.
Submit ==
    /\ step = "submit"
    /\ IF Rechecked THEN /\ submitted' = TRUE /\ step' = "sign"
                         /\ UNCHANGED <<phase, attempted, challenge, world, sent, answer, local>>
       ELSE Throw

Complete ==
    /\ step = "complete"
    /\ IF Rechecked THEN /\ attempted' = TRUE /\ step' = "deliver"
                         /\ UNCHANGED <<phase, submitted, challenge, world, sent, answer, local>>
       ELSE Throw

Check ==
    /\ step \in {"sign", "progress"}
    /\ IF Rechecked THEN Go(IF step = "sign" THEN "prepare" ELSE "read") ELSE Throw

Send(k) ==
    /\ step = k
    /\ IF live THEN /\ sent' = [sent EXCEPT ![k] = @ + 1]
                    /\ line' = line \cup {k}
                    /\ step' = Waits[k]
                    /\ UNCHANGED <<handle, live, answer, hq, local, faults>>
       ELSE Throw

\* The receipt of the preparation, ...
Receipt ==
    /\ step = "receipt" /\ answer = "prepared"
    /\ IF Rechecked THEN /\ phase' = "awaiting_browser_offer" /\ step' = "idle" /\ answer' = "none"
                         /\ UNCHANGED <<submitted, attempted, challenge, world, sent, local>>
       ELSE Throw

\* ... the offer, which asks for a proof, or for patience, ...
Offer ==
    /\ step = "offer" /\ answer \notin {"none", "refused"}
    /\ IF ~ Rechecked THEN Throw
       ELSE /\ IF answer = "offered" THEN step' = "register" /\ UNCHANGED <<phase, challenge>>
               ELSE /\ phase' = (IF answer = "registered" THEN "pending_approval" ELSE phase)
                    /\ challenge' = (answer = "registered")
                    /\ step' = "idle"
            /\ answer' = "none"
            /\ UNCHANGED <<submitted, attempted, world, sent, local>>

\* ... the proof's receipt, ...
Registered ==
    /\ step = "registered" /\ answer = "registered"
    /\ IF Rechecked THEN /\ phase' = "pending_approval" /\ challenge' = TRUE
                         /\ step' = "idle" /\ answer' = "none"
                         /\ UNCHANGED <<submitted, attempted, world, sent, local>>
       ELSE Throw

\* ... and the sealed keyset.
Delivered ==
    /\ step = "delivered" /\ answer = "published"
    /\ IF Rechecked THEN Go("commit") ELSE Throw

\* The protected transaction: it is applied, and its caller hears of it or not.
Commit ==
    /\ step = "commit"
    /\ \/ Throw
       \/ /\ Rechecked
          /\ local' = "ours" /\ step' = "confirm"
          /\ UNCHANGED <<handle, world, sent, answer>>

Confirm ==
    /\ step = "confirm"
    /\ IF live THEN /\ phase' = "trust_installed" /\ step' = "idle" /\ answer' = "none"
                    /\ UNCHANGED <<submitted, attempted, challenge, world, sent, local>>
       ELSE Throw

\* The time limit of a request, or an answer that is refused.
GiveUp ==
    /\ step \in {"receipt", "offer", "registered", "delivered"}
    /\ \/ answer = "refused" /\ UNCHANGED faults
       \/ ~ live /\ UNCHANGED faults
       \/ faults < MaxFaults /\ faults' = faults + 1
    /\ phase' = After(step)
    /\ step' = "idle" /\ answer' = "none"
    /\ UNCHANGED <<submitted, attempted, challenge, live, line, hq, sent, local>>

\* disposeOwnedSigningRecovery, also in the middle of a call.
Dispose ==
    /\ live /\ live' = FALSE
    /\ UNCHANGED <<handle, step, sent, line, answer, hq, local, faults>>

-----------------------------------------------------------------------------
\* HQ takes a request, in time or late, and its answer arrives or does not.
Reply(k, a) == answer' = IF step = Waits[k] THEN a ELSE answer

HQTakes(k) ==
    /\ k \in line /\ line' = line \ {k}
    /\ LET ok == CASE k = "prepare" -> hq = "nothing"
                   [] k = "register" -> hq = "offered"
                   [] k = "deliver" -> hq = "published"
                   [] OTHER -> hq \in {"prepared", "offered", "registered"}
           next == IF ~ ok THEN hq ELSE IF k = "prepare" THEN "prepared"
                   ELSE IF k = "register" THEN "registered" ELSE hq IN
       /\ hq' = next
       /\ \/ Reply(k, IF ok THEN next ELSE "refused") /\ UNCHANGED faults
          \/ faults < MaxFaults /\ faults' = faults + 1 /\ UNCHANGED answer
    /\ UNCHANGED <<handle, live, step, sent, local>>

Lose(k) ==
    /\ k \in line /\ faults < MaxFaults
    /\ line' = line \ {k} /\ faults' = faults + 1
    /\ UNCHANGED <<handle, live, step, sent, answer, hq, local>>

\* The user offers the recovery in the browser, and approves and publishes it.
Browser ==
    /\ hq' = CASE hq = "prepared" -> "offered" [] hq = "registered" -> "published" [] OTHER -> hq
    /\ hq' # hq
    /\ UNCHANGED <<handle, live, step, sent, line, answer, local, faults>>

\* Another process of the device replaces its trust or its configuration.
Change ==
    /\ local = "expired" /\ faults < MaxFaults
    /\ local' = "other" /\ faults' = faults + 1
    /\ UNCHANGED <<handle, live, step, sent, line, answer, hq>>

Next ==
    \/ Begin \/ Submit \/ Check \/ Receipt \/ Offer \/ Registered
    \/ Complete \/ Delivered \/ Commit \/ Confirm \/ GiveUp \/ Dispose
    \/ \E k \in Kinds : Send(k) \/ HQTakes(k) \/ Lose(k)
    \/ Browser \/ Change

Spec == Init /\ [][Next]_vars

-----------------------------------------------------------------------------
TypeOK ==
    /\ phase \in Phases /\ {submitted, attempted, challenge, live} \subseteq BOOLEAN
    /\ step \in Steps /\ answer \in {Progress[i] : i \in DOMAIN Progress} \cup {"none", "refused"}
    /\ line \subseteq Kinds /\ hq \in {Progress[i] : i \in DOMAIN Progress}
    /\ local \in {"expired", "ours", "other"} /\ faults \in 0 .. MaxFaults

\* However calls fail or are repeated, a preparation, a proof and a delivery
\* are asked for once at most by one handle.
AskedOnce == \A k \in Kinds \ {"read"} : sent[k] <= 1

\* What the handle reports when no call is in progress is never behind what a
\* lost answer may have done, nor ahead of what HQ and the device have.
ReportsTruly ==
    step = "idle" =>
        /\ phase \in {"prepared", "failed"} /\ ~ challenge => hq = "nothing" /\ line = {}
        /\ phase = "awaiting_browser_offer" => Far(hq) >= 2 /\ sent.register = 0
        /\ phase = "pending_approval" => Far(hq) >= 4 /\ sent.deliver = 0
        /\ phase = "trust_installed" => local = "ours"
        /\ local = "ours" => phase \in {"trust_installed", "delivery_unconfirmed"}

HostSafe == TypeOK /\ AskedOnce /\ ReportsTruly

=============================================================================
