----------------------------- MODULE DeviceTrust -----------------------------
(***************************************************************************)
(* What the server trust of an enrolled device promises, whatever writes,  *)
(* crashes and delays lie behind it: which root and which signing keyset a *)
(* device trusts changes only to a verified successor, and to another root *)
(* only when the keyset has expired and a recovery was approved.           *)
(***************************************************************************)
EXTENDS Integers

CONSTANTS
    Roots,      \* public keys that HQ pins at an enrollment
    Keysets,    \* signing keysets of HQ
    Stamps,     \* times of enrollment
    None

VARIABLES
    trust,      \* the root, the keyset and the enrollment, or None
    now

\* keysetTimeFailure: a keyset is good until it expires.
Live(k) == k.expires > now

\* verifyInitialServerSigningKeyset
Initial(root, k) == k.signer = root /\ Live(k)

\* verifyServerSigningKeysetUpdate
Update(current, k) ==
    /\ k.gen > current.gen
    /\ Live(current) /\ Live(k)
    /\ k.signer \in current.keys \cap k.keys

\* verifyKeysetTransition: the first keyset of an older enrollment, or an update.
Transition(root, current, k) ==
    IF current = None THEN Initial(root, k) ELSE Update(current, k)

\* verifyServerSigningKeysetSuccessor: also what the pinned root has signed
\* since, which needs no live keyset.
Successor(root, current, k) ==
    \/ Update(current, k)
    \/ k.gen > current.gen /\ Initial(root, k)

TrustInit == trust = None \/ trust \in [root : Roots, keyset : Keysets \cup {None}, at : Stamps]

Enroll ==
    /\ trust = None
    /\ trust' \in [root : Roots, keyset : Keysets \cup {None}, at : Stamps]
    /\ UNCHANGED now

Renew ==
    /\ trust # None
    /\ \E k \in Keysets :
          /\ IF trust.keyset = None THEN Initial(trust.root, k) ELSE Successor(trust.root, trust.keyset, k)
          /\ trust' = [trust EXCEPT !.keyset = k]
    /\ UNCHANGED now

Replace ==
    /\ trust # None
    /\ trust.keyset # None /\ ~ Live(trust.keyset)
    /\ \E r \in Roots \ {trust.root}, k \in Keysets :
          /\ Initial(r, k) /\ k.gen = trust.keyset.gen + 1
          /\ trust' = [trust EXCEPT !.root = r, !.keyset = k]
    /\ UNCHANGED now

\* The protected store is lost, by no doing of the program.
Lose == trust' = None /\ UNCHANGED now

Tick == now' = now + 1 /\ UNCHANGED trust

TrustNext == Enroll \/ Renew \/ Replace \/ Lose \/ Tick

TrustSpec == TrustInit /\ [][TrustNext]_<<trust, now>>

=============================================================================
