-------------------------- MODULE MCEnrollmentTrust --------------------------
EXTENDS EnrollmentTrust, TLC
CONSTANTS p1, p2, r, q, a, b
K(g, ks, s, e) == [gen |-> g, keys |-> ks, signer |-> s, expires |-> e]
MCKeysets == {K(1, {r}, r, 1), K(2, {r, a}, r, 2), K(3, {a, b}, a, 2), K(3, {q}, q, 3)}
MCCasts == {p1 :> {"open", "install"} @@ p2 :> ops :
               ops \in {{"claim", "prefer"}, {"restore", "bootstrap"}, {"deliver", "prefer"}}}
=============================================================================
