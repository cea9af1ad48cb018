--------------------------- MODULE MCSignedOutbox ---------------------------
(***************************************************************************)
(* Small instances of SignedOutbox: the requests of a workspace loop, one  *)
(* of each kind.                                                           *)
(***************************************************************************)
EXTENDS SignedOutboxInv

CONSTANTS poll, capsule, connect, done, done2, ack

MCKind == [r \in Requests |->
    CASE r = poll -> "plain"
      [] r = capsule -> "content"
      [] r = connect -> "connect"
      [] r = ack -> "enforcement"
      [] OTHER -> "completion"]

=============================================================================
