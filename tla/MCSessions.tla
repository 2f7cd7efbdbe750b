----------------------------- MODULE MCSessions -----------------------------
(* Small instances of Sessions.                                              *)
EXTENDS SessionProperties

CONSTANTS t1, t2, ann, old, new

Slots == Permutations(Txns)
=============================================================================
