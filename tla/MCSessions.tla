----------------------------- MODULE MCSessions -----------------------------
(* Small instances of Sessions.                                             *)
EXTENDS Sessions, TLC

SessionSymmetry == Permutations(Requests) \cup Permutations(Tokens)
=============================================================================
