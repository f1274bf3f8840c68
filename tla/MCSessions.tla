----------------------------- MODULE MCSessions -----------------------------
(* The instance of Sessions that TLC checks: extensions, nonces and requests *)
(* are interchangeable.                                                      *)
EXTENDS Sessions, TLC

Symmetry == Permutations(Exts) \cup Permutations(Nonces) \cup Permutations(Reqs)
=============================================================================
