----------------------------- MODULE MCSessions -----------------------------
(* Sessions on small instances. *)
EXTENDS Sessions, TLC

CONSTANTS alice, bob, grammar, spoken, r1, r2, r3, r4

\* Requests are interchangeable; nothing chooses among them.
Symmetry == Permutations(Requests)
=============================================================================
