----------------------------- MODULE MCPolicyCache -----------------------------
(* Symmetry for checking PolicyCache with TLC.                                *)
EXTENDS PolicyCache, TLC

Symmetry == Permutations(Gateways) \cup Permutations(Requests)
=============================================================================
