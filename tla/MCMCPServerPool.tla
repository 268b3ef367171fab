-------------------------- MODULE MCMCPServerPool --------------------------
(***************************************************************************)
(* MCPServerPool for TLC: keys and requests are interchangeable.           *)
(***************************************************************************)
EXTENDS MCPServerPool, TLC

Symmetry == Permutations(Requests) \cup Permutations(Keys)
=============================================================================
