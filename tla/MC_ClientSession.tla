-------------------------- MODULE MC_ClientSession --------------------------
(* ClientSession with a few runs, stops and messages. *)
EXTENDS ClientSession, TLC
Symmetry == Permutations(Runs)
=============================================================================
