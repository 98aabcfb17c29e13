----------------------------- MODULE MCArbStore -----------------------------
(* ArbStore for TLC. *)
EXTENDS ArbStore, TLC

Symmetry == Permutations(Procs \ Daemons) \cup Permutations(Symbols)
            \cup Permutations(Legs)
=============================================================================
