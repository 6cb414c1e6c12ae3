--------------------------- MODULE MCSharedRandom ---------------------------
(* Model values and symmetry for checking SharedRandom.                    *)
EXTENDS SharedRandom, TLC

CONSTANTS a1, a2, a3

MCAuthorities == {a1, a2, a3}

\* Nothing in the model tells the authorities apart.
AuthoritySymmetry == Permutations(MCAuthorities)

=============================================================================
