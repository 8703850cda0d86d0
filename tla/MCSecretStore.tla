--------------------------- MODULE MCSecretStore ---------------------------
(* SecretStore on small sets of model values.  Rows, secrets, passwords,    *)
(* salts and environment keys are interchangeable, so every permutation of  *)
(* one of those sets maps behaviours to behaviours.                         *)
EXTENDS SecretStore, TLC

Symmetry ==
    Permutations(Secrets) \cup Permutations(Passwords) \cup Permutations(Salts)

=============================================================================
