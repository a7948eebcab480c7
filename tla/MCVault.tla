------------------------------ MODULE MCVault ------------------------------
(* Vault for drops of two sizes and two client keys: the small ones meet    *)
(* the cap on files, the big one the cap on bytes.                          *)
EXTENDS Vault, TLC

CONSTANT Big

MCSize == [d \in Drops |-> IF d = Big THEN 90 ELSE 10]

MCSymmetry == Permutations(Drops \ {Big}) \cup Permutations(Deks)
=============================================================================
