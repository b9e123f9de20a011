------------------------------ MODULE MCPasskeys ------------------------------
(***************************************************************************)
(* Instances of Passkeys for TLC.                                          *)
(***************************************************************************)
EXTENDS Passkeys, TLC

Symmetry ==
    Permutations(Requests) \cup Permutations(Flows) \cup Permutations(Credentials)

=============================================================================
