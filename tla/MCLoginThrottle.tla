--------------------------- MODULE MCLoginThrottle ---------------------------
(***************************************************************************)
(* The instance of LoginThrottle for TLC: one key, which is all the limiter *)
(* looks at; keys do not meet.                                             *)
(***************************************************************************)
EXTENDS LoginThrottle, TLC

CONSTANT k1

OneKey == [l \in Logins |-> k1]

LoginSymmetry == Permutations(Logins)

=============================================================================
