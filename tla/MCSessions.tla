------------------------------ MODULE MCSessions ------------------------------
(***************************************************************************)
(* Instances of Sessions for TLC: two tabs of one browser.                 *)
(***************************************************************************)
EXTENDS Sessions, TLC

CONSTANTS b1, a1, a2, t1, p1, p2

OneBrowser == [r \in Tabs |-> b1]

OneAgent == [t \in Tokens |-> a1]

Symmetry ==
    Permutations(Tabs) \cup Permutations(SessionIds) \cup Permutations(Tokens)

(* The kinds of request each instance offers. *)
TabsOnly == {"passwordLogin", "me", "logout"}
Admin == {"passwordLogin", "tokenLogin", "change", "rotate", "register"}

=============================================================================
