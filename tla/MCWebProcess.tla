----------------------------- MODULE MCWebProcess -----------------------------
(***************************************************************************)
(* Two connections to podorel-web: settings against settings, a scan against *)
(* a scan, a log history against a log history or settings, and plain HTTP.  *)
(***************************************************************************)
EXTENDS WebProcess, TLC

CONSTANTS c1, c2

MCMixes ==
    {(c1 :> k) @@ (c2 :> l) : k, l \in {"put"}}
    \cup {(c1 :> k) @@ (c2 :> l) : k, l \in {"scan"}}
    \cup {(c1 :> k) @@ (c2 :> "history") : k \in {"put", "history"}}
    \cup {(c1 :> "plain") @@ (c2 :> "plain")}

MCOrder == <<"actions", "logs">>
MCWordsOf == [actions |-> {"exec"}, logs |-> {"retention", "limit"}]
MCDefault == [exec |-> 0, retention |-> 2, limit |-> 2]

(* Hours of 3 units in 4 bits: 2 hours fit, 3 wrap to a negative duration    *)
(* and 6 to a short one.                                                     *)
MCPayloads ==
    {[exec |-> 1, retention |-> 1], [limit |-> 1], [retention |-> 3, limit |-> 0],
     [retention |-> 6]}

MCAge == [f \in Files |-> 4 * (3 - f) + 1]

=============================================================================
