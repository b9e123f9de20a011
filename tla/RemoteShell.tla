------------------------------ MODULE RemoteShell ------------------------------
(***************************************************************************)
(* Abstract: what the user of an interactive shell is promised, whatever   *)
(* carries it.  Both directions may lose an end, never a middle: who reads *)
(* gets what is due, the first message that has not arrived yet.           *)
(***************************************************************************)
EXTENDS Naturals, Sequences

VARIABLES
    typed,   \* messages of the user
    void,    \* those of them no shell reads
    read,    \* what the shell has read
    written, \* pieces of output
    shown,   \* what the user was shown
    shell    \* "off", "running", "exited", "orphan"

vars == <<typed, void, read, written, shown, shell>>

Elements(s) == {s[i] : i \in DOMAIN s}

Displayed == {m.n : m \in {x \in Elements(shown) : x.kind = "output"}}

Due(n, arrived) == n \notin arrived /\ 1..(n - 1) \subseteq arrived

Init ==
    /\ typed = 0 /\ void = {} /\ read = <<>>
    /\ written = 0 /\ shown = <<>>
    /\ shell = "off"

Type ==
    /\ typed' = typed + 1
    /\ void' \in {void, void \cup {typed + 1}}
    /\ UNCHANGED <<read, written, shown, shell>>

(* Nothing was shown of a shell that starts. *)
Start ==
    /\ shell = "off" /\ shown = <<>>
    /\ shell' = "running"
    /\ UNCHANGED <<typed, void, read, written, shown>>

Read ==
    /\ shell = "running"
    /\ \E n \in 1..typed :
          /\ Due(n, void \cup Elements(read))
          /\ read' = Append(read, n)
    /\ UNCHANGED <<typed, void, written, shown, shell>>

Write ==
    /\ shell = "running"
    /\ written' = written + 1
    /\ UNCHANGED <<typed, void, read, shown, shell>>

Output ==
    /\ shown # <<>>
    /\ \E n \in 1..written :
          /\ Due(n, Displayed)
          /\ shown' = Append(shown, [kind |-> "output", n |-> n])
    /\ UNCHANGED <<typed, void, read, written, shell>>

(* "connected" comes first, unless the shell did not start; "closed" comes *)
(* only of a shell that has ended.                                         *)
Announce ==
    /\ \E kind \in {"connected", "error", "closed"} :
          /\ shown' = Append(shown, [kind |-> kind, n |-> 0])
          /\ shell # "off" => (kind = "connected" <=> shown = <<>>)
          /\ shell = "off" => kind = "error"
          /\ kind = "closed" => shell \in {"exited", "orphan"}
    /\ UNCHANGED <<typed, void, read, written, shell>>

End ==
    /\ shell = "running"
    /\ shell' \in {"exited", "orphan"}
    /\ UNCHANGED <<typed, void, read, written, shown>>

Next == Type \/ Start \/ Read \/ Write \/ Output \/ Announce \/ End

Spec == Init /\ [][Next]_vars

=============================================================================
