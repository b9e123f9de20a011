---------------------------- MODULE BuildLifecycle ----------------------------
(***************************************************************************)
(* What the image_builds table promises whoever reads it: the status of a  *)
(* build only moves forward, a build ends once, and its log only grows, in *)
(* the order queued, started, outcome, with an outcome that agrees with    *)
(* the status.                                                             *)
(***************************************************************************)
EXTENDS Sequences, Naturals

CONSTANT Builds

VARIABLES
    status, \* what the status column of a build says; "none" without a row
    log     \* metadata.logs

Statuses == {"none", "queued", "running", "complete", "failed"}

Ended == {"complete", "failed"}

Entries == {"queued", "started", "complete", "failed"}

Position(e) ==
    CASE e = "queued" -> 1
      [] e = "started" -> 2
      [] OTHER -> 3

(* An entry fits after those already logged. *)
Follows(b, e) == \A i \in DOMAIN log[b] : Position(log[b][i]) < Position(e)

OutcomeLogged(b) == \E i \in DOMAIN log[b] : log[b][i] \in Ended

Accept(b) ==
    /\ status[b] = "none"
    /\ status' = [status EXCEPT ![b] = "queued"]
    /\ log' = [log EXCEPT ![b] = <<"queued">>]

Run(b) ==
    /\ status[b] = "queued"
    /\ ~OutcomeLogged(b)
    /\ status' = [status EXCEPT ![b] = "running"]
    /\ UNCHANGED log

Finish(b) ==
    /\ status[b] \in {"queued", "running"}
    /\ ~OutcomeLogged(b)
    /\ \E s \in Ended : status' = [status EXCEPT ![b] = s]
    /\ UNCHANGED log

(* A write that is lost may leave the status behind, never ahead. *)
Record(b) ==
    /\ status[b] # "none"
    /\ \E e \in Entries :
          /\ Follows(b, e)
          /\ status[b] \in Ended => e = status[b]
          /\ log' = [log EXCEPT ![b] = Append(@, e)]
    /\ UNCHANGED status

Init ==
    /\ status = [b \in Builds |-> "none"]
    /\ log = [b \in Builds |-> <<>>]

Next == \E b \in Builds : Accept(b) \/ Run(b) \/ Finish(b) \/ Record(b)

vars == <<status, log>>

Spec == Init /\ [][Next]_vars

=============================================================================
