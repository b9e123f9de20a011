----------------------------- MODULE MCSnapshots -----------------------------
(***************************************************************************)
(* Small instances of Snapshots for TLC.  The identifiers are model        *)
(* values; the functions between them are built here.                      *)
(***************************************************************************)
EXTENDS Snapshots, TLC

CONSTANTS host, a1, p1, p2, c1, c2, n1, x1

MCHostOf == [i \in Agents \cup Pods \cup Containers |-> host]

(* Containers belong to p1. *)
MCPodOf == [c \in Containers |-> p1]

(* c2 belongs to no pod. *)
MCPodOfLoose == [c \in Containers |-> IF c = c2 THEN NoPod ELSE p1]

(* Pods share one name, so that one can replace another. *)
MCNameOf == [p \in Pods |-> n1]

MCPlaceholderOf == [n \in Names |-> x1]

RequestSymmetry == Permutations(Requests)

(* The kinds of request each instance offers. *)
PodRequests == {"list", "action", "delete", "create", "compose"}
StatsAndRemove == {"stats", "deleteContainer"}
DeleteAndCreate == {"delete", "secret", "create"}
StatsOnly == {"stats"}

=============================================================================
