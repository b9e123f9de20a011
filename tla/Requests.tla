------------------------------ MODULE Requests ------------------------------
(***************************************************************************)
(* The connections of podorel-web: what each one carries, where its request *)
(* stands and how it was answered.  The handlers (Settings, SecurityScans,  *)
(* LogHistory) and the process that runs them (WebProcess) extend it.       *)
(*                                                                         *)
(* A connection carries one request: a later one on it, or one beside it    *)
(* over HTTP/2, is as one on another connection.  A client that hangs up is *)
(* one whose store and agent calls fail from then on, and any may fail.     *)
(***************************************************************************)
CONSTANTS
    Conns,      \* the connections clients make
    Mixes       \* what they carry: a set of functions from Conns to Kinds

(* What a connection brings: TLS with PUT /api/settings, POST              *)
(* /api/security/scan or GET /api/logs/history, or plain HTTP.              *)
Kinds == {"put", "scan", "history", "plain"}

ASSUME MixesAssumption == Mixes \subseteq [Conns -> Kinds]

Replies ==
    {"none", "error", "refused", "redirect", "saved", "complete", "failed",
     "unavailable", "history"}

VARIABLES
    kind,       \* what each connection carries
    at,         \* the step each connection is before
    reply,      \* the answer it got
    wire        \* what an answered connection does: "none" (nothing, or it is
                \* closed), "writing" its answer, or "kept" for a next request

reqVars == <<kind, at, reply, wire>>

Go(c, step) ==
    /\ at' = [at EXCEPT ![c] = step]
    /\ UNCHANGED <<kind, reply, wire>>

(* The request is over.  Its answer has yet to reach the client; without one *)
(* ("none") the server closes the connection.                                *)
Answer(c, r) ==
    /\ at' = [at EXCEPT ![c] = "ended"]
    /\ reply' = [reply EXCEPT ![c] = r]
    /\ wire' = IF r = "none" THEN wire ELSE [wire EXCEPT ![c] = "writing"]
    /\ UNCHANGED kind

GoOn(c, w) ==
    /\ wire' = [wire EXCEPT ![c] = w]
    /\ UNCHANGED <<kind, at, reply>>

=============================================================================
