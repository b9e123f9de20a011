---------------------------- MODULE LoginThrottle ----------------------------
(***************************************************************************)
(* The limiter in front of both logins (throttled, recordFailure,          *)
(* clearFailures in server/internal/app/helpers.go, called from            *)
(* handlePasswordLogin and handleAgentTokenLogin).                         *)
(*                                                                         *)
(* Each of the three takes the mutex for itself only: other logins for the *)
(* same key run between the check, the verification and the bookkeeping.   *)
(***************************************************************************)
EXTENDS Integers, FiniteSets

CONSTANTS
    Logins,      \* login requests; each is made once
    Keys,        \* "password:<user>" and "agent-token:<hash>"
    KeyOf,       \* the key of a login
    Limit,       \* cfg.Auth.FailedLoginLimit
    Window,      \* cfg.Auth.FailedWindow
    Concurrency, \* the most logins of one key that are verified at once
    MaxNow       \* bound: the clock stops here

ASSUME ThrottleAssumption ==
    /\ IsFiniteSet(Logins)
    /\ KeyOf \in [Logins -> Keys]
    /\ Limit \in Nat \ {0}
    /\ Window \in Nat
    /\ Concurrency \in Nat \ {0}
    /\ MaxNow \in Nat

VARIABLES
    now,      \* a.now()
    pc,       \* where a login is
    failures, \* a.failures: per key, who failed and when
    guesses   \* history: every failed verification since the last success

vars == <<now, pc, failures, guesses>>

Failures == [by : Logins, at : Nat]

Steps == {"idle", "verify", "record", "clear", "session", "in", "refused",
          "throttled", "error"}

(* compactFailures: what lies after windowStart stays. *)
Unexpired(set) == {f \in set : f.at > now - Window}

(* Logins let through to the verification and not yet accounted for. *)
InFlight(k) == {l \in Logins : KeyOf[l] = k /\ pc[l] \in {"verify", "record"}}

Compact(k) == failures' = [failures EXCEPT ![k] = Unexpired(@)]

Goto(l, step) == pc' = [pc EXCEPT ![l] = step]

(* Mutant: one failure more than the limit is let through. *)
OverLimit(k) == Cardinality(Unexpired(failures[k])) > Limit

LimitReached(k) == Cardinality(Unexpired(failures[k])) >= Limit

(* throttled: compacts, and lets the login through or refuses it. *)
Check(l) ==
    /\ pc[l] = "idle"
    /\ Cardinality(InFlight(KeyOf[l])) < Concurrency
    /\ Goto(l, IF LimitReached(KeyOf[l]) THEN "throttled" ELSE "verify")
    /\ Compact(KeyOf[l])
    /\ UNCHANGED <<now, guesses>>

(* The user or token lookup and the comparison of the secret. *)
Verify(l) ==
    /\ pc[l] = "verify"
    /\ \E right \in BOOLEAN : Goto(l, IF right THEN "clear" ELSE "record")
    /\ UNCHANGED <<now, failures, guesses>>

(* Mutant: the failure is recorded at windowStart. *)
RecordEarlier(l) ==
    /\ pc[l] = "record"
    /\ LET f == [by |-> l, at |-> now - Window] IN
          /\ failures' = [failures EXCEPT ![KeyOf[l]] = Unexpired(@) \cup {f}]
          /\ guesses' = [guesses EXCEPT ![KeyOf[l]] = @ \cup {f}]
    /\ Goto(l, "refused")
    /\ UNCHANGED now

RecordFailure(l) ==
    /\ pc[l] = "record"
    /\ LET f == [by |-> l, at |-> now] IN
          /\ failures' = [failures EXCEPT ![KeyOf[l]] = Unexpired(@) \cup {f}]
          /\ guesses' = [guesses EXCEPT ![KeyOf[l]] = @ \cup {f}]
    /\ Goto(l, "refused")
    /\ UNCHANGED now

(* Mutant: a success leaves the recorded failures in place. *)
ClearNothing(l) ==
    /\ pc[l] = "clear"
    /\ guesses' = [guesses EXCEPT ![KeyOf[l]] = {}]
    /\ Goto(l, "session")
    /\ UNCHANGED <<now, failures>>

ClearFailures(l) ==
    /\ pc[l] = "clear"
    /\ failures' = [failures EXCEPT ![KeyOf[l]] = {}]
    /\ guesses' = [guesses EXCEPT ![KeyOf[l]] = {}]
    /\ Goto(l, "session")
    /\ UNCHANGED now

(* The session is stored, or its INSERT fails: the failures stay cleared. *)
CreateSession(l) ==
    /\ pc[l] = "session"
    /\ \E step \in {"in", "error"} : Goto(l, step)
    /\ UNCHANGED <<now, failures, guesses>>

Login(l) ==
    \/ Check(l) \/ Verify(l) \/ RecordFailure(l) \/ ClearFailures(l)
    \/ CreateSession(l)

Tick ==
    /\ now < MaxNow
    /\ now' = now + 1
    /\ UNCHANGED <<pc, failures, guesses>>

Init ==
    /\ now = 0
    /\ pc = [l \in Logins |-> "idle"]
    /\ failures = [k \in Keys |-> {}]
    /\ guesses = [k \in Keys |-> {}]

Next == Tick \/ \E l \in Logins : Login(l)

Spec == Init /\ [][Next]_vars

-----------------------------------------------------------------------------
(* Correctness. *)

(* The clock, the logins and the recorded failures keep their types. *)
TypeOK ==
    /\ now \in Nat
    /\ pc \in [Logins -> Steps]
    /\ failures \in [Keys -> SUBSET Failures]
    /\ guesses \in [Keys -> SUBSET Failures]

(* However logins interleave between throttled and recordFailure, no       *)
(* window holds more wrong guesses for a key than the limit allows plus    *)
(* the logins that were already past the check.                            *)
GuessesBounded ==
    \A k \in Keys : Cardinality(Unexpired(guesses[k])) <= Limit - 1 + Concurrency

(* A login is turned away by the limiter only when that many logins really *)
(* failed within the window and none has succeeded since: the limiter      *)
(* counts neither expired failures nor refusals of its own.                *)
ThrottledForCause ==
    [][\A l \in Logins : pc[l] # "throttled" /\ pc'[l] = "throttled" =>
          Cardinality({g \in guesses[KeyOf[l]] : g.at + Window > now}) >= Limit]_vars

=============================================================================
