------------------------- MODULE LoginThrottleProofs -------------------------
(***************************************************************************)
(* Proofs about LoginThrottle, for every limit, window and concurrency.    *)
(***************************************************************************)
EXTENDS LoginThrottle, FiniteSetTheorems, TLAPS

(* Compaction drops expired failures only: a.failures and the history of   *)
(* guesses agree on the window.                                            *)
SameWindow(k) == Unexpired(failures[k]) = Unexpired(guesses[k])

(* Failures in the window and logins about to add one, together. *)
Budget(k) ==
    /\ Cardinality(InFlight(k)) <= Concurrency
    /\ Cardinality(Unexpired(failures[k])) + Cardinality(InFlight(k))
         <= Limit - 1 + Concurrency

KeyInv(k) ==
    /\ IsFiniteSet(failures[k])
    /\ SameWindow(k)
    /\ Budget(k)

Inv == TypeOK /\ \A k \in Keys : KeyInv(k)

(* An unexpired part of a finite set is finite and no larger. *)
LEMMA UnexpiredFinite ==
  ASSUME NEW S, IsFiniteSet(S)
  PROVE  IsFiniteSet(Unexpired(S)) /\ Cardinality(Unexpired(S)) \in Nat
<1>1. Unexpired(S) \subseteq S
  BY DEF Unexpired
<1> QED
  BY <1>1, FS_Subset, FS_CardinalityType

LEMMA InFlightFinite ==
  ASSUME NEW k
  PROVE  IsFiniteSet(InFlight(k)) /\ Cardinality(InFlight(k)) \in Nat
<1>1. InFlight(k) \subseteq Logins
  BY DEF InFlight
<1> QED
  BY <1>1, ThrottleAssumption, FS_Subset, FS_CardinalityType

LEMMA InFlightFiniteNext ==
  ASSUME NEW k
  PROVE  IsFiniteSet(InFlight(k)') /\ Cardinality(InFlight(k)') \in Nat
<1>1. InFlight(k)' \subseteq Logins
  BY DEF InFlight
<1> QED
  BY <1>1, ThrottleAssumption, FS_Subset, FS_CardinalityType

LEMMA AddOne ==
  ASSUME NEW S, IsFiniteSet(S), NEW x
  PROVE  /\ IsFiniteSet(S \cup {x})
         /\ Cardinality(S \cup {x}) <= Cardinality(S) + 1
<1>1. Cardinality(S) \in Nat
  BY FS_CardinalityType
<1>2. IsFiniteSet(S \cup {x})
  BY FS_AddElement
<1>3. Cardinality(S \cup {x}) = Cardinality(S) \/ Cardinality(S \cup {x}) = Cardinality(S) + 1
  BY FS_AddElement
<1> QED
  BY <1>1, <1>2, <1>3

LEMMA InitInv == Init => Inv
<1> SUFFICES ASSUME Init PROVE Inv
  OBVIOUS
<1>1. TypeOK
  BY DEF Init, TypeOK, Steps, Failures
<1>2. ASSUME NEW k \in Keys PROVE KeyInv(k)
  <2>1. failures[k] = {} /\ guesses[k] = {} /\ InFlight(k) = {}
    BY DEF Init, InFlight
  <2>2. Unexpired(failures[k]) = {} /\ Unexpired(guesses[k]) = {}
    BY <2>1 DEF Unexpired
  <2>3. IsFiniteSet({}) /\ Cardinality({}) = 0
    BY FS_EmptySet
  <2> QED
    BY <2>1, <2>2, <2>3, ThrottleAssumption DEF KeyInv, SameWindow, Budget
<1> QED
  BY <1>1, <1>2 DEF Inv

LEMMA TypeStep == TypeOK /\ [Next]_vars => TypeOK'
<1> SUFFICES ASSUME TypeOK, [Next]_vars PROVE TypeOK'
  OBVIOUS
<1>1. CASE Tick
  BY <1>1 DEF Tick, TypeOK
<1>2. ASSUME NEW l \in Logins, Login(l) PROVE TypeOK'
  <2>1. KeyOf[l] \in Keys /\ [by |-> l, at |-> now] \in Failures
    BY ThrottleAssumption DEF TypeOK, Failures
  <2>2. ASSUME NEW k \in Keys PROVE Unexpired(failures[k]) \subseteq Failures
    BY DEF Unexpired, TypeOK
  <2> QED
    BY <1>2, <2>1, <2>2 DEF Login, Check, Verify, RecordFailure, ClearFailures,
       CreateSession, Goto, Compact, TypeOK, Steps
<1>3. CASE UNCHANGED vars
  BY <1>3 DEF vars, TypeOK
<1> QED
  BY <1>1, <1>2, <1>3 DEF Next

(* The clock only takes failures out of the window. *)
LEMMA TickKey ==
  ASSUME Inv, Tick, NEW k \in Keys
  PROVE  KeyInv(k)'
<1>1. KeyInv(k) /\ now \in Nat /\ now' = now + 1
  BY DEF Inv, Tick, TypeOK
<1>2. UNCHANGED <<pc, failures, guesses>>
  BY DEF Tick
<1>3. \A f \in failures[k] \cup guesses[k] : f.at \in Nat
  BY DEF Inv, TypeOK, Failures
<1>4. /\ Unexpired(failures[k])' = {f \in Unexpired(failures[k]) : f.at > now' - Window}
      /\ Unexpired(guesses[k])' = {f \in Unexpired(guesses[k]) : f.at > now' - Window}
  BY <1>1, <1>2, <1>3, ThrottleAssumption DEF Unexpired
<1>5. Unexpired(failures[k])' \subseteq Unexpired(failures[k])
  BY <1>4
<1>6. IsFiniteSet(Unexpired(failures[k])) /\ Cardinality(Unexpired(failures[k])) \in Nat
  BY <1>1, UnexpiredFinite DEF KeyInv
<1>7. /\ Cardinality(Unexpired(failures[k])') \in Nat
      /\ Cardinality(Unexpired(failures[k])') <= Cardinality(Unexpired(failures[k]))
  BY <1>5, <1>6, FS_Subset, FS_CardinalityType
<1>8. InFlight(k)' = InFlight(k)
  BY <1>2 DEF InFlight
<1>9. SameWindow(k)'
  BY <1>1, <1>4 DEF KeyInv, SameWindow
<1>10. Budget(k)'
  BY <1>1, <1>6, <1>7, <1>8, InFlightFinite, ThrottleAssumption DEF KeyInv, Budget
<1> QED
  BY <1>1, <1>2, <1>9, <1>10 DEF KeyInv

(* A login of another key leaves this one alone. *)
LEMMA OtherKey ==
  ASSUME Inv, NEW l \in Logins, Login(l), NEW k \in Keys, k # KeyOf[l]
  PROVE  KeyInv(k)'
<1>1. KeyInv(k) /\ now' = now /\ failures'[k] = failures[k] /\ guesses'[k] = guesses[k]
  BY DEF Inv, TypeOK, Login, Check, Verify, RecordFailure, ClearFailures,
         CreateSession, Compact
<1>2. \A m \in Logins \ {l} : pc'[m] = pc[m]
  BY DEF Inv, TypeOK, Login, Check, Verify, RecordFailure, ClearFailures,
         CreateSession, Goto
<1>3. InFlight(k)' = InFlight(k)
  BY <1>2 DEF InFlight
<1> QED
  BY <1>1, <1>3 DEF KeyInv, SameWindow, Budget, Unexpired

LEMMA CheckKey ==
  ASSUME Inv, NEW l \in Logins, Check(l)
  PROVE  KeyInv(KeyOf[l])'
<1> DEFINE k == KeyOf[l]
<1>1. k \in Keys /\ KeyInv(k) /\ now' = now /\ now \in Nat /\ guesses' = guesses
  BY ThrottleAssumption DEF Inv, Check, TypeOK
<1>2. failures'[k] = Unexpired(failures[k])
  BY <1>1 DEF Check, Compact, Inv, TypeOK
<1>3. Unexpired(failures[k])' = Unexpired(failures[k])
  BY <1>1, <1>2 DEF Unexpired
<1>4. IsFiniteSet(failures'[k]) /\ Cardinality(Unexpired(failures[k])) \in Nat
  BY <1>1, <1>2, UnexpiredFinite DEF KeyInv
<1>5. SameWindow(k)'
  BY <1>1, <1>3 DEF KeyInv, SameWindow, Unexpired
<1>6. CASE LimitReached(k)
  <2>1. InFlight(k)' = InFlight(k)
    BY <1>6 DEF Check, Goto, InFlight, Inv, TypeOK
  <2> QED
    BY <1>1, <1>3, <1>4, <1>5, <2>1 DEF KeyInv, Budget
<1>7. CASE ~LimitReached(k)
  <2>1. InFlight(k)' = InFlight(k) \cup {l} /\ l \notin InFlight(k)
    BY <1>7 DEF Check, Goto, InFlight, Inv, TypeOK
  <2>2. Cardinality(InFlight(k)') = Cardinality(InFlight(k)) + 1
    BY <2>1, InFlightFinite, FS_AddElement
  <2>3. Cardinality(InFlight(k)) < Concurrency
    BY DEF Check
  <2>4. Cardinality(Unexpired(failures[k])) < Limit
    BY <1>4, <1>7, ThrottleAssumption DEF LimitReached
  <2>5. Budget(k)'
    BY <1>3, <1>4, <2>2, <2>3, <2>4, InFlightFinite, ThrottleAssumption DEF Budget
  <2> QED
    BY <1>4, <1>5, <2>5 DEF KeyInv
<1> QED
  BY <1>6, <1>7

LEMMA RecordKey ==
  ASSUME Inv, NEW l \in Logins, RecordFailure(l)
  PROVE  KeyInv(KeyOf[l])'
<1> DEFINE k == KeyOf[l]
           f == [by |-> l, at |-> now]
<1>1. k \in Keys /\ KeyInv(k) /\ now' = now /\ now \in Nat
  BY ThrottleAssumption DEF Inv, RecordFailure, TypeOK
<1>2. /\ failures'[k] = Unexpired(failures[k]) \cup {f}
      /\ guesses'[k] = guesses[k] \cup {f}
  BY <1>1 DEF RecordFailure, Inv, TypeOK
<1>3. /\ Unexpired(failures[k])' \subseteq Unexpired(failures[k]) \cup {f}
      /\ Unexpired(failures[k])' = Unexpired(guesses[k])'
  BY <1>1, <1>2 DEF Unexpired, KeyInv, SameWindow
<1>4. IsFiniteSet(Unexpired(failures[k])) /\ Cardinality(Unexpired(failures[k])) \in Nat
  BY <1>1, UnexpiredFinite DEF KeyInv
<1>5. /\ IsFiniteSet(Unexpired(failures[k]) \cup {f})
      /\ Cardinality(Unexpired(failures[k]) \cup {f}) <= Cardinality(Unexpired(failures[k])) + 1
  BY <1>4, AddOne
<1>6. /\ Cardinality(Unexpired(failures[k])') \in Nat
      /\ Cardinality(Unexpired(failures[k])') <= Cardinality(Unexpired(failures[k])) + 1
  BY <1>3, <1>4, <1>5, FS_Subset, FS_CardinalityType
<1>7. InFlight(k)' = InFlight(k) \ {l} /\ l \in InFlight(k)
  BY DEF RecordFailure, Goto, InFlight, Inv, TypeOK
<1>8. Cardinality(InFlight(k)') = Cardinality(InFlight(k)) - 1
  BY <1>7, InFlightFinite, FS_RemoveElement
<1>9. Budget(k)'
  BY <1>1, <1>4, <1>6, <1>8, InFlightFinite, ThrottleAssumption DEF KeyInv, Budget
<1> QED
  BY <1>2, <1>3, <1>5, <1>9 DEF KeyInv, SameWindow

(* Verifying, clearing and creating a session add no failure and let       *)
(* nobody past the check.                                                  *)
LEMMA QuietKey ==
  ASSUME Inv, NEW l \in Logins, Verify(l) \/ ClearFailures(l) \/ CreateSession(l)
  PROVE  KeyInv(KeyOf[l])'
<1> DEFINE k == KeyOf[l]
<1>1. k \in Keys /\ KeyInv(k) /\ now' = now /\ now \in Nat
  BY ThrottleAssumption DEF Inv, Verify, ClearFailures, CreateSession, TypeOK
<1>2. \/ failures'[k] = failures[k] /\ guesses'[k] = guesses[k]
      \/ failures'[k] = {} /\ guesses'[k] = {}
  BY <1>1 DEF Inv, TypeOK, Verify, ClearFailures, CreateSession
<1>3. /\ Unexpired(failures[k])' \subseteq Unexpired(failures[k])
      /\ SameWindow(k)'
      /\ failures'[k] \subseteq failures[k]
  BY <1>1, <1>2 DEF Unexpired, KeyInv, SameWindow
<1>4. IsFiniteSet(Unexpired(failures[k])) /\ Cardinality(Unexpired(failures[k])) \in Nat
  BY <1>1, UnexpiredFinite DEF KeyInv
<1>5. /\ Cardinality(Unexpired(failures[k])') \in Nat
      /\ Cardinality(Unexpired(failures[k])') <= Cardinality(Unexpired(failures[k]))
  BY <1>3, <1>4, FS_Subset, FS_CardinalityType
<1>6. InFlight(k)' \subseteq InFlight(k)
  BY DEF Inv, TypeOK, InFlight, Verify, ClearFailures, CreateSession, Goto
<1>7. /\ Cardinality(InFlight(k)') \in Nat
      /\ Cardinality(InFlight(k)') <= Cardinality(InFlight(k))
  BY <1>6, InFlightFinite, FS_Subset, FS_CardinalityType
<1>8. Budget(k)'
  BY <1>1, <1>4, <1>5, <1>7, InFlightFinite, ThrottleAssumption DEF KeyInv, Budget
<1>9. IsFiniteSet(failures'[k])
  BY <1>1, <1>3, FS_Subset DEF KeyInv
<1> QED
  BY <1>3, <1>8, <1>9 DEF KeyInv

LEMMA StepInv == Inv /\ [Next]_vars => Inv'
<1> SUFFICES ASSUME Inv, [Next]_vars PROVE Inv'
  OBVIOUS
<1>1. TypeOK'
  BY TypeStep DEF Inv
<1>2. ASSUME NEW k \in Keys PROVE KeyInv(k)'
  <2>1. CASE Tick
    BY <2>1, TickKey
  <2>2. ASSUME NEW l \in Logins, Login(l) PROVE KeyInv(k)'
    <3>1. CASE k # KeyOf[l]
      BY <2>2, <3>1, OtherKey
    <3>2. CASE k = KeyOf[l]
      BY <2>2, <3>2, CheckKey, RecordKey, QuietKey DEF Login
    <3> QED
      BY <3>1, <3>2
  <2>3. CASE UNCHANGED vars
    BY <2>3 DEF vars, Inv, KeyInv, SameWindow, Budget, Unexpired, InFlight
  <2> QED
    BY <2>1, <2>2, <2>3 DEF Next
<1> QED
  BY <1>1, <1>2 DEF Inv

LEMMA InvImpliesBound == Inv => GuessesBounded
<1> SUFFICES ASSUME Inv, NEW k \in Keys
             PROVE  Cardinality(Unexpired(guesses[k])) <= Limit - 1 + Concurrency
  BY DEF GuessesBounded
<1>1. KeyInv(k)
  BY DEF Inv
<1>2. Cardinality(Unexpired(failures[k])) \in Nat
  BY <1>1, UnexpiredFinite DEF KeyInv
<1> QED
  BY <1>1, <1>2, InFlightFinite, ThrottleAssumption DEF KeyInv, SameWindow, Budget

(* Every login is at one of its steps, and what is kept of a key are the   *)
(* failures of its logins (TypeOK).                                        *)
THEOREM ThrottleTypeCorrect == Spec => []TypeOK
<1>1. Inv => TypeOK
  BY DEF Inv
<1> QED
  BY <1>1, InitInv, StepInv, PTL DEF Spec

(* However throttled, recordFailure and clearFailures interleave, the      *)
(* wrong guesses of a window never exceed the limit by more than the       *)
(* logins verified at once: the bound of GuessesBounded, for every limit.  *)
THEOREM GuessesBoundedAlways == Spec => []GuessesBounded
  BY InitInv, StepInv, InvImpliesBound, PTL DEF Spec

(* Only a check against a full window turns a login away.                  *)
LEMMA ThrottledAtLimit ==
  ASSUME Inv, [Next]_vars, NEW l \in Logins, pc[l] # "throttled", pc'[l] = "throttled"
  PROVE  Cardinality({g \in guesses[KeyOf[l]] : g.at + Window > now}) >= Limit
<1>1. PICK m \in Logins : Login(m)
  BY DEF Next, Tick, vars
<1>2. m = l /\ Check(l) /\ LimitReached(KeyOf[l])
  BY <1>1 DEF Login, Check, Verify, RecordFailure, ClearFailures, CreateSession, Goto,
     Inv, TypeOK
<1>3. KeyOf[l] \in Keys /\ SameWindow(KeyOf[l])
  BY ThrottleAssumption DEF Inv, KeyInv
<1>4. {g \in guesses[KeyOf[l]] : g.at + Window > now} = Unexpired(guesses[KeyOf[l]])
  BY <1>3, ThrottleAssumption DEF Unexpired, Inv, TypeOK, Failures
<1> QED
  BY <1>2, <1>3, <1>4 DEF LimitReached, SameWindow

(* The limiter refuses a login only after Limit real failures within the   *)
(* window and since the last success (ThrottledForCause).                  *)
THEOREM ThrottledForCauseAlways == Spec => ThrottledForCause
<1>1. Inv /\ [Next]_vars =>
        [\A l \in Logins : pc[l] # "throttled" /\ pc'[l] = "throttled" =>
           Cardinality({g \in guesses[KeyOf[l]] : g.at + Window > now}) >= Limit]_vars
  BY ThrottledAtLimit
<1> QED
  BY <1>1, InitInv, StepInv, PTL DEF Spec, ThrottledForCause

=============================================================================
