-------------------------- MODULE HttpWaiterProofs --------------------------
(***************************************************************************)
(* Proofs about WaitFor200 and WaitForPods for any number of containers    *)
(* and any timeouts: how long a call can last and what nil means.          *)
(***************************************************************************)
EXTENDS HttpWaiter, TLAPS

\* The durations and the number of containers the code can have: its timeouts
\* are positive.
Durations == /\ NumContainers \in Nat
             /\ Timeout \in Nat \ {0}
             /\ Attempt \in Nat
             /\ Backoff \in Nat

\* The waiter starts typed and within its bounds.
LEMMA HttpInit == Durations /\ Init => TypeOK /\ HttpInv
<1> SUFFICES ASSUME Durations, Init PROVE TypeOK /\ HttpInv
  OBVIOUS
<1>1. TypeOK
  BY DEF Durations, Init, TypeOK, containers
<1>2. HttpInv
  BY DEF Durations, Init, HttpInv, CallBounded, containers
<1> QED
  BY <1>1, <1>2

\* Every step of the loops and of the clock keeps the types.
LEMMA HttpTypes == Durations /\ TypeOK /\ HttpInv /\ [Next]_vars => TypeOK'
<1> SUFFICES ASSUME Durations, TypeOK, HttpInv, [Next]_vars PROVE TypeOK'
  OBVIOUS
<1> USE DEF Durations, TypeOK, containers, Return
<1>1. CASE Call
  BY <1>1 DEF Call
<1>2. CASE SkipContainer
  BY <1>2 DEF SkipContainer
<1>3. CASE NoHTTPGet
  BY <1>3 DEF NoHTTPGet
<1>4. CASE WaitFor200
  BY <1>4 DEF WaitFor200
<1>5. CASE AllProbed
  BY <1>5 DEF AllProbed
<1>6. CASE SelectTimeout
  BY <1>6 DEF SelectTimeout
<1>7. CASE SelectDefault
  BY <1>7 DEF SelectDefault
<1>8. CASE Get200
  BY <1>8 DEF Get200, HttpInv
<1>9. CASE GetFails
  BY <1>9 DEF GetFails
<1>10. CASE BodyError
  BY <1>10 DEF BodyError
<1>11. CASE Wake
  BY <1>11 DEF Wake
<1>12. CASE Tick
  BY <1>12 DEF Tick
<1>13. CASE UNCHANGED vars
  BY <1>13 DEF vars
<1> QED
  BY <1>1, <1>2, <1>3, <1>4, <1>5, <1>6, <1>7, <1>8, <1>9, <1>10, <1>11, <1>12, <1>13
     DEF Next, Step

\* Every step keeps the bounds on the clock and what was answered so far.
LEMMA HttpStep == Durations /\ TypeOK /\ HttpInv /\ [Next]_vars => HttpInv'
<1> SUFFICES ASSUME Durations, TypeOK, HttpInv, [Next]_vars PROVE HttpInv'
  OBVIOUS
<1> USE DEF Durations, TypeOK, HttpInv, CallBounded, containers, Return
<1>1. CASE Call
  BY <1>1 DEF Call
<1>2. CASE SkipContainer
  BY <1>2 DEF SkipContainer
<1>3. CASE NoHTTPGet
  BY <1>3 DEF NoHTTPGet
<1>4. CASE WaitFor200
  BY <1>4 DEF WaitFor200
<1>5. CASE AllProbed
  BY <1>5 DEF AllProbed
<1>6. CASE SelectTimeout
  BY <1>6 DEF SelectTimeout
<1>7. CASE SelectDefault
  BY <1>7 DEF SelectDefault, TimeoutSignal
<1>8. CASE Get200
  BY <1>8 DEF Get200
<1>9. CASE GetFails
  BY <1>9 DEF GetFails
<1>10. CASE BodyError
  BY <1>10 DEF BodyError
<1>11. CASE Wake
  BY <1>11 DEF Wake
<1>12. CASE Tick
  BY <1>12 DEF Tick
<1>13. CASE UNCHANGED vars
  BY <1>13 DEF vars
<1> QED
  BY <1>1, <1>2, <1>3, <1>4, <1>5, <1>6, <1>7, <1>8, <1>9, <1>10, <1>11, <1>12, <1>13
     DEF Next, Step

\* The invariant of the waiter holds throughout, for all durations.
THEOREM HttpInvariant == ASSUME Durations PROVE Spec => [](TypeOK /\ HttpInv)
<1>1. Init => TypeOK /\ HttpInv
  BY HttpInit
<1>2. TypeOK /\ HttpInv /\ [Next]_vars => (TypeOK /\ HttpInv)'
  BY HttpTypes, HttpStep
<1> QED
  BY <1>1, <1>2, PTL DEF Spec

\* A call of WaitFor200 outlasts its timeout by less than one attempt and one
\* sleep, whatever the three durations are.
THEOREM CallsAreBounded == ASSUME Durations PROVE Spec => []CallBounded
<1>1. HttpInv => CallBounded
  BY DEF HttpInv
<1> QED
  BY HttpInvariant, <1>1, PTL

\* WaitForPods returns nil only if every container with a liveness probe has
\* answered 200 OK, for any number of containers.
THEOREM NilMeansAllUp == ASSUME Durations PROVE Spec => []OkMeansAllUp
<1>1. TypeOK /\ HttpInv => OkMeansAllUp
  BY DEF TypeOK, HttpInv, OkMeansAllUp, containers, Durations
<1> QED
  BY HttpInvariant, <1>1, PTL
=============================================================================
