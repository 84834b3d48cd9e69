----------------------------- MODULE HttpWaiter -----------------------------
(***************************************************************************)
(* WaitForPods: one container after the other, each liveness probe of the  *)
(* static pods is polled by WaitFor200 until it answers 200 OK.  The       *)
(* timeout of WaitFor200 is looked at between attempts only; an attempt    *)
(* has a timeout of its own and a failed one is followed by a sleep.       *)
(*                                                                         *)
(* Time is discrete.  The answer of an endpoint is chosen when it arrives. *)
(* The containers of all pods are numbered through, in the order of the    *)
(* loops.                                                                  *)
(***************************************************************************)
EXTENDS Naturals

CONSTANTS NumContainers,
          Timeout,   \* of WaitFor200: 5 minutes for a probe
          Attempt,   \* of http.Client: 1 minute
          Backoff    \* time.Sleep(time.Second * 10)

VARIABLES
  probe,     \* the liveness probe of each container: "none", "http", or a
             \* kind without HTTPGet: "other"
  container, \* the container the loops are at
  pc,        \* "idle", "next", or inside WaitFor200: "select", "get", "sleep"; "returned"
  result,    \* "none", "ok", "timeout", "error" or "panic"
  now,       \* time since this call of WaitFor200
  age,       \* time since this attempt or this sleep
  answered   \* containers that answered 200 (history)

vars == <<probe, container, pc, result, now, age, answered>>

containers == 1..NumContainers

TypeOK ==
  /\ probe \in [containers -> {"none", "http", "other"}]
  /\ container \in 1..(NumContainers + 1)
  /\ pc \in {"idle", "next", "select", "get", "sleep", "returned"}
  /\ result \in {"none", "ok", "timeout", "error", "panic"}
  /\ now \in Nat
  /\ age \in Nat
  /\ answered \in SUBSET containers

Init ==
  /\ probe = [c \in containers |-> "none"]
  /\ container = 1
  /\ pc = "idle"
  /\ result = "none"
  /\ now = 0
  /\ age = 0
  /\ answered = {}

\* The pods are what EnableStaticPods found.
Call ==
  /\ pc = "idle"
  /\ pc' = "next"
  /\ probe' \in [containers -> {"none", "http", "other"}]
  /\ UNCHANGED <<container, result, now, age, answered>>

Return(r) == pc' = "returned" /\ result' = r

-----------------------------------------------------------------------------
(* waitForPodLiveness and WaitForPods. *)
SkipContainer ==
  /\ pc = "next"
  /\ container \in containers
  /\ probe[container] = "none"
  /\ container' = container + 1
  /\ UNCHANGED <<probe, pc, result, now, age, answered>>

\* HTTPGet is nil and its scheme is read.
NoHTTPGet ==
  /\ pc = "next"
  /\ container \in containers
  /\ probe[container] = "other"
  /\ Return("panic")
  /\ UNCHANGED <<probe, container, now, age, answered>>

WaitFor200 ==
  /\ pc = "next"
  /\ container \in containers
  /\ probe[container] = "http"
  /\ pc' = "select"
  /\ now' = 0
  /\ UNCHANGED <<probe, container, result, age, answered>>

AllProbed ==
  /\ pc = "next"
  /\ container = NumContainers + 1
  /\ Return("ok")
  /\ now' = 0 /\ age' = 0   \* the call is over
  /\ UNCHANGED <<probe, container, answered>>

-----------------------------------------------------------------------------
(* WaitFor200. *)

\* Mutant: the timer runs with the attempt's timeout added.
TimeoutLate == now >= Timeout + Attempt

\* timeoutSignal has fired.
TimeoutSignal == now >= Timeout

SelectTimeout ==
  /\ pc = "select"
  /\ TimeoutSignal
  /\ Return("timeout")
  /\ UNCHANGED <<probe, container, now, age, answered>>

SelectDefault ==
  /\ pc = "select"
  /\ ~TimeoutSignal
  /\ pc' = "get"
  /\ age' = 0
  /\ UNCHANGED <<probe, container, result, now, answered>>

\* Mutant: any answer is good.
Get200Any ==
  /\ pc = "get"
  /\ answered' \in {answered, answered \cup {container}}
  /\ pc' = "next"
  /\ container' = container + 1
  /\ UNCHANGED <<probe, result, now, age>>

Get200 ==
  /\ pc = "get"
  /\ answered' = answered \cup {container}
  /\ pc' = "next"
  /\ container' = container + 1
  /\ UNCHANGED <<probe, result, now, age>>

\* The call fails, times out, or its status is not 200.
GetFails ==
  /\ pc = "get"
  /\ pc' = "sleep"
  /\ age' = 0
  /\ UNCHANGED <<probe, container, result, now, answered>>

BodyError ==
  /\ pc = "get"
  /\ Return("error")
  /\ UNCHANGED <<probe, container, now, age, answered>>

Wake ==
  /\ pc = "sleep"
  /\ age = Backoff
  /\ pc' = "select"
  /\ UNCHANGED <<probe, container, result, now, age, answered>>

\* Time passes in an attempt, until its own timeout, and in a sleep.
Tick ==
  /\ \/ pc = "get" /\ age < Attempt
     \/ pc = "sleep" /\ age < Backoff
  /\ now' = now + 1
  /\ age' = age + 1
  /\ UNCHANGED <<probe, container, pc, result, answered>>

-----------------------------------------------------------------------------
Step == \/ Call \/ SkipContainer \/ NoHTTPGet \/ WaitFor200 \/ AllProbed
        \/ SelectTimeout \/ SelectDefault \/ Get200 \/ GetFails \/ BodyError
        \/ Wake
Next == Step \/ Tick

Spec == Init /\ [][Next]_vars

-----------------------------------------------------------------------------
\* A call of WaitFor200 outlasts its timeout by less than one attempt and one
\* sleep, whatever the endpoint does.
CallBounded == now < Timeout + Attempt + Backoff

\* WaitForPods returns nil only if every container with a liveness probe has
\* answered 200 OK.
OkMeansAllUp ==
  result = "ok" => \A c \in containers : probe[c] # "none" => c \in answered

\* The inductive invariant behind the two: an attempt starts before the
\* timeout, and the containers already passed have answered.
HttpInv ==
  /\ pc = "idle" => container = 1
  /\ pc = "get" => now < Timeout + age /\ age <= Attempt
  /\ pc = "sleep" => now < Timeout + Attempt + age /\ age <= Backoff
  /\ CallBounded
  /\ pc \in {"select", "get", "sleep"} => container \in containers
  /\ \A c \in containers : c < container /\ probe[c] # "none" => c \in answered
  /\ result = "ok" => container = NumContainers + 1
=============================================================================
