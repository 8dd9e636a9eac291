-------------------------- MODULE CyFutureAbstract --------------------------
(***************************************************************************)
(* What cy.h promises of response futures, without the indices: a future  *)
(* is registered by a cy_publish that accepts it, then completes once,    *)
(* with the response or, after its deadline has passed, with a failure,   *)
(* and may then be reused.  CyFuture implements this specification under  *)
(* the mapping in MCCyFuture.                                              *)
(***************************************************************************)
EXTENDS Naturals

CONSTANTS Futures, MaxTime

VARIABLES
  pending,   \* the futures awaiting a response
  outcome,   \* the state a future was left in: none, success or failure
  deadline,  \* the response deadline of each pending future
  clock      \* the platform clock

vars == <<pending, outcome, deadline, clock>>

Outcomes == {"none", "success", "failure"}

Init ==
  /\ pending = {}
  /\ outcome = [f \in Futures |-> "none"]
  /\ deadline = [f \in Futures |-> 0]
  /\ clock = 0

\* cy_publish "will not register the response future unless the result is
\* non-negative"; a registered future must not be altered until done.
Register(f, dl) ==
  /\ f \notin pending
  /\ pending' = pending \cup {f}
  /\ outcome' = [outcome EXCEPT ![f] = "none"]
  /\ deadline' = [deadline EXCEPT ![f] = dl]
  /\ UNCHANGED clock

\* The CY_RPC_SERVICE_ID_TOPIC_RESPONSE handler "delivers the optional
\* response to a message published on a topic".
Succeed(f) ==
  /\ f \in pending
  /\ pending' = pending \ {f}
  /\ outcome' = [outcome EXCEPT ![f] = "success"]
  /\ deadline' = [deadline EXCEPT ![f] = 0]
  /\ UNCHANGED clock

\* "The future will enter the failure state to indicate that the response
\* was not received before the deadline."
Expire(f) ==
  /\ f \in pending /\ deadline[f] < clock
  /\ pending' = pending \ {f}
  /\ outcome' = [outcome EXCEPT ![f] = "failure"]
  /\ deadline' = [deadline EXCEPT ![f] = 0]
  /\ UNCHANGED clock

\* "Once it is not pending, it can be reused for another request": a
\* future handed to a call that does not register it loses its outcome.
Reuse(f) ==
  /\ f \notin pending
  /\ outcome' = [outcome EXCEPT ![f] = "none"]
  /\ UNCHANGED <<pending, deadline, clock>>

Tick ==
  /\ clock < MaxTime
  /\ clock' = clock + 1
  /\ UNCHANGED <<pending, outcome, deadline>>

Next ==
  \/ \E f \in Futures :
       \/ \E dl \in 0..MaxTime : Register(f, dl)
       \/ Succeed(f) \/ Expire(f) \/ Reuse(f)
  \/ Tick

Spec == Init /\ [][Next]_vars

TypeOK ==
  /\ pending \subseteq Futures
  /\ outcome \in [Futures -> Outcomes]
  /\ deadline \in [Futures -> 0..MaxTime]
  /\ clock \in 0..MaxTime

=============================================================================
