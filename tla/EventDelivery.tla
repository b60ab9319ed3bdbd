---------------------------- MODULE EventDelivery ----------------------------
(***************************************************************************)
(* What the interaction plane promises a user, without the flow: an event  *)
(* is shown to workers any number of times while it is pending, consumed   *)
(* at most once and only after it was shown, and a request to stop is      *)
(* never consumed by the flow.  KernelFlow implements this module.         *)
(***************************************************************************)
EXTENDS Naturals

CONSTANTS
  Events,
  Requests    \* those of them that ask the flow to stop

VARIABLES
  submitted,  \* the events submitted so far
  shown,      \* the events some worker could read
  consumed    \* how often each event was acknowledged

deliveryVars == <<submitted, shown, consumed>>

DeliveryTypeOK ==
  /\ submitted \subseteq Events
  /\ shown \subseteq submitted
  /\ consumed \in [Events -> {0, 1}]
  /\ \A e \in Events : consumed[e] = 1 => e \in shown \ Requests

DeliveryInit ==
  /\ submitted = {}
  /\ shown = {}
  /\ consumed = [e \in Events |-> 0]

Submit(e) ==
  /\ e \notin submitted
  /\ submitted' = submitted \cup {e}
  /\ UNCHANGED <<shown, consumed>>

\* A snapshot shows events that nothing has consumed yet.
Show(events) ==
  /\ \A e \in events : e \in submitted /\ consumed[e] = 0
  /\ shown' = shown \cup events
  /\ UNCHANGED <<submitted, consumed>>

Consume(e) ==
  /\ e \in shown \ Requests
  /\ consumed[e] = 0
  /\ consumed' = [consumed EXCEPT ![e] = 1]
  /\ UNCHANGED <<submitted, shown>>

DeliveryNext ==
  \/ \E e \in Events : Submit(e) \/ Consume(e)
  \/ \E events \in SUBSET Events : Show(events)

DeliverySpec == DeliveryInit /\ [][DeliveryNext]_deliveryVars
=============================================================================
