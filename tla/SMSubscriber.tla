--------------------------- MODULE SMSubscriber ---------------------------
(***************************************************************************)
(* The stop-monitoring subscription collector of a partner               *)
(* (src/core/siri_stop_monitoring_subscriber.go).                          *)
(*                                                                         *)
(* The partner's "StopMonitoring" subscription holds one resource per     *)
(* stop area the referential wants to follow.  A resource is created with *)
(* a zero SubscribedAt (by the collector, code outside src/).  Every 5 s  *)
(* the subscriber goroutine gathers the resources whose SubscribedAt is   *)
(* zero, sends ONE batched SubscriptionRequest upstream and, if the        *)
(* answer has Status = true, sets SubscribedAt of the requested resources. *)
(* A transport error or a refusal leaves them zero: they are retried at   *)
(* the next tick.                                                          *)
(*                                                                         *)
(* SubscribedAt is only ever tested with IsZero(), so the model keeps it  *)
(* as membership of the set `subscribed`.  The request is in flight       *)
(* between Tick and Respond: the HTTP call blocks the goroutine, while     *)
(* other goroutines keep adding resources to the subscription.            *)
(***************************************************************************)
EXTENDS Naturals, FiniteSets

CONSTANTS
  StopAreas     \* stop areas (their ObjectIDs) the subscription may cover

ASSUME StopAreas # {}

(***************************************************************************)
(* Outcomes of SOAPClient.StopMonitoringSubscription as seen by the       *)
(* caller.  prepareAndSendRequest returns an error when building the XML   *)
(* or the HTTP request fails, when the call fails or times out, on an HTTP *)
(* status other than 200, a Content-Type without text/xml, an unreadable   *)
(* gzip or SOAP body, or an unexpected body type: all of them "error".     *)
(* Otherwise the SubscriptionResponse is parsed and its Status() is true   *)
(* ("accepted") or false ("refused").                                      *)
(***************************************************************************)
Outcomes == {"error", "refused", "accepted"}

VARIABLES
  resources,    \* stop areas with a resource in the subscription
  subscribed,   \* resources whose SubscribedAt is not zero
  pc,           \* "idle": waiting for the ticker; "waiting": HTTP call out
  inflight,     \* stopAreasToRequest of the request in flight
  accepted,     \* history: every stop area named in an accepted request
  stopped       \* Stop() has been called on the subscriber

vars == <<resources, subscribed, pc, inflight, accepted, stopped>>

TypeOK ==
  /\ resources \subseteq StopAreas
  /\ subscribed \subseteq resources
  /\ pc \in {"idle", "waiting"}
  /\ inflight \subseteq StopAreas
  /\ (pc = "waiting") = (inflight # {})
  /\ accepted \subseteq StopAreas
  /\ stopped \in BOOLEAN

Init ==
  /\ resources = {}
  /\ subscribed = {}
  /\ pc = "idle"
  /\ inflight = {}
  /\ accepted = {}
  /\ stopped = FALSE

(***************************************************************************)
(* The collector asks to follow a stop area: a new resource with a zero   *)
(* SubscribedAt (subscription.CreateAddNewResource, outside src/).        *)
(***************************************************************************)
AddNewResource(sa) ==
  /\ sa \notin resources
  /\ resources' = resources \union {sa}
  /\ UNCHANGED <<subscribed, pc, inflight, accepted, stopped>>

(***************************************************************************)
(* The stop-area ObjectIDs of the resources whose SubscribedAt is zero.   *)
(***************************************************************************)
ToRequest == {sa \in resources : sa \notin subscribed}

(***************************************************************************)
(* A tick of Run: prepareSIRIStopMonitoringSubscriptionRequest gathers the *)
(* unsent resources and sends them in one request.  With nothing to send   *)
(* it returns at once, which changes no state (a stuttering step).        *)
(***************************************************************************)
\* Variant with an off-by-one in the early return (len <= 1 instead of 0).
TickSkipsSingleton ==
  /\ pc = "idle"
  /\ Cardinality(ToRequest) > 1
  /\ inflight' = ToRequest
  /\ pc' = "waiting"
  /\ UNCHANGED <<resources, subscribed, accepted, stopped>>

\* Variant without the early return when there is nothing to request.
TickNoEmptyCheck ==
  /\ pc = "idle"
  /\ inflight' = ToRequest
  /\ pc' = "waiting"
  /\ UNCHANGED <<resources, subscribed, accepted, stopped>>

Tick ==
  /\ pc = "idle"
  /\ ToRequest # {}
  /\ inflight' = ToRequest
  /\ pc' = "waiting"
  /\ UNCHANGED <<resources, subscribed, accepted, stopped>>

(***************************************************************************)
(* The SOAP call returns.  On an error (transport, HTTP status, content    *)
(* type, SOAP body) the function returns; on Status() = false nothing is  *)
(* marked; on Status() = true every requested stop area that still has a   *)
(* resource gets SubscribedAt = now.                                       *)
(***************************************************************************)
MarkSubscribed ==
  subscribed' = subscribed \union (inflight \intersect resources)

Respond(outcome) ==
  /\ pc = "waiting"
  /\ pc' = "idle"
  /\ inflight' = {}
  /\ IF outcome = "accepted"
       THEN /\ MarkSubscribed
            /\ accepted' = accepted \union inflight
       ELSE UNCHANGED <<subscribed, accepted>>
  /\ UNCHANGED <<resources, stopped>>

(***************************************************************************)
(* Stop(): close the stop channel if there is one.  No code makes that    *)
(* channel (NewSIRIStopMonitoringSubscriber leaves it nil), so Stop does  *)
(* nothing, and Run's "case <-subscriber.stop", a receive on a nil        *)
(* channel, is never ready: the loop has no step that returns.            *)
(***************************************************************************)
Stop ==
  /\ ~stopped
  /\ stopped' = TRUE
  /\ UNCHANGED <<resources, subscribed, pc, inflight, accepted>>

Next ==
  \/ \E sa \in StopAreas : AddNewResource(sa)
  \/ Tick
  \/ \E o \in Outcomes : Respond(o)
  \/ Stop

(***************************************************************************)
(* Fairness.  The ticker fires every 5 s while the goroutine runs (WF on   *)
(* Tick) and the HTTP client has a 30 s timeout, so every call returns     *)
(* (WF on the response).  The partner is assumed not to refuse forever:    *)
(* an accepting answer that is possible infinitely often is eventually    *)
(* given (SF).  The last conjunct is an assumption about the partner, not *)
(* something the code provides.                                            *)
(***************************************************************************)
Fairness ==
  /\ WF_vars(Tick)
  /\ WF_vars(\E o \in Outcomes : Respond(o))
  /\ SF_vars(Respond("accepted"))

Spec == Init /\ [][Next]_vars /\ Fairness

(***************************************************************************)
(* Properties                                                              *)
(***************************************************************************)

(* Every stop area the collector asks to follow is eventually subscribed   *)
(* upstream: the partner has accepted a request that named it, and its     *)
(* resource is marked.  A resource left with a zero SubscribedAt after an  *)
(* error or a refusal is requested again at a later tick (scenario S5 of   *)
(* the spec), and a resource added while a request is in flight is not     *)
(* marked by that request's answer, which would stop it from ever being   *)
(* requested (the answer marks stopAreasToRequest, never every resource).  *)
EventuallySubscribed ==
  \A sa \in StopAreas : (sa \in resources) ~> (sa \in subscribed /\ sa \in accepted)

(* Once Stop() has been called the goroutine sends no further request:   *)
(* spec section 5 says a connector exits at the close of its stop signal *)
(* after finishing the tick in flight.                                    *)
NoRequestAfterStop == [][stopped => ~Tick]_vars

=============================================================================
