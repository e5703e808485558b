--------------------------- MODULE ETTBroadcaster ---------------------------
(***************************************************************************)
(* Change detection of the estimated-timetable subscription broadcaster   *)
(* (src/core/siri_estimated_timetable_subscription_broadcaster.go): a     *)
(* downstream partner subscribes to lines; every stop-visit event of the  *)
(* broadcast bus is checked against the last state stored in the          *)
(* subscription's resource for that stop visit, and the line is queued in *)
(* toBroadcast when it changed.  A periodic driver (spec 4.I step 4; the  *)
(* SIRIEstimatedTimeTableBroadcaster is not under src/) drains the queue  *)
(* and sends the current state of the queued lines' stop visits through   *)
(* the SOAP client (src/siri/soap_client.go); it keeps the queue when the *)
(* call returns an error and clears it otherwise.                         *)
(*                                                                         *)
(* A stop visit's state (what estimatedTimeTableLastChange compares) is  *)
(* one of States; a change is a commit of the updater, which puts one     *)
(* event on the bus.  The handler reads the model when it runs, not the   *)
(* state at the commit.  `seen` is what the downstream partner last       *)
(* received for each stop visit.                                           *)
(*                                                                         *)
(* ReloadModel (src/core/referential.go) replaces the model by an empty   *)
(* one from the guardian's goroutine; the updater then imports lines and  *)
(* stop visits again, under new internal ids.  Subscriptions live in the  *)
(* partner and survive (spec 2, 4.J).                                      *)
(***************************************************************************)
EXTENDS Naturals, SequencesExt

CONSTANTS
  Subs,       \* subscriptions of the partner (by external id)
  Lines,      \* lines of the model (their ObjectIDs of the partner's kind)
  ReqLines,   \* line ObjectIDs a subscription request may name
  SVs,        \* stop visits
  LineOf,     \* the line of each stop visit's vehicle journey
  States,     \* states a stop visit can be in
  Init0,      \* the state of every stop visit at the start
  Steps,      \* the changes of state the updater can make
  MaxEvents,  \* bound: commits changing a stop visit in a behaviour
  MaxRequests,\* bound: subscription requests handled in a behaviour
  MaxReloads, \* bound: model reloads in a behaviour
  Answers     \* HTTP statuses the partner may answer a notification with

None == "none"
Absent == "absent"   \* a stop visit the current model does not have

ASSUME LineOf \in [SVs -> Lines] /\ Init0 \in States
ASSUME Steps \subseteq States \X States
ASSUME Lines \subseteq ReqLines

VARIABLES
  sv,         \* stop visit -> its state in the model
  bus,        \* StopMonitoringBroadcastEvents not yet handled (stop-visit ids)
  subs,       \* subscription -> lines it has a resource for
  expired,    \* <<sub, line>> whose SubscribedUntil has passed
  last,       \* sub -> stop visit -> LastStates entry of its line's resource
  toBroadcast,\* sub -> lines queued by addLine (a slice: repeats allowed)
  seen,       \* sub -> stop visit -> state last sent downstream
  events,     \* number of commits so far
  reqs,       \* number of subscription requests handled so far
  known,      \* lines of the current model
  pending,    \* the entry between checkLines and its add loop ({} if none)
  accepted,   \* <<sub, line>> an entry was answered Status=true for
  reloads     \* number of model reloads so far

vars == <<sv, bus, subs, expired, last, toBroadcast, seen, events, reqs,
          known, pending, accepted, reloads>>

\* What the subscription request handler leaves alone.
Model == <<sv, bus, seen, events, known, reloads>>

Active(s, l) == l \in subs[s] /\ <<s, l>> \notin expired

(***************************************************************************)
(* HandleSubscriptionRequest for one entry naming the lines ls, in two    *)
(* steps of the request's goroutine.  First checkLines looks every line   *)
(* up in the current model and the entry's response status is built:     *)
(* InvalidDataReferencesError when a line is missing (and `continue`),    *)
(* Status=true otherwise.  Then find or create the subscription by its    *)
(* external id and, for each resource, look the line up AGAIN and, if it  *)
(* is still there, add a new resource (fresh LastStates, SubscribedUntil *)
(* in the future) and addLine it, so that the first notification carries *)
(* it; a line gone in between is skipped silently.  One entry is in       *)
(* flight at a time.                                                       *)
(***************************************************************************)
\* checkLines: the requested lines FindByObjectId does not find.
MissingLines(ls) == ls \ known

\* Variant that answers Status=true whatever checkLines found.
SubCheckUnchecked(s, ls) ==
  /\ pending = {} /\ reqs < MaxRequests
  /\ reqs' = reqs + 1
  /\ accepted' = accepted \union ({s} \X ls)
  /\ pending' = {[sub |-> s, lines |-> ls]}
  /\ UNCHANGED <<subs, expired, last, toBroadcast>> /\ UNCHANGED Model

SubCheck(s, ls) ==
  /\ pending = {} /\ reqs < MaxRequests
  /\ reqs' = reqs + 1
  /\ IF MissingLines(ls) = {}
       THEN /\ accepted' = accepted \union ({s} \X ls)
            /\ pending' = {[sub |-> s, lines |-> ls]}
       ELSE UNCHANGED <<accepted, pending>>
  /\ UNCHANGED <<subs, expired, last, toBroadcast>> /\ UNCHANGED Model

SubAdd(p) ==
  LET s == p.sub
      ls == p.lines \intersect known
  IN
  /\ p \in pending
  /\ subs' = [subs EXCEPT ![s] = @ \union ls]
  /\ expired' = expired \ ({s} \X ls)
  /\ last' = [last EXCEPT ![s] = [v \in SVs |-> IF LineOf[v] \in ls THEN None ELSE @[v]]]
  /\ toBroadcast' = [toBroadcast EXCEPT ![s] = @ \o SetToSeq(ls)]
  /\ pending' = {}
  /\ UNCHANGED <<reqs, accepted>> /\ UNCHANGED Model

\* The clock passes a resource's SubscribedUntil.
Expire(s, l) ==
  /\ Active(s, l)
  /\ expired' = expired \union {<<s, l>>}
  /\ UNCHANGED <<sv, bus, subs, last, toBroadcast, seen, events, reqs>>
  /\ UNCHANGED <<known, pending, accepted, reloads>>

\* The updater commits a change of a stop visit, or imports it (with its
\* journey and line) into a reloaded model: one event on the bus.
Change(v, st) ==
  /\ events < MaxEvents
  /\ <<sv[v], st>> \in Steps \/ sv[v] = Absent
  /\ sv' = [sv EXCEPT ![v] = st]
  /\ known' = known \union {LineOf[v]}
  /\ bus' = Append(bus, v)
  /\ events' = events + 1
  /\ UNCHANGED <<subs, expired, last, toBroadcast, seen, reqs>>
  /\ UNCHANGED <<pending, accepted, reloads>>

(***************************************************************************)
(* ReloadModel: Stop, an empty model, Start.  The stopped BroadcastManager *)
(* and the driver take their pending events and queued line ids with them *)
(* in effect: those name stop visits and lines of the old model, which    *)
(* checkEvent and the driver no longer find.  LastStates entries are      *)
(* keyed by old stop-visit ids, which no new visit has (spec 2: "last-     *)
(* states are cleared").                                                   *)
(***************************************************************************)
Reload ==
  /\ reloads < MaxReloads
  /\ reloads' = reloads + 1
  /\ sv' = [v \in SVs |-> Absent]
  /\ known' = {}
  /\ bus' = <<>>
  /\ last' = [s \in Subs |-> [v \in SVs |-> None]]
  /\ toBroadcast' = [s \in Subs |-> <<>>]
  /\ UNCHANGED <<subs, expired, seen, events, reqs, pending, accepted>>

(***************************************************************************)
(* HandleStopVisitBroadcastEvent and checkEvent: for every subscription   *)
(* with an unexpired resource on the stop visit's line: skip when a last *)
(* state exists and Haschanged is false; store a new last state only when *)
(* none exists; addLine.                                                   *)
(***************************************************************************)
\* Variant that skips a stop visit with no last state instead of storing it.
CheckEventSkipsNew(s, v) ==
  IF ~Active(s, LineOf[v]) \/ last[s][v] = None \/ last[s][v] = sv[v]
    THEN <<last[s], toBroadcast[s]>>
    ELSE <<last[s], Append(toBroadcast[s], LineOf[v])>>

CheckEvent(s, v) ==
  IF ~Active(s, LineOf[v]) \/ (last[s][v] # None /\ last[s][v] = sv[v])
    THEN <<last[s], toBroadcast[s]>>
    ELSE << IF last[s][v] = None THEN [last[s] EXCEPT ![v] = sv[v]] ELSE last[s],
            Append(toBroadcast[s], LineOf[v]) >>

HandleEvent ==
  LET v == Head(bus) IN
  /\ bus # <<>>
  /\ bus' = Tail(bus)
  /\ last' = [s \in Subs |-> CheckEvent(s, v)[1]]
  /\ toBroadcast' = [s \in Subs |-> CheckEvent(s, v)[2]]
  /\ UNCHANGED <<sv, subs, expired, seen, events, reqs>>
  /\ UNCHANGED <<known, pending, accepted, reloads>>

(***************************************************************************)
(* The periodic driver (spec 4.I step 4) takes the queued lines, sends    *)
(* the current state of their stop visits with NotifyEstimatedTimeTable  *)
(* (src/siri/soap_client.go) and clears the queue when that returns no   *)
(* error.  For a notification prepareAndSendRequest returns nil as soon as *)
(* the partner answered, before looking at the HTTP status: the partner  *)
(* takes the states only with 200, yet the queue is cleared whatever the  *)
(* status.  An error (XML building, request, transport or timeout) keeps  *)
(* the queue for the next tick and changes nothing here, so it is the     *)
(* stuttering step.                                                        *)
(***************************************************************************)
Sent(s, status) ==
  IF status = 200
    THEN [v \in SVs |-> IF LineOf[v] \in ToSet(toBroadcast[s]) /\ sv[v] # Absent
                          THEN sv[v] ELSE seen[s][v]]
    ELSE seen[s]

Drain(s, status) ==
  /\ toBroadcast[s] # <<>>
  /\ seen' = [seen EXCEPT ![s] = Sent(s, status)]
  /\ toBroadcast' = [toBroadcast EXCEPT ![s] = <<>>]
  /\ UNCHANGED <<sv, bus, subs, expired, last, events, reqs>>
  /\ UNCHANGED <<known, pending, accepted, reloads>>

Init ==
  /\ sv = [v \in SVs |-> Init0]
  /\ bus = <<>>
  /\ subs = [s \in Subs |-> {}]
  /\ expired = {}
  /\ last = [s \in Subs |-> [v \in SVs |-> None]]
  /\ toBroadcast = [s \in Subs |-> <<>>]
  /\ seen = [s \in Subs |-> [v \in SVs |-> None]]
  /\ events = 0
  /\ reqs = 0
  /\ known = Lines
  /\ pending = {}
  /\ accepted = {}
  /\ reloads = 0

Next ==
  \/ \E s \in Subs, ls \in SUBSET ReqLines : ls # {} /\ SubCheck(s, ls)
  \/ \E p \in pending : SubAdd(p)
  \/ Reload
  \/ \E s \in Subs, l \in Lines : Expire(s, l)
  \/ \E v \in SVs, st \in States : Change(v, st)
  \/ HandleEvent
  \/ \E s \in Subs, a \in Answers : Drain(s, a)

Spec == Init /\ [][Next]_vars

\* Bound on the length of a subscription's queue.
QueueBound == \A s \in Subs : Len(toBroadcast[s]) <= 3

\* Scenario: the updater changes a stop visit only once the previous change
\* has been handled and sent downstream.
Settled == QueueBound /\ Len(bus) <= 1 /\ (bus # <<>> => \A s \in Subs : toBroadcast[s] = <<>>)

(***************************************************************************)
(* Properties                                                              *)
(***************************************************************************)

TypeOK ==
  /\ sv \in [SVs -> States \union {Absent}]
  /\ bus \in Seq(SVs)
  /\ subs \in [Subs -> SUBSET Lines]
  /\ expired \subseteq Subs \X Lines
  /\ last \in [Subs -> [SVs -> States \union {None}]]
  /\ \A s \in Subs : toBroadcast[s] \in Seq(Lines)
  /\ seen \in [Subs -> [SVs -> States \union {None}]]
  /\ reqs \in 0..MaxRequests
  /\ known \subseteq Lines
  /\ accepted \subseteq Subs \X Lines

\* Every event is handled and every queue drained.
Quiescent == bus = <<>> /\ \A s \in Subs : toBroadcast[s] = <<>>

(* Once every event is handled and every queue drained, the partner has   *)
(* received the current state of every stop visit on the lines it is     *)
(* subscribed to: no change is swallowed by the last-state comparison of  *)
(* checkEvent (spec 4.I steps 3 and 4).                                    *)
DownstreamUpToDate ==
  Quiescent =>
    \A s \in Subs, v \in SVs :
      Active(s, LineOf[v]) /\ sv[v] # Absent => seen[s][v] = sv[v]

(* An entry answered Status=true is subscribed to every line it named,  *)
(* once its handler is done: the response never promises a line the add  *)
(* loop skipped because the model was reloaded after checkLines.         *)
AcceptedLinesSubscribed ==
  pending = {} => \A a \in accepted : a[2] \in subs[a[1]]

=============================================================================
