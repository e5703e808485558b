-------------------------- MODULE StopAreaUpdate --------------------------
(***************************************************************************)
(* The update pipeline of the world model: StopAreaUpdateManager and       *)
(* StopVisitUpdater (src/model/stop_visit_update_manager.go) writing, one *)
(* transaction per step, into the in-memory model through the transaction *)
(* layer (spec section 4.D; its code is not under src/).                   *)
(*                                                                         *)
(* Each worker is a goroutine that hands a StopAreaUpdateEvent to          *)
(* UpdateStopArea (collectors and notification handlers run concurrently, *)
(* spec section 5).  UpdateStopArea runs a sequence of transactions: one   *)
(* for the stop area, then one per stop-visit update event and one per     *)
(* not-collected event; a monitored event instead runs                     *)
(* UpdateNotMonitoredStopArea.  A worker keeps that sequence in `jobs`.    *)
(*                                                                         *)
(* A transaction reads the live model (copies), writes into an overlay,    *)
(* and Commit applies the overlay atomically under the model lock after   *)
(* validating ObjectID uniqueness and the references of what it writes;   *)
(* an invalid overlay is discarded whole.  The steps between the reads    *)
(* and the commit contain no blocking call, so the model performs the     *)
(* reads of one transaction in one step (Begin) and the commit in another *)
(* (Commit): other workers may commit in between.                          *)
(*                                                                         *)
(* Data kept: ObjectIDs (one per entity; the "_default" ObjectID is a hash *)
(* of it and adds nothing), the references between entities, a stop       *)
(* area's LineIds and Monitored flag, a stop visit's schedule kinds,       *)
(* arrival status and collected flag, and whether a vehicle journey       *)
(* carries Origin/Destination references.  Names, times, origins and      *)
(* attributes are left out: no property reads them.                        *)
(***************************************************************************)
EXTENDS Naturals, Sequences, FiniteSets, TLC

LOCAL R == INSTANCE Relation

CONSTANTS
  Workers,        \* goroutines calling UpdateStopArea
  SAOids,         \* stop-area ObjectIDs
  LineOids,       \* line ObjectIDs
  VJOids,         \* vehicle-journey ObjectIDs
  SVOids,         \* stop-visit ObjectIDs
  ParentOf,       \* ParentObjectId attribute of each stop area (or NoOid)
  Kinds,          \* schedule kinds ("aimed", "expected", ...)
  Statuses,       \* arrival statuses an event may carry
  SAEvents,       \* the StopAreaUpdateEvents the collectors may produce
  ApiRequests,    \* the requests the stop-area HTTP API may receive
  EttRequests,    \* the line ObjectIDs a GetEstimatedTimetable may ask for
  MaxEvents,      \* bound: events handed to UpdateStopArea in a behaviour
  MaxIds          \* bound: UUIDs handed out by the model

NoId == 0                   \* the empty internal id ""
NoOid == "none"             \* an absent ObjectID
Ids == 1..MaxIds

ASSUME ParentOf \in [SAOids -> SAOids \union {NoOid}]
ASSUME MaxEvents \in Nat /\ MaxIds \in Nat

\* A StopVisitUpdateEvent, reduced to what Update reads.
SVEvent == [sa : SAOids, line : LineOids, vj : VJOids, sv : SVOids,
            kind : Kinds, status : Statuses, vjRefs : BOOLEAN]

\* Records of the four tables.
SARec   == [oid : SAOids, parent : Ids \union {NoId},
            lineIds : SUBSET Ids, monitored : BOOLEAN]
LineRec == [oid : LineOids]
VJRec   == [oid : VJOids, line : Ids, refs : BOOLEAN]
SVRec   == [oid : SVOids, sa : Ids, vj : Ids, sched : SUBSET Kinds,
            status : Statuses \union {"cancelled"}, collected : BOOLEAN]

Tables == {"sa", "line", "vj", "sv"}
EmptyTx == [t \in Tables |-> <<>>]

VARIABLES
  model,      \* the live model: table name -> (id -> record)
  uuid,       \* last UUID handed out
  pc,         \* worker -> "idle" | "open" (a transaction awaits Commit)
  jobs,       \* worker -> transactions still to run for its event
  cur,        \* worker -> the job of the open transaction
  tx,         \* worker -> overlay of the open transaction
  tomb,       \* worker -> stop areas its open transaction deletes
  taken,      \* number of StopAreaUpdateEvents handed to workers
  applied,    \* history: stop-visit events whose transaction committed
  monDone,    \* history: [oid, m] of monitored events that completed
  unmon,      \* history: ids a completed Monitored=FALSE event covered
  answers     \* history: the deliveries of GetEstimatedTimetable requests

vars == <<model, uuid, pc, jobs, cur, tx, tomb, taken, applied, monDone, unmon,
          answers>>

\* Variant of the UUID generator that hands out the last UUID again.
NewIdReused(u) == u

\* UUIDConsumer.NewUUID: the UUID after the last one handed out.
NewId(u) == u + 1

(***************************************************************************)
(* Table helpers: FindByObjectId and Find of the memory tables.            *)
(***************************************************************************)
IdByOid(table, oid) ==
  IF \E id \in DOMAIN table : table[id].oid = oid
    THEN CHOOSE id \in DOMAIN table : table[id].oid = oid
    ELSE NoId

\* f with the entries of g added or replaced.
Put(f, g) == g @@ f

\* The model seen through an overlay (what the transaction would commit).
Overlaid(m, o) == [t \in Tables |-> Put(m[t], o[t])]

(***************************************************************************)
(* FindFamily: the stop area and, recursively, every stop area whose      *)
(* ParentId leads to it (spec 4.M; the table code is outside src/).        *)
(***************************************************************************)
RECURSIVE Descendants(_, _)
Descendants(sas, ids) ==
  LET children == {c \in DOMAIN sas : sas[c].parent \in ids} \ ids
  IN  IF children = {} THEN ids ELSE Descendants(sas, ids \union children)

\* Variant that stops at the direct children of the stop area.
FindFamilyChildren(sas, id) == {id} \union {c \in DOMAIN sas : sas[c].parent = id}

FindFamily(sas, id) == Descendants(sas, {id})

\* Reference definition of the family, used only by the properties: the
\* stop areas related to id by the reflexive-transitive closure of ParentId.
RefFamily(sas, id) ==
  LET S   == DOMAIN sas \union {id}
      Rel == [p \in S \X S |-> p[1] \in DOMAIN sas /\ sas[p[1]].parent = p[2]]
      C   == R!ReflexiveTransitiveClosure(Rel, S)
  IN  {i \in DOMAIN sas : C[i, id]}

(***************************************************************************)
(* Transaction.Commit (spec 4.D): under the model lock, validate ObjectID *)
(* uniqueness in every table, that the parent, line and vehicle-journey    *)
(* references written by the transaction resolve (a stop visit's          *)
(* StopAreaId is not among them) and that the parent tree has no cycle     *)
(* (spec 9, "rejects cycles in the parent tree"); apply all of the overlay *)
(* and the tombstones, or none of it.  The updater's callers ignore the   *)
(* error.                                                                  *)
(***************************************************************************)
OidsUnique(table) ==
  \A i, j \in DOMAIN table : i # j => table[i].oid # table[j].oid

\* The ParentId relation of a stop-area table: p[1]'s parent is p[2] (the
\* empty ParentId names no stop area).
ParentRel(sas) ==
  [p \in (DOMAIN sas) \X (DOMAIN sas) |-> p[2] # NoId /\ sas[p[1]].parent = p[2]]

ParentTreeAcyclic(sas) ==
  R!IsIrreflexive(R!TransitiveClosure(ParentRel(sas), DOMAIN sas), DOMAIN sas)

CommitValid(m, o) ==
  LET n == Overlaid(m, o) IN
  /\ \A t \in Tables : OidsUnique(n[t])
  /\ ParentTreeAcyclic(n.sa)
  /\ \A i \in DOMAIN o.sa : o.sa[i].parent \in DOMAIN n.sa \union {NoId}
  /\ \A i \in DOMAIN o.vj : o.vj[i].line \in DOMAIN n.line
  /\ \A i \in DOMAIN o.sv : o.sv[i].vj \in DOMAIN n.vj

\* The model without the stop areas of the tombstones d.
Removed(m, d) == [m EXCEPT !.sa = [i \in DOMAIN @ \ d |-> @[i]]]

CommitTx(o, d) ==
  model' = IF CommitValid(model, o) THEN Removed(Overlaid(model, o), d) ELSE model

(***************************************************************************)
(* Pieces of StopVisitUpdater.Update.                                      *)
(***************************************************************************)

\* Variant that forgets stopArea.LineIds.Add(line.Id()).
AddLineForgotten(sa, lineId) == sa

\* stopArea.LineIds.Add(line.Id()).
AddLine(sa, lineId) == [sa EXCEPT !.lineIds = @ \union {lineId}]

\* Variant that assigns the event's schedules instead of merging them.
MergeScheduleReplaces(sv, e) ==
  [sv EXCEPT !.sched = {e.kind}, !.status = e.status, !.collected = TRUE]

\* Schedules.Merge, statuses, RecordedAt, VehicleAtStop, Collected(now).
MergeSchedule(sv, e) ==
  [sv EXCEPT !.sched = @ \union {e.kind}, !.status = e.status, !.collected = TRUE]

(***************************************************************************)
(* StopVisitUpdater.Update, with findOrCreateLine, computed against the    *)
(* live model: the overlay it builds and the last UUID it took.  A new     *)
(* entity takes the next UUID when it is saved into the transaction.      *)
(***************************************************************************)
UpdateStopVisitTx(m, e) ==
  LET saId    == IdByOid(m.sa, e.sa)
      lineId0 == IdByOid(m.line, e.line)
      u1      == IF lineId0 = NoId THEN NewId(uuid) ELSE uuid
      lineId  == IF lineId0 = NoId THEN u1 ELSE lineId0
      vjId0   == IdByOid(m.vj, e.vj)
      u2      == IF vjId0 = NoId THEN NewId(u1) ELSE u1
      vjId    == IF vjId0 = NoId THEN u2 ELSE vjId0
      svId0   == IdByOid(m.sv, e.sv)
      u3      == IF svId0 = NoId THEN NewId(u2) ELSE u2
      svId    == IF svId0 = NoId THEN u3 ELSE svId0
      vj      == IF vjId0 = NoId
                   THEN [oid |-> e.vj, line |-> lineId, refs |-> e.vjRefs]
                   ELSE [m.vj[vjId0] EXCEPT !.refs = TRUE]
      sv      == IF svId0 = NoId
                   THEN [oid |-> e.sv, sa |-> saId, vj |-> vjId, sched |-> {},
                         status |-> e.status, collected |-> TRUE]
                   ELSE m.sv[svId0]
  IN  IF saId = NoId
        THEN <<EmptyTx, uuid>>    \* "Should never happen": return
        ELSE << [sa   |-> (saId :> AddLine(m.sa[saId], lineId)),
                 line |-> IF lineId0 = NoId THEN (lineId :> [oid |-> e.line]) ELSE <<>>,
                 vj   |-> (vjId :> vj),
                 sv   |-> (svId :> MergeSchedule(sv, e))], u3 >>

(***************************************************************************)
(* Jobs: the transactions UpdateStopArea runs, in order.                   *)
(***************************************************************************)
SAJob(ev)          == [type |-> "StopArea", ev |-> ev]
SVJob(e)           == [type |-> "StopVisit", ev |-> e]
NCJob(oid)         == [type |-> "NotCollected", sv |-> oid]
NMJob(id, oid, m)  == [type |-> "NotMonitored", id |-> id, oid |-> oid, m |-> m]
ApiJob(rq)         == [type |-> "Api", rq |-> rq]
EttJob(ls)         == [type |-> "Ett", lines |-> ls]

\* A worker takes a new StopAreaUpdateEvent from a collector, or an HTTP
\* request of the stop-area API (served on a goroutine of its own).
Receive(w, j) ==
  /\ pc[w] = "idle"
  /\ jobs[w] = <<>>
  /\ taken < MaxEvents
  /\ jobs' = [jobs EXCEPT ![w] = <<j>>]
  /\ taken' = taken + 1
  /\ UNCHANGED <<model, uuid, pc, cur, tx, tomb, applied, monDone, unmon, answers>>

(***************************************************************************)
(* UpdateStopArea, first transaction.  Find the stop area by the event's  *)
(* StopAreaId; if unknown, create it (parent found by ObjectID, Monitored *)
(* = true) and set event.StopAreaId to the new id.  With a monitored      *)
(* event, call UpdateNotMonitoredStopArea and return: this transaction is *)
(* closed without Commit and the stop-visit events are not processed.     *)
(* Otherwise save the stop area (Updated) and commit, then run one         *)
(* transaction per stop-visit event and per not-collected event.           *)
(***************************************************************************)
BeginStopArea(w, ev) ==
  LET known == IF ev.known THEN IdByOid(model.sa, ev.sa) ELSE NoId
      new   == known = NoId
      id    == IF new THEN NewId(uuid) ELSE known
      rec   == IF new
                 THEN [oid |-> ev.sa, parent |-> IdByOid(model.sa, ParentOf[ev.sa]),
                       lineIds |-> {}, monitored |-> TRUE]
                 ELSE model.sa[known]
  IN
  /\ uuid' = IF new THEN id ELSE uuid
  /\ IF ev.hasMon
       THEN /\ jobs' = [jobs EXCEPT ![w] = <<NMJob(id, ev.sa, ev.monitored)>>]
            /\ UNCHANGED <<pc, cur, tx>>
       ELSE /\ jobs' = [jobs EXCEPT ![w] =
                  [i \in 1..Len(ev.svs) |-> SVJob(ev.svs[i])]
                  \o [i \in 1..Len(ev.ncs) |-> NCJob(ev.ncs[i])]]
            /\ tx' = [tx EXCEPT ![w] = [EmptyTx EXCEPT !.sa = (id :> rec)]]
            /\ pc' = [pc EXCEPT ![w] = "open"]
            /\ cur' = [cur EXCEPT ![w] = SAJob(ev)]

(***************************************************************************)
(* UpdateNotMonitoredStopArea: a new transaction; FindFamily of the event's *)
(* StopAreaId; set Monitored on every member it can Find; commit.         *)
(***************************************************************************)
BeginNotMonitored(w, j) ==
  LET fam == {i \in FindFamily(model.sa, j.id) : i \in DOMAIN model.sa}
  IN  /\ tx' = [tx EXCEPT ![w] = [EmptyTx EXCEPT
                 !.sa = [i \in fam |-> [model.sa[i] EXCEPT !.monitored = j.m]]]]
      /\ pc' = [pc EXCEPT ![w] = "open"]
      /\ cur' = [cur EXCEPT ![w] = j]
      /\ jobs' = [jobs EXCEPT ![w] = Tail(@)]
      /\ UNCHANGED uuid

(***************************************************************************)
(* UpdateStopVisit: a new transaction running StopVisitUpdater.Update.     *)
(***************************************************************************)
BeginStopVisit(w, j) ==
  LET r == UpdateStopVisitTx(model, j.ev)
  IN  /\ tx' = [tx EXCEPT ![w] = r[1]]
      /\ uuid' = r[2]
      /\ pc' = [pc EXCEPT ![w] = "open"]
      /\ cur' = [cur EXCEPT ![w] = j]
      /\ jobs' = [jobs EXCEPT ![w] = Tail(@)]

(***************************************************************************)
(* UpdateNotCollectedStopVisit: find the stop visit by ObjectID; if        *)
(* unknown, log and return (no commit); else NotCollected, arrival        *)
(* cancelled, save and commit.                                             *)
(***************************************************************************)
BeginNotCollected(w, j) ==
  LET id == IdByOid(model.sv, j.sv) IN
  /\ IF id = NoId
       THEN UNCHANGED <<pc, cur, tx>>
       ELSE /\ tx' = [tx EXCEPT ![w] = [EmptyTx EXCEPT !.sv =
                 (id :> [model.sv[id] EXCEPT !.collected = FALSE,
                                             !.status = "cancelled"])]]
            /\ pc' = [pc EXCEPT ![w] = "open"]
            /\ cur' = [cur EXCEPT ![w] = j]
  /\ jobs' = [jobs EXCEPT ![w] = Tail(@)]
  /\ UNCHANGED uuid

(***************************************************************************)
(* The stop-area API (src/api/stop_area_controller.go).  A request is     *)
(* [op, target, oid, parent, bad, monitored]: target is the ObjectID of   *)
(* the URL's identifier (findStopArea looks a kind:value identifier up    *)
(* with FindByObjectId), oid the ObjectID of the body, parent the stop    *)
(* area whose id the body gives as ParentId (NoOid: none), bad that the   *)
(* body does not parse or, for Create, names an id (both answered 400),   *)
(* monitored the body's Monitored.  The body carries all three fields, so *)
(* Unmarshal replaces them in the copy it decodes into.  Each handler runs one transaction; an answer    *)
(* 404 or 400 writes nothing.                                              *)
(***************************************************************************)
FindStopArea(m, oid) == IdByOid(m.sa, oid)

\* The handler opens its transaction with the overlay o and tombstones d.
OpenApi(w, j, o, d) ==
  /\ tx' = [tx EXCEPT ![w] = o]
  /\ tomb' = [tomb EXCEPT ![w] = d]
  /\ pc' = [pc EXCEPT ![w] = "open"]
  /\ cur' = [cur EXCEPT ![w] = j]

\* Create: New(), Unmarshal, no id, no stop area with the ObjectID, Save.
BeginApiCreate(w, j) ==
  LET rq == j.rq
      id == NewId(uuid)
  IN  IF ~rq.bad /\ FindStopArea(model, rq.oid) = NoId
        THEN /\ OpenApi(w, j, [EmptyTx EXCEPT !.sa = (id :> [oid |-> rq.oid,
                                   parent |-> IdByOid(model.sa, rq.parent),
                                   lineIds |-> {}, monitored |-> rq.monitored])], {})
             /\ uuid' = id
        ELSE UNCHANGED <<tx, tomb, pc, cur, uuid>>

(* Update: findStopArea, Unmarshal into the copy (the body's ObjectID     *)
(* replaces the stop area's own, one kind in this model; ParentId and     *)
(* Monitored are replaced too), no OTHER stop area with that ObjectID,    *)
(* Save.                                                                   *)
BeginApiUpdate(w, j) ==
  LET rq    == j.rq
      id    == FindStopArea(model, rq.target)
      other == FindStopArea(model, rq.oid)
  IN  /\ IF id # NoId /\ ~rq.bad /\ (other = NoId \/ other = id)
           THEN OpenApi(w, j, [EmptyTx EXCEPT !.sa = (id :> [model.sa[id] EXCEPT
                  !.oid = rq.oid, !.parent = IdByOid(model.sa, rq.parent),
                  !.monitored = rq.monitored])], {})
           ELSE UNCHANGED <<tx, tomb, pc, cur>>
      /\ UNCHANGED uuid

\* Delete: findStopArea, StopAreas().Delete (a tombstone).
BeginApiDelete(w, j) ==
  LET id == FindStopArea(model, j.rq.target) IN
  /\ IF id # NoId
       THEN OpenApi(w, j, EmptyTx, {id})
       ELSE UNCHANGED <<tx, tomb, pc, cur>>
  /\ UNCHANGED uuid

BeginApi(w, j) ==
  /\ CASE j.rq.op = "create" -> BeginApiCreate(w, j)
       [] j.rq.op = "update" -> BeginApiUpdate(w, j)
       [] j.rq.op = "delete" -> BeginApiDelete(w, j)
  /\ jobs' = [jobs EXCEPT ![w] = Tail(@)]

(***************************************************************************)
(* The estimated-timetable request broadcaster                            *)
(* (src/core/siri_estimated_timetable_request_broadcaster.go): a          *)
(* GetEstimatedTimetable request is served on a goroutine of its own from *)
(* a transaction it closes without Commit; it only reads the model, so    *)
(* the model performs its reads in one step.                              *)
(***************************************************************************)

\* getEstimatedVehicleJourneyReferences: the named result `references` is
\* a nil map; for OriginRef and DestinationRef the function skips an absent
\* or zero Reference and otherwise stores a Reference into that map, which
\* panics.  `refs` says a journey carries a non-zero Reference: the ones
\* of the creating event's attributes, or, from its second event on, the
\* ObjectIDs Update sets with References.SetObjectId.
VJReferences(vj) == IF vj.refs THEN "panic" ELSE "none"

\* FindFollowingByVehicleJourneyId (spec 4.C): the visits of the journey
\* whose status is not terminal.
Following(m, vjId) ==
  {i \in DOMAIN m.sv : m.sv[i].vj = vjId /\ m.sv[i].status # "cancelled"}

(***************************************************************************)
(* getEstimatedTimetableDelivery: for every requested line found by       *)
(* ObjectID, every journey of the line (each has its "_default" ObjectID, *)
(* so none is skipped), its references, and one call per following visit *)
(* whose stop area can be found.  A delivery is kept as the set of its    *)
(* calls, <<journey ObjectID, stop point ObjectID>>, or as a panic.       *)
(***************************************************************************)
Delivery(m, ls) ==
  LET lineIds == {IdByOid(m.line, l) : l \in ls} \ {NoId}
      vjs     == {v \in DOMAIN m.vj : m.vj[v].line \in lineIds}
      panicked == \E v \in vjs : VJReferences(m.vj[v]) = "panic"
  IN  [panicked |-> panicked,
       calls    |-> IF panicked THEN {} ELSE {<<m.vj[m.sv[i].vj].oid, m.sa[m.sv[i].sa].oid>> :
                       i \in {i \in UNION {Following(m, v) : v \in vjs} :
                              m.sv[i].sa \in DOMAIN m.sa}}]

\* RequestLine: the delivery, or the panic, of the request's handler.
BeginEtt(w, j) ==
  /\ answers' = answers \union {Delivery(model, j.lines)}
  /\ jobs' = [jobs EXCEPT ![w] = Tail(@)]
  /\ UNCHANGED <<uuid, pc, cur, tx, tomb>>

\* The worker starts the next transaction of its event or request.
Begin(w) ==
  /\ pc[w] = "idle"
  /\ jobs[w] # <<>>
  /\ LET j == Head(jobs[w]) IN
     CASE j.type = "StopArea"     -> BeginStopArea(w, j.ev) /\ UNCHANGED <<tomb, answers>>
       [] j.type = "NotMonitored" -> BeginNotMonitored(w, j) /\ UNCHANGED <<tomb, answers>>
       [] j.type = "StopVisit"    -> BeginStopVisit(w, j) /\ UNCHANGED <<tomb, answers>>
       [] j.type = "NotCollected" -> BeginNotCollected(w, j) /\ UNCHANGED <<tomb, answers>>
       [] j.type = "Api"          -> BeginApi(w, j) /\ UNCHANGED answers
       [] j.type = "Ett"          -> BeginEtt(w, j)
  /\ UNCHANGED <<model, taken, applied, monDone, unmon>>

(***************************************************************************)
(* The worker's tx.Commit().  The histories record that the job's         *)
(* transaction ran to its end (the callers ignore a commit error).         *)
(***************************************************************************)
Commit(w) ==
  LET j == cur[w] IN
  /\ pc[w] = "open"
  /\ CommitTx(tx[w], tomb[w])
  /\ pc' = [pc EXCEPT ![w] = "idle"]
  /\ tx' = [tx EXCEPT ![w] = EmptyTx]
  /\ tomb' = [tomb EXCEPT ![w] = {}]
  /\ applied' = IF j.type = "StopVisit" THEN applied \union {j.ev} ELSE applied
  /\ monDone' = IF j.type = "NotMonitored"
                  THEN monDone \union {[oid |-> j.oid, m |-> j.m]} ELSE monDone
  /\ unmon' = IF j.type = "NotMonitored" /\ j.m = FALSE /\ j.id \in DOMAIN model.sa
                THEN unmon \union RefFamily(model.sa, j.id)
                ELSE unmon
  /\ UNCHANGED <<uuid, jobs, cur, taken, answers>>

Init ==
  /\ model = EmptyTx
  /\ uuid = 0
  /\ pc = [w \in Workers |-> "idle"]
  /\ jobs = [w \in Workers |-> <<>>]
  /\ cur = [w \in Workers |-> NMJob(NoId, NoOid, FALSE)]
  /\ tx = [w \in Workers |-> EmptyTx]
  /\ tomb = [w \in Workers |-> {}]
  /\ taken = 0
  /\ applied = {}
  /\ monDone = {}
  /\ unmon = {}
  /\ answers = {}

Next ==
  \E w \in Workers :
    \/ \E j \in {SAJob(ev) : ev \in SAEvents} \union {ApiJob(rq) : rq \in ApiRequests}
               \union {EttJob(ls) : ls \in EttRequests} :
         Receive(w, j)
    \/ Begin(w)
    \/ Commit(w)

Spec == Init /\ [][Next]_vars

\* Bound on UUIDs handed out.
IdBound == uuid <= MaxIds

(***************************************************************************)
(* Properties                                                              *)
(***************************************************************************)

TypeOK ==
  /\ model.sa \in [DOMAIN model.sa -> SARec] /\ DOMAIN model.sa \subseteq Ids
  /\ model.line \in [DOMAIN model.line -> LineRec] /\ DOMAIN model.line \subseteq Ids
  /\ model.vj \in [DOMAIN model.vj -> VJRec] /\ DOMAIN model.vj \subseteq Ids
  /\ model.sv \in [DOMAIN model.sv -> SVRec] /\ DOMAIN model.sv \subseteq Ids
  /\ uuid \in 0..MaxIds
  /\ pc \in [Workers -> {"idle", "open"}]
  /\ taken \in 0..MaxEvents
  /\ applied \subseteq SVEvent
  /\ unmon \subseteq Ids
  /\ \A w \in Workers : tomb[w] \subseteq Ids
  /\ answers \subseteq [panicked : BOOLEAN, calls : SUBSET (VJOids \X SAOids)]

(* Every stop visit in the model is at a stop area whose LineIds contains  *)
(* the line of the visit's vehicle journey (scenario S2: after an update,  *)
(* stopArea.lineIds contains the line).  Update adds the line to the stop *)
(* area in the same transaction that creates the visit, but the stop area *)
(* it saves is a copy read at the start of the transaction.               *)
StopAreaLinesCoverVisits ==
  \A i \in DOMAIN model.sv :
    LET v == model.sv[i] IN
    v.sa \in DOMAIN model.sa /\ v.vj \in DOMAIN model.vj
    => model.vj[v.vj].line \in model.sa[v.sa].lineIds

(* Every stop-visit update event whose transaction ran to its end is in   *)
(* the model: a stop visit with its ObjectID exists and its schedules     *)
(* contain the event's schedule kind (Schedules.Merge never drops a kind). *)
EveryAppliedEventLands ==
  \A e \in applied :
    \E i \in DOMAIN model.sv :
      model.sv[i].oid = e.sv /\ e.kind \in model.sv[i].sched

(* A completed Monitored event concerns a stop area that exists: when the *)
(* event names a stop area unknown to the model, UpdateStopArea creates it *)
(* before handling the Monitored flag.                                     *)
MonitoredEventApplied ==
  \A d \in monDone : \E i \in DOMAIN model.sa : model.sa[i].oid = d.oid

(* A Monitored=false event reaches the whole family (spec 4.M): every stop *)
(* area that was, when the event committed, the stop area itself or a     *)
(* descendant through ParentId stays unmonitored (the events of the run   *)
(* never set Monitored back to true).                                      *)
FamilyUnmonitored ==
  \A i \in unmon : i \in DOMAIN model.sa => model.sa[i].monitored = FALSE

(* Every GetEstimatedTimetable request is answered with a delivery (spec  *)
(* 4.I, 6): RequestLine never panics, whatever the updater wrote before   *)
(* into the journeys of the requested lines.                               *)
EveryEttRequestAnswered == \A d \in answers : ~d.panicked

=============================================================================
