-------------------------- MODULE SituationUpdate --------------------------
(***************************************************************************)
(* SituationUpdateManager and SituationUpdater                            *)
(* (src/model/situation_update_manager.go): a batch of situation-update   *)
(* events, coming from a general-message collector or notification, is   *)
(* applied in ONE transaction.  For each event the situation is found by  *)
(* ObjectID; an equal Version only adds the event's references; otherwise *)
(* the situation is created or overwritten (Version, references, the      *)
(* messages) and saved.  Commit validates ObjectID uniqueness and applies *)
(* the overlay atomically (spec 4.D; that code is not under src/).        *)
(*                                                                         *)
(* Reads inside the transaction see the overlay first (spec 4.D), so a    *)
(* later event of a batch sees what an earlier one saved.  Update makes   *)
(* no blocking call, so the whole batch is computed in one step (Begin)   *)
(* and committed in another (Commit); other batches may commit between.   *)
(* Messages, line sections, times and the producer are left out: no       *)
(* property reads them.  A reference is kept as its ObjectID.             *)
(***************************************************************************)
EXTENDS Naturals, Sequences, FiniteSets, TLC

CONSTANTS
  Workers,      \* goroutines calling UpdateSituation concurrently
  SitOids,      \* situation ObjectIDs
  Versions,     \* versions an event may carry
  RefOids,      \* ObjectIDs a situation may reference
  Batches,      \* the batches of events the collectors may produce
  MaxBatches,   \* bound: batches handed to UpdateSituation in a behaviour
  MaxIds        \* bound: UUIDs handed out by the model

NoId == 0
Ids == 1..MaxIds

\* A SituationUpdateEvent, reduced to what Update reads.
Event == [oid : SitOids, version : Versions, refs : SUBSET RefOids]

\* A situation of the model; a new one has Version 0 (Go's zero value).
SitRec == [oid : SitOids, version : Versions \union {0}, refs : SUBSET RefOids]

ASSUME Batches \subseteq Seq(Event)
ASSUME MaxBatches \in Nat /\ MaxIds \in Nat

VARIABLES
  sits,     \* the live Situations table: id -> record
  uuid,     \* last UUID handed out
  pc,       \* worker -> "idle" | "open"
  tx,       \* worker -> overlay of its open transaction
  batch,    \* worker -> the batch of its open transaction
  taken,    \* number of batches handed to workers
  seen      \* history: the events of every batch whose commit succeeded

vars == <<sits, uuid, pc, tx, batch, taken, seen>>

\* Variant of the UUID generator that hands out the last UUID again.
NewIdReused(u) == u

\* UUIDConsumer.NewUUID: the UUID after the last one handed out.
NewId(u) == u + 1

\* The events of a batch, as a set.
EventsOf(b) == {b[i] : i \in 1..Len(b)}

(***************************************************************************)
(* Situations().FindByObjectId on a view of the table.                     *)
(***************************************************************************)
SitIdByOid(v, oid) ==
  IF \E id \in DOMAIN v : v[id].oid = oid
    THEN CHOOSE id \in DOMAIN v : v[id].oid = oid
    ELSE NoId

(***************************************************************************)
(* checkSituationReferences: append every reference of the event whose    *)
(* ObjectID the situation does not reference yet.                          *)
(***************************************************************************)
CheckSituationReferences(s, e) == [s EXCEPT !.refs = @ \union e.refs]

(***************************************************************************)
(* SituationUpdater.Update over the events still to process, with the     *)
(* transaction's overlay o over the live table m and the last UUID u.     *)
(* An event whose Version equals the stored one merges its references    *)
(* into the local copy `situation`, which is never saved, and RETURNS:    *)
(* the rest of the batch is not processed.                                 *)
(***************************************************************************)
RECURSIVE Update(_, _, _, _)
Update(m, o, u, evs) ==
  IF evs = <<>> THEN <<o, u>>
  ELSE
    LET e     == Head(evs)
        id    == SitIdByOid(o @@ m, e.oid)
        found == id # NoId
        nid   == IF found THEN id ELSE NewId(u)
        old   == IF found THEN (o @@ m)[id]
                          ELSE [oid |-> e.oid, version |-> 0, refs |-> {}]
        new   == CheckSituationReferences([old EXCEPT !.version = e.version], e)
    IN  IF found /\ old.version = e.version
          THEN <<o, u>>
          ELSE Update(m, (nid :> new) @@ o, IF found THEN u ELSE nid, Tail(evs))

(***************************************************************************)
(* Commit (spec 4.D): ObjectID uniqueness of the table the overlay would  *)
(* produce; a failing commit leaves the live table untouched.             *)
(***************************************************************************)
OidsUnique(v) ==
  \A i, j \in DOMAIN v : v[i].oid = v[j].oid => i = j

CommitValid(m, o) == OidsUnique(o @@ m)

(***************************************************************************)
(* Actions                                                                 *)
(***************************************************************************)

\* UpdateSituation(events): NewTransaction, then SituationUpdater.Update.
Begin(w, b) ==
  LET r == Update(sits, <<>>, uuid, b) IN
  /\ pc[w] = "idle"
  /\ taken < MaxBatches
  /\ taken' = taken + 1
  /\ tx' = [tx EXCEPT ![w] = r[1]]
  /\ uuid' = r[2]
  /\ batch' = [batch EXCEPT ![w] = b]
  /\ pc' = [pc EXCEPT ![w] = "open"]
  /\ UNCHANGED <<sits, seen>>

\* tx.Commit(), whose result UpdateSituation ignores; then tx.Close().
Commit(w) ==
  /\ pc[w] = "open"
  /\ IF CommitValid(sits, tx[w])
       THEN /\ sits' = tx[w] @@ sits
            /\ seen' = seen \union EventsOf(batch[w])
       ELSE UNCHANGED <<sits, seen>>
  /\ pc' = [pc EXCEPT ![w] = "idle"]
  /\ tx' = [tx EXCEPT ![w] = <<>>]
  /\ batch' = [batch EXCEPT ![w] = <<>>]
  /\ UNCHANGED <<uuid, taken>>

Init ==
  /\ sits = <<>>
  /\ uuid = 0
  /\ pc = [w \in Workers |-> "idle"]
  /\ tx = [w \in Workers |-> <<>>]
  /\ batch = [w \in Workers |-> <<>>]
  /\ taken = 0
  /\ seen = {}

Next ==
  \E w \in Workers :
    \/ \E b \in Batches : Begin(w, b)
    \/ Commit(w)

Spec == Init /\ [][Next]_vars

\* Bound on UUIDs handed out.
IdBound == uuid <= MaxIds

(***************************************************************************)
(* Properties                                                              *)
(***************************************************************************)

TypeOK ==
  /\ DOMAIN sits \subseteq Ids /\ \A id \in DOMAIN sits : sits[id] \in SitRec
  /\ uuid \in Nat
  /\ pc \in [Workers -> {"idle", "open"}]
  /\ taken \in 0..MaxBatches
  /\ seen \subseteq Event

(* Spec 4.L and invariant 3: an event whose version equals the stored one *)
(* still adds its references.  The situation with that ObjectID and       *)
(* version references everything such a committed event carried.          *)
SameVersionUnionsRefs ==
  \A e \in seen, id \in DOMAIN sits :
    (sits[id].oid = e.oid /\ sits[id].version = e.version) => e.refs \subseteq sits[id].refs

(* Every event of a committed batch is processed: its situation exists    *)
(* after the commit (situations are never deleted by this component).     *)
EverySeenSituationExists ==
  \A e \in seen : \E id \in DOMAIN sits : sits[id].oid = e.oid

=============================================================================
