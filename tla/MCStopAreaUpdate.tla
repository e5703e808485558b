------------------------- MODULE MCStopAreaUpdate -------------------------
(***************************************************************************)
(* Model-checking instances of StopAreaUpdate.  Stop area "c" has parent  *)
(* "p" and "g" has parent "c"; two lines, two vehicle journeys and two    *)
(* stop visits at "c".                                                     *)
(***************************************************************************)
EXTENDS StopAreaUpdate

MCSAOids   == {"p", "c", "g"}
MCParentOf == ("p" :> NoOid) @@ ("c" :> "p") @@ ("g" :> "c")
MCLineOids == {"l1", "l2"}
MCVJOids   == {"v1", "v2"}
MCSVOids   == {"sv1", "sv2"}
MCKinds    == {"aimed", "expected"}
MCStatuses == {"onTime"}

\* Stop-visit update events: sv1 runs on v1 of line l1, sv2 on v2 of l2.
E1  == [sa |-> "c", line |-> "l1", vj |-> "v1", sv |-> "sv1",
        kind |-> "aimed", status |-> "onTime", vjRefs |-> FALSE]
E1x == [E1 EXCEPT !.kind = "expected"]
E2  == [sa |-> "c", line |-> "l2", vj |-> "v2", sv |-> "sv2",
        kind |-> "expected", status |-> "onTime", vjRefs |-> FALSE]
\* sv2 on v2 of line l1 (both journeys on the same line).
E2l1 == [E2 EXCEPT !.line = "l1"]

\* hasMon: the event carries a StopAreaMonitoredEvent with Monitored = mon.
SAEv(sa, known, hasMon, mon, svs, ncs) ==
  [sa |-> sa, known |-> known, hasMon |-> hasMon, monitored |-> mon,
   svs |-> svs, ncs |-> ncs]

\* Sequential run: stop areas created (a grandchild "g" of "p" included),
\* visits updated and merged, sv2 not collected, the family of "p" set
\* unmonitored.
SeqEvents ==
  { SAEv("p", FALSE, FALSE, FALSE, <<>>, <<>>),
    SAEv("g", FALSE, FALSE, FALSE, <<>>, <<>>),
    SAEv("c", FALSE, FALSE, FALSE, <<E1, E2>>, <<>>),
    SAEv("c", TRUE, FALSE, FALSE, <<E1x>>, <<"sv2">>),
    SAEv("p", TRUE, TRUE, FALSE, <<>>, <<>>) }

\* Two collectors, each updating one visit at the existing stop area "c".
LostUpdateEvents ==
  { SAEv("c", FALSE, FALSE, FALSE, <<>>, <<>>),
    SAEv("c", TRUE, FALSE, FALSE, <<E1>>, <<>>),
    SAEv("c", TRUE, FALSE, FALSE, <<E2>>, <<>>) }

\* Two collectors reporting the first visits of two journeys of line l1.
DupLineEvents ==
  { SAEv("c", FALSE, FALSE, FALSE, <<>>, <<>>),
    SAEv("c", TRUE, FALSE, FALSE, <<E1>>, <<>>),
    SAEv("c", TRUE, FALSE, FALSE, <<E2l1>>, <<>>) }

\* A Monitored=false event for a stop area the model does not know yet.
UnknownMonEvents ==
  { SAEv("p", FALSE, TRUE, FALSE, <<>>, <<>>) }

\* A stop-area API request: op, URL target, body ObjectID, the stop area
\* named by the body's ParentId, bad body, Monitored.
Rq(op, target, oid, par, bad, mon) ==
  [op |-> op, target |-> target, oid |-> oid, parent |-> par, bad |-> bad,
   monitored |-> mon]

\* Creating "p" (refused once it exists), creating "g" under "c" (a
\* grandchild of "p"), a body that names an id, renaming "c" to "p"
\* (refused while "p" exists), moving "p" under "g" (a cycle once "g"
\* descends from "p") and deleting "g", a stop area with no children.
SeqApi ==
  { Rq("create", NoOid, "p", NoOid, FALSE, FALSE),
    Rq("create", NoOid, "g", "c", FALSE, FALSE),
    Rq("create", NoOid, "c", NoOid, TRUE, FALSE),
    Rq("update", "c", "p", "p", FALSE, FALSE),
    Rq("update", "p", "p", "g", FALSE, FALSE),
    Rq("delete", "g", NoOid, NoOid, FALSE, FALSE) }

NoApi == {}

\* GetEstimatedTimetable requests: line l1 alone, and both lines.
SeqEtt == { {"l1"}, {"l1", "l2"} }

\* A request for line l1 after its journey v1 had a second update.
PanicEvents ==
  { SAEv("c", FALSE, FALSE, FALSE, <<>>, <<>>),
    SAEv("c", TRUE, FALSE, FALSE, <<E1>>, <<>>),
    SAEv("c", TRUE, FALSE, FALSE, <<E1x>>, <<>>) }
PanicEtt == { {"l1"} }

NoEtt == {}
=============================================================================
