\* One collector reports the first visit of journey v1, then a second
\* update of it; a GetEstimatedTimetable request then asks for line l1.
CONSTANTS
  Workers = {w1}
  SAOids <- MCSAOids
  ParentOf <- MCParentOf
  LineOids <- MCLineOids
  VJOids <- MCVJOids
  SVOids <- MCSVOids
  Kinds <- MCKinds
  Statuses <- MCStatuses
  SAEvents <- PanicEvents
  ApiRequests <- NoApi
  EttRequests <- PanicEtt
  MaxEvents = 4
  MaxIds = 12

SPECIFICATION Spec
CONSTRAINT IdBound

INVARIANT EveryEttRequestAnswered

\* After MaxEvents events and requests nothing more arrives.
CHECK_DEADLOCK FALSE
