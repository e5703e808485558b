\* Two collectors update visits of different lines at the same stop area.
CONSTANTS
  Workers = {w1, w2}
  SAOids <- MCSAOids
  ParentOf <- MCParentOf
  LineOids <- MCLineOids
  VJOids <- MCVJOids
  SVOids <- MCSVOids
  Kinds <- MCKinds
  Statuses <- MCStatuses
  SAEvents <- LostUpdateEvents
  ApiRequests <- NoApi
  EttRequests <- NoEtt
  MaxEvents = 3
  MaxIds = 12

SPECIFICATION Spec
CONSTRAINT IdBound

INVARIANT StopAreaLinesCoverVisits

CHECK_DEADLOCK FALSE
