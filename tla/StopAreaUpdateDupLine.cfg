\* Two collectors report the first visits of two journeys of one new line.
CONSTANTS
  Workers = {w1, w2}
  SAOids <- MCSAOids
  ParentOf <- MCParentOf
  LineOids <- MCLineOids
  VJOids <- MCVJOids
  SVOids <- MCSVOids
  Kinds <- MCKinds
  Statuses <- MCStatuses
  SAEvents <- DupLineEvents
  ApiRequests <- NoApi
  EttRequests <- NoEtt
  MaxEvents = 3
  MaxIds = 12

SPECIFICATION Spec
CONSTRAINT IdBound

INVARIANT EveryAppliedEventLands

CHECK_DEADLOCK FALSE
