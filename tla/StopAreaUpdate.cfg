\* One worker: the transactions of UpdateStopArea run one after the other.
CONSTANTS
  Workers = {w1}
  SAOids <- MCSAOids
  ParentOf <- MCParentOf
  LineOids <- MCLineOids
  VJOids <- MCVJOids
  SVOids <- MCSVOids
  Kinds <- MCKinds
  Statuses <- MCStatuses
  SAEvents <- SeqEvents
  ApiRequests <- SeqApi
  EttRequests <- SeqEtt
  MaxEvents = 4
  MaxIds = 12

SPECIFICATION Spec
CONSTRAINT IdBound

INVARIANT TypeOK
INVARIANT StopAreaLinesCoverVisits
INVARIANT EveryAppliedEventLands
INVARIANT FamilyUnmonitored

\* After MaxEvents events the collectors stop producing: the end state is
\* the bound, not a deadlock of the code.
CHECK_DEADLOCK FALSE
