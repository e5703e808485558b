CONSTANTS
  sub1 = sub1
  l1 = l1
  l2 = l2
  l3 = l3
  v1 = v1
  v2 = v2
  Subs <- MCSubs
  Lines <- MCLines
  ReqLines <- MCReqLines
  SVs <- MCSVs
  LineOf <- MCLineOf
  States <- MCStates
  Init0 = "expected"
  Steps <- Revised
  MaxEvents = 3
  MaxRequests = 2
  MaxReloads = 0
  Answers <- OK
SPECIFICATION Spec
CONSTRAINT Settled
INVARIANTS DownstreamUpToDate
\* The updater's commits are bounded by MaxEvents.
CHECK_DEADLOCK FALSE
