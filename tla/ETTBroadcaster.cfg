CONSTANTS
  sub1 = sub1
  l1 = l1
  l2 = l2
  l3 = l3
  v1 = v1
  v2 = v2
  Subs <- MCSubs
  Lines <- MCLines
  ReqLines <- MCReqLines
  SVs <- MCSVs
  LineOf <- MCLineOf
  States <- MCStates
  Init0 = "expected"
  Steps <- Forward
  MaxEvents = 3
  MaxRequests = 2
  MaxReloads = 1
  Answers <- OK
SPECIFICATION Spec
INVARIANTS TypeOK DownstreamUpToDate
\* The updater's commits and the requests are bounded by MaxEvents and
\* MaxRequests: the end state is the bound, not a deadlock of the code.
CHECK_DEADLOCK FALSE
