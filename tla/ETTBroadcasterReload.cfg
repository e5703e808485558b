\* A model reload may come while a subscription request is handled.
CONSTANTS
  sub1 = sub1
  l1 = l1
  l2 = l2
  l3 = l3
  v1 = v1
  v2 = v2
  Subs <- MCSubs
  Lines <- MCLines
  ReqLines <- MCReqLines
  SVs <- MCSVs
  LineOf <- MCLineOf
  States <- MCStates
  Init0 = "expected"
  Steps <- Forward
  MaxEvents = 3
  MaxRequests = 2
  MaxReloads = 1
  Answers <- OK
SPECIFICATION Spec
INVARIANT AcceptedLinesSubscribed
\* Commits and requests are bounded by MaxEvents and MaxRequests.
CHECK_DEADLOCK FALSE
