CONSTANTS
  ra = ra
  rb = rb
  rc = rc
  sa = sa
  sb = sb
  c1 = c1
  c2 = c2
  Refs <- MCRefs
  Slugs <- MCSlugs
  Clients = {c1, c2}
  MaxOps = 3
SPECIFICATION Spec
INVARIANTS NoLeakedManager
\* The requests are bounded by MaxOps: the server then waits for more.
CHECK_DEADLOCK FALSE
