CONSTANTS
  s1 = s1
  s2 = s2
  s3 = s3
  s4 = s4
  StopAreas <- MCStopAreas

SPECIFICATION Spec

INVARIANT TypeOK

PROPERTY EventuallySubscribed

\* Once every resource is subscribed the ticker keeps firing with nothing
\* to send: the goroutine stutters forever, which is not a deadlock.
CHECK_DEADLOCK FALSE
