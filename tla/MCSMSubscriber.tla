-------------------------- MODULE MCSMSubscriber --------------------------
(* Model-checking instance of SMSubscriber: four stop areas.             *)
EXTENDS SMSubscriber

CONSTANTS s1, s2, s3, s4

MCStopAreas == {s1, s2, s3, s4}
=============================================================================
