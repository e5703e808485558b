---------------------------- MODULE DailyReload ----------------------------
(***************************************************************************)
(* What a referential promises about its model reloads (spec 4.J, 4.K and *)
(* scenario S1): the model is replaced by a fresh one each time the clock *)
(* passes the wall-clock time its setting model.reload_at names ("HH:MM", *)
(* 04:00 by default), and at no other time.                               *)
(*                                                                         *)
(* `clock` is the minute of the day, `at` the minute the setting names,  *)
(* `reloads` the parity of the number of reloads (it changes exactly when *)
(* the model is replaced).  The clock moves by d minutes at once (a tick  *)
(* of the real clock, or an advance of the fake clock); a jump that passes *)
(* the reload time several times cannot happen, since d < Day.  How the   *)
(* setting string is read is not part of the promise: any minute can be   *)
(* configured.                                                             *)
(***************************************************************************)
EXTENDS Naturals

CONSTANT Durations  \* the moves of the clock, in minutes, 0 < d < 1440

VARIABLES clock, at, reloads

Day == 1440
Minutes == 0..(Day - 1)

\* The clock, moving d minutes on from t, reaches the minute m.
Passes(t, d, m) == \E k \in 1..d : (t + k) % Day = m

Init ==
  /\ clock \in Minutes
  /\ at \in Minutes
  /\ reloads = 0

Move(d) ==
  /\ clock' = (clock + d) % Day
  /\ reloads' = IF Passes(clock, d, at) THEN 1 - reloads ELSE reloads
  /\ UNCHANGED at

Configure(m) ==
  /\ at' = m
  /\ UNCHANGED <<clock, reloads>>

Next == (\E d \in Durations : Move(d)) \/ (\E m \in Minutes : Configure(m))

Spec == Init /\ [][Next]_<<clock, at, reloads>>

=============================================================================
