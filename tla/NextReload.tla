---------------------------- MODULE NextReload ----------------------------
(***************************************************************************)
(* The scheduled model reload of a referential: setNextReloadAt,          *)
(* SetDefinition and ReloadModel (src/core/referential.go) and the        *)
(* guardian's test now >= nextReloadAt (spec 4.K; the guardian is not     *)
(* under src/).                                                            *)
(*                                                                         *)
(* Time is counted in minutes.  `now` is the minute of the current day   *)
(* (seconds never change a comparison of the code, see NextReloadAt), and *)
(* `next` is nextReloadAt as minutes from the current day's midnight; when *)
(* the clock passes midnight both are shifted by a day, which keeps the   *)
(* state finite.  time.Date normalises an out-of-range hour or minute     *)
(* linearly, so a date is (day * 24 + hour) * 60 + minute.                 *)
(*                                                                         *)
(* The setting model.reload_at is a string; it is kept as the sequence of *)
(* its characters (<<>> when absent) so that the slicing and              *)
(* strconv.Atoi of the code are modelled as they behave.                   *)
(***************************************************************************)
EXTENDS Integers, Sequences, TLC

CONSTANTS
  Settings,     \* values model.reload_at may be given (sequences of chars)
  Durations     \* minutes the clock moves at once: 1 (the guardian's own
                \* ticks) and the durations POST /time/advance is given

ASSUME Durations \subseteq 1..1439

Day == 1440

Digits == "0" :> 0 @@ "1" :> 1 @@ "2" :> 2 @@ "3" :> 3 @@ "4" :> 4
          @@ "5" :> 5 @@ "6" :> 6 @@ "7" :> 7 @@ "8" :> 8 @@ "9" :> 9

IsDigit(c) == c \in DOMAIN Digits

(***************************************************************************)
(* strconv.Atoi of a two-character string, the error ignored: an optional *)
(* sign and digits; anything else is a syntax error, and the value is 0.  *)
(***************************************************************************)
Atoi(a, b) ==
  CASE IsDigit(a) /\ IsDigit(b) -> 10 * Digits[a] + Digits[b]
    [] a = "-" /\ IsDigit(b)    -> -Digits[b]
    [] a = "+" /\ IsDigit(b)    -> Digits[b]
    [] OTHER                    -> 0

\* Variant that reads the hour from [3:5] and the minute from [0:2].
ReloadHourSwapped(s) ==
  IF Len(s) = 5
    THEN <<Atoi(s[4], s[5]), Atoi(s[1], s[2])>>
    ELSE <<4, 0>>

\* hour, minute := 4, 0; when len(reloadHour) == 5, Atoi of [0:2] and [3:5].
ReloadHour(s) ==
  IF Len(s) = 5
    THEN <<Atoi(s[1], s[2]), Atoi(s[4], s[5])>>
    ELSE <<4, 0>>

(***************************************************************************)
(* setNextReloadAt at minute `now` of the day: the day moves on when the  *)
(* clock has reached hour:minute, then time.Date(day, hour, minute).      *)
(***************************************************************************)
\* Variant that moves to the next day only once the minute has passed.
NextReloadAtStrict(now, s) ==
  LET hm == ReloadHour(s)
      h == now \div 60
      m == now % 60
      day == IF h > hm[1] \/ (h = hm[1] /\ m > hm[2]) THEN 1 ELSE 0
  IN  (day * 24 + hm[1]) * 60 + hm[2]

NextReloadAt(now, s) ==
  LET hm == ReloadHour(s)
      h == now \div 60
      m == now % 60
      day == IF h > hm[1] \/ (h = hm[1] /\ m >= hm[2]) THEN 1 ELSE 0
  IN  (day * 24 + hm[1]) * 60 + hm[2]

VARIABLES
  now,        \* minute of the current day
  next,       \* nextReloadAt, in minutes from the current day's midnight
  setting,    \* Settings["model.reload_at"]
  gen         \* parity of the Models the referential has held

vars == <<now, next, setting, gen>>

(***************************************************************************)
(* New, then SetDefinition or Load: the referential starts at some minute *)
(* with some setting, nextReloadAt computed from it.                       *)
(***************************************************************************)
Init ==
  /\ now \in 0..(Day - 1)
  /\ setting \in Settings
  /\ next = NextReloadAt(now, setting)
  /\ gen = 0

(***************************************************************************)
(* The clock moves d minutes on, and the guardian, woken by it, compares  *)
(* now >= nextReloadAt; when it holds it calls ReloadModel: Stop, the     *)
(* model replaced by model.Reload, setNextReloadAt, Start.  At midnight   *)
(* the day moves on.  The guardian's period (30 s) is shorter than a      *)
(* minute, so it runs in every minute the real clock reaches.              *)
(***************************************************************************)
ClockMove(d) ==
  LET t     == now + d
      wrap  == t >= Day
      now1  == IF wrap THEN t - Day ELSE t
      next1 == IF wrap THEN next - Day ELSE next
      due   == now1 >= next1
  IN  /\ now' = now1
      /\ next' = IF due THEN NextReloadAt(now1, setting) ELSE next1
      /\ gen' = IF due THEN 1 - gen ELSE gen
      /\ UNCHANGED setting

\* The real clock: a guardian tick one minute later.
GuardianTick == ClockMove(1)

(***************************************************************************)
(* POST /time/advance (src/api/time_controller.go) with a parsable         *)
(* {"duration": d} on a fake clock: FakeClock.Advance(d), which releases   *)
(* the guardian's pending wait, then the new time is answered.  A GET, a  *)
(* real clock, another action, or a body or duration that does not parse  *)
(* is answered 400 and changes nothing.                                    *)
(***************************************************************************)
TimeAdvance(d) == ClockMove(d)

(***************************************************************************)
(* PUT /referentials/<id>: SetDefinition recomputes nextReloadAt only when *)
(* model.reload_at changed.                                                *)
(***************************************************************************)
\* Variant that stores the new settings without recomputing.
SetDefinitionNoRecompute(s) ==
  /\ setting' = s
  /\ UNCHANGED <<now, next, gen>>

SetDefinition(s) ==
  /\ setting' = s
  /\ next' = IF s # setting THEN NextReloadAt(now, s) ELSE next
  /\ UNCHANGED <<now, gen>>

Next ==
  \/ GuardianTick
  \/ \E d \in Durations : TimeAdvance(d)
  \/ \E s \in Settings : SetDefinition(s)

Spec == Init /\ [][Next]_vars

(***************************************************************************)
(* Properties                                                              *)
(***************************************************************************)

TypeOK ==
  /\ now \in 0..(Day - 1)
  /\ next \in 0..(2 * Day)
  /\ setting \in Settings
  /\ gen \in {0, 1}

\* The minute of the day the spec reads in a setting: "HH:MM" with two
\* digits on each side, or 04:00.
SpecReloadMinute(s) ==
  IF Len(s) = 5 /\ s[3] = ":" /\ \A i \in {1, 2, 4, 5} : IsDigit(s[i])
    THEN (10 * Digits[s[1]] + Digits[s[2]]) * 60 + 10 * Digits[s[4]] + Digits[s[5]]
    ELSE 4 * 60

\* The promise of spec 4.J/4.K: the clock is the clock, the reload minute is
\* the spec's reading of the setting, and a reload is a change of `gen`.
Daily == INSTANCE DailyReload
           WITH clock <- now, at <- SpecReloadMinute(setting), reloads <- gen

\* The next future instant of that wall-clock time after minute t.
NextOccurrence(t, s) == t + ((SpecReloadMinute(s) - t - 1) % Day) + 1

(* nextReloadAt is always in the future of the clock the guardian reads:  *)
(* a reload recomputes it from the minute it ran at, and a setting change *)
(* from the minute of the request (spec 4.J, "the next future instant").  *)
NextReloadInFuture == next > now

(* nextReloadAt is exactly the next instant of the configured wall-clock  *)
(* time, at every minute: after the guardian's reload, after a setting    *)
(* change, and across midnight.                                            *)
NextReloadIsNextOccurrence == next = NextOccurrence(now, setting)

(* The guardian and the reload code implement the promise: every move of *)
(* the clock, by a tick or by POST /time/advance, replaces the model       *)
(* exactly when it passes the configured wall-clock time, and a PUT of   *)
(* the definition never replaces it (spec 4.J, 4.K, scenario S1).         *)
DailyReloadSpec == Daily!Spec

=============================================================================
