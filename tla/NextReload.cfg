\* Well-formed settings; the real clock's ticks and advances of the fake
\* clock by an hour and by a minute short of a day.
CONSTANTS
  Settings <- WellFormed
  Durations <- MCDurations
SPECIFICATION Spec
INVARIANTS TypeOK NextReloadIsNextOccurrence
PROPERTY DailyReloadSpec
