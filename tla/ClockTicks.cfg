\* The programs against a ticking clock, and the time zone at the ends of
\* months; registers in BCD.
CONSTANTS
  Binary = FALSE
  Starts <- AllStarts
  Settings <- EdgeSettings
  AlarmTimes <- EdgeAlarms
  MaxTicks = 3
SPECIFICATION Spec
INVARIANT TypeOK
INVARIANT RegistersValid
INVARIANT NeverBehind
INVARIANT ZoneIsFourHoursBack
PROPERTY AlarmSleepsOnlyBeforeItsTime
