SPECIFICATION FairSpec
CONSTANTS
  Timers = {tx, unload}
  Delays = {1, 3}
  Never = 5
INVARIANTS TypeOK SleepIsSafe
PROPERTIES TimersHandled EventsHandled
