\* Two cells, two ticks a second; a report may be held up for two ticks.
CONSTANTS
  CellCount = 2
  Second = 2
  Rate = 1
  MaxElapsed = 4
SPECIFICATION FairSpec
INVARIANTS TypeOK CountsSinceReading
PROPERTIES ReportsKeepComing
