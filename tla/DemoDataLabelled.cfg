\* One poll of the overview: its first.
INIT OverviewInit
NEXT OverviewNext
CONSTANTS
  Polls = {p1}
  MaxSeconds = 1
INVARIANT
  DemoDataLabelled
CHECK_DEADLOCK FALSE
