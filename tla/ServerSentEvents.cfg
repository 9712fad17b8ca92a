\* Two clients, three decisions, one crash.
CONSTANTS
  Streams = {s1, s2}
  MaxEvents = 3
  MaxCrashes = 1
SPECIFICATION Spec
INVARIANT ServerSentEvents
CHECK_DEADLOCK FALSE
