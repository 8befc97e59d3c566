SPECIFICATION MCSpec
CONSTANTS
  Timers = {"t1", "t2", "t3"}
  MaxTicks = 2
  QueueSize = 2
  MaxCalls = 5
INVARIANTS
  TimersExact DelaysExact Scheduled NoLostWakeup MessagesOnce
