CONSTANTS
    StormThreshold = 2
    MaxEvents = 2
SPECIFICATION NodeSpec
INVARIANTS NothingMissed AlarmsEnd PublisherOutlivesReceiver
CHECK_DEADLOCK FALSE
