SPECIFICATION Spec
CONSTANTS
    Builds = {b1, b2}
    Watchers = {w1}
    Faulty = {b1}
    NoRow = NoRow
INVARIANTS TypeOK RowsAreWhole WatcherEndsOnFinalStatus
PROPERTIES RowsFollowLifecycle BuildsEnd WatchersEnd
CHECK_DEADLOCK FALSE
