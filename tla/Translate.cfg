\* One message, two tasks: a lease may run out under a slow one.
SPECIFICATION FairSpec
CONSTANTS
    m1 = m1
    Mail = {m1}
    Workers = 2
    Tries = 2
    NoJob = NoJob  NoOutcome = NoOutcome  Free = Free
INVARIANTS ChargedOnce GoneIsForgotten
PROPERTIES OutcomeStays JobEnds
CHECK_DEADLOCK FALSE
