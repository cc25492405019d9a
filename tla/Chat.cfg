SPECIFICATION FairSpec
CONSTANTS
    MaxConvs = 2
    MaxSends = 2
    MaxLoads = 2
    MaxDeletes = 1
    MaxEvents = 3
    Deltas = 1
    HistoryLimit = 3
INVARIANT TypeOK
INVARIANT ShownStoredIsTrue
INVARIANT ViewIsCurrent
INVARIANT RailIsOfLastAnswer
INVARIANT ExchangeIsWhole
INVARIANT NoOrphans
INVARIANT HistoryIsSettled
PROPERTY StreamingEnds
CHECK_DEADLOCK FALSE
