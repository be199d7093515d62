SPECIFICATION FairSpec
CONSTANTS
    NumModels = 3
    Fallback = {1, 2, 3}
    ProviderOf <- TwoProviders
    Budget = 6
    NumBackoffs = 2
    Backoff <- Growing
    MaxIter = 2
    MaxTurns = 2
    MaxPicks = 3
INVARIANTS TypeOK WaitBounded RepliesCounted NoRetryOfExhausted
PROPERTIES TurnEnds
CHECK_DEADLOCK FALSE
