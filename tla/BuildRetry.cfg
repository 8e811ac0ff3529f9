CONSTANT buildMaxRetries = 3
SPECIFICATION FairRetrySpec
INVARIANTS
    RetryInvariant
    CancelStopsLoop
    RetryUsesFreshConnection
PROPERTY Returns
