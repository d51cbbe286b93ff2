SPECIFICATION FairSpec
CONSTANTS
    MaxSends <- MCMaxSends
    Backend = "kqueue"
CHECK_DEADLOCK FALSE
INVARIANT QueryWrittenOnce
PROPERTY SendReturns
