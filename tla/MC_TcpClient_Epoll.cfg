SPECIFICATION FairSpec
CONSTANTS
    MaxSends <- MCMaxSends
    Backend = "epoll"
CHECK_DEADLOCK FALSE
PROPERTY ReregisterRegistered
