\* Three connections compete for one worker, so sockets wait in the queue behind a
\* stream or an idle keep-alive connection; three requests, so a connection is used
\* again and then has reached its keep-alive limit.
SPECIFICATION FairSpec
CONSTANTS
    Workers = {w1}
    NumConns = 3
    KeepAliveMax = 2
    MaxRequests = 3
    Kinds = {"get", "post", "stream"}
INVARIANTS
    RequestsHaveTheirAnswers
PROPERTIES
    ImplementsTaskPool
    NobodyWaitsForever
    ListenReturns
CHECK_DEADLOCK FALSE
