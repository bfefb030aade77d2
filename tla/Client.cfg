CONSTANTS
    MaxRetries = 2
    RetryAfters = {0, 1, 3}
    Budgets = {0, 2, 6}
    c1 = c1
    c2 = c2
    Callers = {c1, c2}
    JoinedTTL = 1
    MaxTime = 2
    MaxChanges = 2
    MaxGets = 3
    unread = unread
    window = window
    third = third
    NoPage = NoPage
    Readers = {unread, window, third}
    Limits = {1, 2, 3}
    Posted0 = 2
    MaxPosted = 4
    Person = {"u", "v"}
    Asker = {"p", "q"}
    RetryAfterFail = 2
    RemoteCall = {1, 2}
    Host = Host
    Reaper = Reaper
SPECIFICATION Spec
INVARIANTS TypeOK WaitFitsDeadline HonestOutcome MonotonicReads ErrorIsFresh ExactPage
PROPERTIES EveryCallReturns NameComesBack ServerEnds
CHECK_DEADLOCK FALSE
