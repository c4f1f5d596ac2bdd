\* Two requests, one event outside and one fault.  A code outlives the login's
\* own deadline, or runs out before it.
CONSTANTS
    Requests = {r1, r2}
    Free = Free
    Unreadable = Unreadable
    Interval = 1
    Increment = 1
    Lifetimes = {2, 4}
    RetryAfters = {0, 3}
    LoginTimeout = 3
    MaxTime = 3
    MaxOutside = 1
    MaxFaults = 1
SPECIFICATION FairSpec
INVARIANTS OneLogin PollsInTime
PROPERTIES NeverAsksInVain EveryRequestEnds
