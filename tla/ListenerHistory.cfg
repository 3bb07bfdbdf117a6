\* The two counters of the poll loop against a log of its polls.
SPECIFICATION HSpec
CONSTANTS
    CtxError = CtxError
    u1 = u1
    Callers = {c1}
    MaxItems = 1
    Eligible = {1}
    UserOf <- MCUserOf
    Serial = TRUE
    Threshold = 2
    FailureCap = 4
    Durable = TRUE
    MaxPolls = 4
    MaxFailures = 4
    MaxInt = 15
    MediaMargin = 2
    PollSlack = 1
    Defaults <- MCDefaults
INVARIANTS RevokedAtThreshold DelayFollowsFailures
