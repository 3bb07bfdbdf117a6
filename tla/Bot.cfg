\* A message that cannot be answered between two that can; three faults.
SPECIFICATION BotSpec
CONSTANTS
    CtxError = CtxError
    u1 = u1
    Callers = {c1}
    MaxItems = 3
    Eligible = {1, 2, 3}
    UserOf <- MCUserOf
    Serial = TRUE
    Threshold = 2
    FailureCap = 1
    Durable = TRUE
    Defect = "sentinel"
    DefectOf <- MCDefectOf
    MaxFaults = 3
INVARIANTS CommittedIsSettled
PROPERTIES CancelEndsStart EventuallyAcknowledged
