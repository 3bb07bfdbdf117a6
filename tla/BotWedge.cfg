\* A message whose image key does not decode: the bot never gets past it.
SPECIFICATION BotSpec
CONSTANTS
    CtxError = CtxError
    u1 = u1
    Callers = {c1}
    MaxItems = 2
    Eligible = {1, 2}
    UserOf <- MCUserOf
    Serial = TRUE
    Threshold = 2
    FailureCap = 1
    Durable = TRUE
    Defect = "bad_key"
    DefectOf <- MCDefectOf
    MaxFaults = 1
PROPERTIES EventuallyAcknowledged
