\* Two callers of Start, three messages, every fault and crash.
SPECIFICATION Spec
CONSTANTS
    CtxError = CtxError
    u1 = u1
    u2 = u2
    Callers = {c1, c2}
    MaxItems = 3
    Eligible = {1, 2, 3}
    UserOf <- MCUserOf
    Serial = FALSE
    Threshold = 2
    FailureCap = 1
    Durable = TRUE
SYMMETRY CallerSymmetry
INVARIANTS TypeOK CommittedIsHandled NoReplayOfCommitted FirstHandledInOrder OneStart CursorAgrees ClearedBeforeCallback
PROPERTIES CursorAdvances
