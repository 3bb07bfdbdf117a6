\* Handlers that may end their goroutine: a nil error is no receipt any more.
SPECIFICATION Spec
CONSTANTS
    NoError = NoError
    Running = Running
    CtxError = CtxError
    u1 = u1
    u2 = u2
    u3 = u3
    MaxMessages = 0
    MaxItems = 0
    Batches <- MCManyGroups
    Concurrencies = {2}
    HandlerOutcomes = {"ok", "goexit"}
INVARIANTS NilMeansAllHandled
