\* One worker or two, every batch of at most three messages from two users and
\* two from three, handlers that may fail or end their goroutine.
SPECIFICATION FairSpec
CONSTANTS
    NoError = NoError
    Running = Running
    CtxError = CtxError
    u1 = u1
    u2 = u2
    u3 = u3
    MaxMessages = 3
    MaxItems = 2
    Batches <- MCBatches
    Concurrencies = {1, 2}
    HandlerOutcomes = {"ok", "error", "goexit"}
INVARIANTS PerUserOrder NilMissesOnlyLost OneCallAfterCancel
PROPERTIES ImplementsContract Returns
