\* Every kind of send and the download, with and without pinned hosts.
SPECIFICATION FairSpec
CONSTANTS
    Configs <- MCConfigs
    ServerURLs <- MCURLs
    BlockSize = 2
    MaxInt = 15
    MediaMargin = 4
    PollSlack = 1
    Defaults <- MCDefaults
    Bodies <- MCBodies
INVARIANTS AtMostOneMessage SuccessIsDelivery HopsStayTrusted
           ImageIsWhatWasReceived FittingImageIsReturned
PROPERTIES CallReturns
