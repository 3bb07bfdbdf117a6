\* Every chain of replies, with and without pinned hosts.
SPECIFICATION FairSpec
CONSTANTS
    Options <- MCOptions
    Malformed <- MCMalformed
    RedirectHosts <- MCHosts
    MaxQRRedirects = 3
    MaxHTTPRedirects = 2
INVARIANTS PollsStayTrusted Throttled CodesBounded OneCallAfterCancel
PROPERTIES NeverSpins EndsWithContext
