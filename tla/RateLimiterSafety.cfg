\* Three checks at once, a quota of one, windows of two seconds, commands that
\* take up to a window to arrive.
SPECIFICATION LimiterSpec
CONSTANTS
    Checks = {k1, k2, k3}
    MaxRequests = 1
    WindowSecs = 2
    MaxDelay = 2
    MaxTime = 4
    MaxCount = 3
    Never = Never
SYMMETRY CheckSymmetry
INVARIANTS
    LimiterTypeOK
    WindowQuota
    RejectedOnlyWhenFull
    RetryReachesNextWindow
