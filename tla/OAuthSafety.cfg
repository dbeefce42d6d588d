\* Two flows, two exchange codes, two requests at once; a state lives for one
\* tick, a parked answer for two.
CONSTANTS
    f1 = f1
    f2 = f2
    k1 = k1
    k2 = k2
    c1 = c1
    c2 = c2
    None = None
    Flows = {f1, f2}
    Codes = {k1, k2}
    Clients = {c1, c2}
    Slugs <- MCSlugs
    Configs <- MCConfigs
    StateTtl = 1
    ExchangeTtl = 2
SPECIFICATION OAuthSpec
INVARIANTS
    OAuthTypeOK
    StateUsedOnce
    OneSessionPerConsent
    SessionIsOfConsent
    RefusedOnlyWhenSpent
    FailureIsFinal
    EntriesLapse
PROPERTY KeepsConsent
SYMMETRY Symmetry
