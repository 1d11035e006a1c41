\* Two calls, one of them cancellable, and a prefetch; a question and the target of
\* its CNAME compete for the one place of the cache.
SPECIFICATION FairSpec
CONSTANTS
    Key = {k1, k2}
    RData = {d1}
    CacheSize = 1
    StaleMinEntries = 1
    StaleMaxEntries = 1
    MaxPerKey = 1
    MaxTtl = 2
    StaleMaxAge = 1
    Sec = 1
    Ttl = {2}
    Section <- SingleRecords
    Client = {c1, c2}
    Warmer = {c1}
    Prefetcher = {p1}
    PrefetchTtl = 2
    MaxIterations = 1
    MaxQueries = 2
    MaxLookups = 1
    MaxTime = 3
INVARIANTS
    TypeOK
    StatsConservation
    SharedCacheSound
    StaleHidesOnlyNews
PROPERTIES
    CallsReturn
