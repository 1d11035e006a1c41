\* The answer to a prefetch, while the old entry is still there.
SPECIFICATION Spec
CONSTANTS
    Key = {k1}
    RData = {d1, d2}
    CacheSize = 1
    StaleMinEntries = 1
    StaleMaxEntries = 1
    MaxPerKey = 2
    MaxTtl = 2
    StaleMaxAge = 2
    Sec = 1
    Ttl = {2}
    Section <- SingleRecords
    Client = {c1, c2}
    Warmer = {c1, c2}
    Prefetcher = {p1}
    PrefetchTtl = 2
    MaxIterations = 1
    MaxQueries = 3
    MaxLookups = 1
    MaxTime = 3
PROPERTIES
    PrefetchWarms
