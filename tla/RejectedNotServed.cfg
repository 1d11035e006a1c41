\* A rejected answer stays in the cache.
SPECIFICATION Spec
CONSTANTS
    Key = {k1}
    RData = {d1}
    CacheSize = 1
    StaleMinEntries = 1
    StaleMaxEntries = 1
    MaxPerKey = 1
    MaxTtl = 2
    StaleMaxAge = 2
    Sec = 1
    Ttl = {2}
    Section <- SingleRecords
    Client = {c1, c2}
    Warmer = {c1, c2}
    Prefetcher = {p1}
    PrefetchTtl = 2
    MaxIterations = 1
    MaxQueries = 3
    MaxLookups = 1
    MaxTime = 3
INVARIANTS
    RejectedNotServed
