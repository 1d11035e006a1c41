\* Three keys compete for two places of the cache and one of the stale store, three
\* records for two places of a key, and expire apart; a tick is half a second.
SPECIFICATION CacheSpec
CONSTANTS
    Key = {k1, k2, k3}
    RData = {d1, d2, d3}
    CacheSize = 2
    StaleMinEntries = 1
    StaleMaxEntries = 1
    MaxPerKey = 2
    MaxTtl = 1
    StaleMaxAge = 2
    Sec = 2
    Ttl = {0, 2}
    MaxTime = 4
    MaxLookups = 2
SYMMETRY Symmetry
INVARIANTS
    CacheTypeOK
    CacheBounds
    StaleIsExpired
    ServedWithinLifetime
PROPERTIES
    RecordsAccountedFor
    StaleRecordsKept
