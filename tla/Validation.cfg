\* One caller, in the root and in a signed or unsigned zone of one label and of three,
\* over a cache that may hold anything at any lookup.
SPECIFICATION FairSpec
CONSTANTS
    Client = {c1}
    Name = {"host", "any"}
    Below <- Labels
    Form <- Forms
    Zones = {0, 1, 3}
    TRUST_ANCHORS = {1}
    MAX_CNAME_DEPTH = 1
    MaxChain = 10
    MaxKey = 3
    Supported = {1, 3}
    MaxTime = 2
    Word = 16
    Clocks <- TwoClocks
    Validity = 1
    Fudge = 2
INVARIANTS
    TypeOK
    AdSound
    
PROPERTIES
    CallsReturn
