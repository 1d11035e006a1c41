\* Every configuration, with editions changing while load and refresh overlap.
SPECIFICATION FairSpec
CONSTANTS
    Sources <- TwoSources
    Dependable = {"steady"}
    Edition <- Editions
    Config <- Configs
INVARIANTS
    TypeOK
    WhitelistHolds
    BlockingInherited
    CustomDecides
    WithdrawnUnblocked
    StatsAgree
PROPERTIES
    BlockedAgain
