\* Two callers share the caches, every server up.
SPECIFICATION Spec
CONSTANTS
    Label <- MCLabel
    Zone <- MCZone
    Address <- MCAddress
    ServersOf <- MCServersOf
    Glueless <- MCGlueless
    Data <- MCData
    Alias <- MCAlias
    Lame = {}
    Unreliable = FALSE
    Question <- SharedQuestions
    Caller = {t1, t2}
    MaxIterations = 4
    MaxDepth = 1
    Resolvable <- MCResolvable
    Nesting <- MCNesting
    Level <- MCLevel
SYMMETRY Symmetry
INVARIANTS
    AnswersTrue
    HealthyResolves
    NoServerRefuses
    DelegationSound
