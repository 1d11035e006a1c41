\* Missing names, empty answers, cycles of aliases and of glueless delegations, with a lame and silent servers.
SPECIFICATION FairSpec
CONSTANTS
    Label <- MCLabel
    Zone <- MCZone
    Address <- MCAddress
    ServersOf <- MCServersOf
    Glueless <- MCGlueless
    Data <- MCData
    Alias <- MCAlias
    Lame = {"e1"}
    Unreliable = TRUE
    Question <- HardQuestions
    Caller = {t1}
    MaxIterations = 4
    MaxDepth = 2
    Resolvable <- MCResolvable
    Nesting <- MCNesting
    Level <- MCLevel
INVARIANTS
    TypeOK
    AnswersTrue
PROPERTIES
    BudgetSpent
    ResolutionEnds
