\* A name below an empty non-terminal.
SPECIFICATION Spec
CONSTANTS
    Label <- MCLabel
    Zone <- MCZone
    Address <- MCAddress
    ServersOf <- MCServersOf
    Glueless <- MCGlueless
    Data <- MCData
    Alias <- MCAlias
    Lame = {}
    Unreliable = FALSE
    Question <- DeepQuestions
    Caller = {t1}
    MaxIterations = 6
    MaxDepth = 2
    Resolvable <- MCResolvable
    Nesting <- MCNesting
    Level <- MCLevel
INVARIANTS
    EmptyAnswersTrue
