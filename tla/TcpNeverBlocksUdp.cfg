\* A task holds the truncation cache's mutex while it waits for TCP.
SPECIFICATION Spec
CONSTANTS
    Call = {q1, q2}
    Server = {s1, s2}
    Truncating = {s1}
    PerServer = 1
    IdleTimeout = 1
    TruncationTtl = 1
    MaxTime = 1
INVARIANTS
    TcpNeverBlocksUdp
