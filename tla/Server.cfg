\* Two datagrams and two connections for one permit each; answers that fit a
\* datagram, only a TCP message, and neither; resolutions shorter and longer
\* than the grace period.
SPECIFICATION FairSpec
CONSTANTS
    UdpQuery = {u1, u2}
    TcpConn = {t1, t2}
    MaxConcurrentQueries = 1
    MaxConnections = 1
    Work = {1, 2}
    Grace = 2
    Sizes = {1, 2, 3}
    MaxUdpPayload = 1
    MaxMessage = 2
CHECK_DEADLOCK FALSE
INVARIANTS
    TypeOK
    PermitsConserved
    GraceSuffices
PROPERTIES
    DatagramsSettled
    ShutdownCompletes
