SPECIFICATION FairSpec
CONSTANTS
    Conns = {c1, c2}
    Fds = {3, 4, 5}
    NoConn = NoConn
INVARIANTS
    RegistryMatchesSockets
    ServedConnectionRegistered
    NoClientDuringClose
    NoSocketLeak
PROPERTIES
    NoForeignClose
    StopTerminates
