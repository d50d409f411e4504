SPECIFICATION Spec
CONSTANTS
    Guards = {g1, g2, g3}
    Fds = {d1, d2}
    PageNos = {n1, n2}
    Files = {f1, f2}
    PoolSize = 2
    NoPage = NoPage
    NoFile = NoFile
    NoFd = NoFd
SYMMETRY Symmetry
INVARIANTS
    PinsMatchGuards
    ViewsArePinned
    NoLostUpdate
    NoStaleFrames
