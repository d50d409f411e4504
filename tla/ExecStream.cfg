SPECIFICATION FairSpec
CONSTANTS
    MaxRequests = 2
    MaxConns = 2
    MaxRows = 1
    None = None
INVARIANTS
    ClientSynchronised
    NoProtocolError
PROPERTIES
    ImplementsRequestReply
    CallsReturn
    SessionReclaimed
