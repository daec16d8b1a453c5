CONSTANTS
    c1 = c1
    c2 = c2
    Clients <- TwoClients
    Script <- JoinPlay
    Inject = {}
    HostCommands = {"server_action"}
    Allowed <- QuadwarAllowed
    RecvBatch = 2
    ChunkFrames = 2
    MaxRequest = 2
    MaxReceives = 1
SPECIFICATION Spec
CONSTRAINT Bounds
INVARIANT AttributedToSender
