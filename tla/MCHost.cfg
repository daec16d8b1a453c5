CONSTANTS
    c1 = c1
    c2 = c2
    Clients <- OneClient
    Script <- JoinPlayLeave
    Inject = {"server_pause", "public_key", "public_key_bad"}
    HostCommands = {"server_action"}
    Allowed <- QuadwarAllowed
    RecvBatch = 2
    ChunkFrames = 2
    MaxRequest = 2
    MaxReceives = 2
SPECIFICATION Spec
CONSTRAINT Bounds
INVARIANT TypeOK
INVARIANT QueueConsistent
INVARIANT EncryptOnlyReady
INVARIANT RootTracksSlots
PROPERTY RunStateFromHost
