CONSTANTS
    c1 = c1
    c2 = c2
    Clients <- OneClient
    Script <- JoinPlayTwice
    Inject = {}
    HostCommands = {}
    Allowed <- QuadwarAllowed
    RecvBatch = 1
    ChunkFrames = 2
    MaxRequest = 2
    MaxReceives = 1
SPECIFICATION FairSpec
PROPERTY GapFilledOnFairNetwork
PROPERTY RefinesClientLog
