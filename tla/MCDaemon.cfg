CONSTANTS
    MaxAmount = 3
    MaxComponent = 2
    LaunchOptions <- MCLaunchOptions
    Connections = {c1}
    Streams <- MCStreams
    BufferSize = 3
    Queues = 2
    Mbufs = {m1, m2}
    Packets <- MCPackets
    MaxPackets = 2
    Burst = 2
    Endpoints <- MCEndpoints
    Transports = {"tcp", "dpdk"}
SPECIFICATION Spec
INVARIANTS PlanNeverOverbooks LifecycleSafe AnswersMatchLines PacketsAccounted
PROPERTIES ShutdownCompletes
CHECK_DEADLOCK FALSE
