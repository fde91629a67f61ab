\* The build that forks a process for each resolver thread.
SPECIFICATION MCSpec
CONSTANTS
    Parts = {"lookups"}
    NULL = NULL
    Pairs <- MCPairs
    Records = {1}
    Size = 2
    Hash <- MCHash
    POOL_BLOCK_SIZE = 2
    MaxBlocks = 2
    Concurrent = FALSE
    Workers = {t1, t2}
    Backends = {"forking"}
    Family <- MCFamily
    Need <- MCNeed
    MaxBuffer = 8
    Ports <- MCPorts
    Protocols = {6, 17, 132}
    Names = {"http", "www"}
    SERV_NUM_PORTS = 2
    MaxCount = 4
INVARIANTS WorkerTakesRequests
