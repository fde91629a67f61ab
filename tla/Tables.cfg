\* The tables and their pool, one insertion at a time; services; lookups.
SPECIFICATION MCSpec
CONSTANTS
    Parts = {"flows", "services", "lookups"}
    NULL = NULL
    Pairs <- MCPairs
    Records = {1}
    Size = 2
    Hash <- MCHash
    POOL_BLOCK_SIZE = 2
    MaxBlocks = 2
    Concurrent = FALSE
    Workers = {t1, t2}
    Backends = {"getnameinfo", "gethostbyaddr_r", "gethostbyaddr", "libresolv", "ares", "forking", "none"}
    Family <- MCFamily
    Need <- MCNeed
    MaxBuffer = 8
    Ports <- MCPorts
    Protocols = {6, 17, 132}
    Names = {"http", "www"}
    SERV_NUM_PORTS = 2
    MaxCount = 4
INVARIANTS EveryNodeInOnePlace RotationMissesNone LookupsKeepApart LookupIsLatest
PROPERTIES TablesAreMaps EveryLookupEnds
