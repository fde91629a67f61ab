\* From resolver_initialise(): the cache, the ring and its workers.
SPECIFICATION FairSpec
CONSTANTS
    Addr = {a1, a2, a3, local}
    LocalAddr = {local}
    NoAddr = NoAddr
    Workers = {w1, w2}
    Clients = {packet, ui}
    RESOLVE_QUEUE_LENGTH = 3
    NS_HASH_MAX_ENTRIES = 2
INVARIANTS IInv
PROPERTIES NamesKept NoLostWakeup QueueDrains
