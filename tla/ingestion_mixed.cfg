SPECIFICATION FairSpec
CONSTANTS
    agentA = agentA
    agentB = agentB
    eventX = eventX
    eventY = eventY
    r1 = r1
    r2 = r2
    Requests = {r1, r2}
    Agents = {agentA, agentB}
    EventIds = {eventX, eventY}
    Times = {1, 2}
    MaxBatchSize = 3
    PoolMax = 2
    MaxSeq = 6
    MaxFaults = 1
    Signals = TRUE
    LosesReplies = TRUE
    KeyEntries <- Keys
    Bodies <- Mixed
PROPERTIES
    ImplementsLog
    EveryRequestAnswered
