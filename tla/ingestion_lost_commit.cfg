SPECIFICATION Spec
CONSTANTS
    agentA = agentA
    agentB = agentB
    eventX = eventX
    eventY = eventY
    r1 = r1
    r2 = r2
    r3 = r3
    Requests = {r1, r2, r3}
    Agents = {agentA, agentB}
    EventIds = {eventX, eventY}
    Times = {1, 2}
    MaxBatchSize = 3
    PoolMax = 2
    MaxSeq = 6
    MaxFaults = 1
    Signals = FALSE
    LosesReplies = TRUE
    KeyEntries <- Keys
    Bodies <- Colliding
SYMMETRY Symmetry
INVARIANTS
    FailurePersistsNothing
