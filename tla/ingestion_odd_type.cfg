SPECIFICATION Spec
CONSTANTS
    agentA = agentA
    agentB = agentB
    eventX = eventX
    eventY = eventY
    r1 = r1
    Requests = {r1}
    Agents = {agentA, agentB}
    EventIds = {eventX, eventY}
    Times = {1, 2}
    MaxBatchSize = 3
    PoolMax = 2
    MaxSeq = 6
    MaxFaults = 0
    Signals = TRUE
    LosesReplies = FALSE
    KeyEntries <- Keys
    Bodies <- OddType
PROPERTIES
    BatchesAnswerPerItem
