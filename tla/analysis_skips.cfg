SPECIFICATION AnalysisSpec
CONSTANTS
    Writers = {w1, w2}
    Agents = {a1, a2}
    MaxSeq = 3
    Runners = {poller, api}
    Poller = poller
    RuleCount = 2
    Limit <- MCLimit
    MaxBatches = 2
    LiveRunners = {poller, api}
    Backfillers = {}
    MaxFaults = 1
    w1 = w1
    w2 = w2
    a1 = a1
    a2 = a2
    poller = poller
    api = api
    Finds <- MCFinds
    Raises <- MCRaises
    OccurredAt <- MCOccurredAt
SYMMETRY Symmetry
INVARIANTS
    NoSkip
