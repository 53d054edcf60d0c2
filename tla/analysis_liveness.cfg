SPECIFICATION FairSpec
CONSTANTS
    Writers = {w1, w2}
    Agents = {a1}
    MaxSeq = 4
    Runners = {poller, api}
    Poller = poller
    RuleCount = 3
    Limit <- DetectedLimit
    MaxBatches = 1
    LiveRunners = {poller, api}
    Backfillers = {}
    MaxFaults = 1
    w1 = w1
    w2 = w2
    a1 = a1
    poller = poller
    api = api
    Finds <- DetectedFinds
    Raises <- DetectedRaises
    OccurredAt <- MCOccurredAt
    LowerCase <- MCLowerCase
    ALLOWED_DOMAINS <- MCAllowedDomains
    SECRET_PATH_PATTERNS <- MCSecretPathPatterns
    EventOf <- MCEventOf
    Entries <- MCEntries
INVARIANTS
    NoSkip
    EntryCoversSubdomains
PROPERTIES
    EventuallyExamined
