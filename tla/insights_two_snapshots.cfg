SPECIFICATION Spec
CONSTANTS
    AlertIds = {1, 2, 3}
    EventIds = {4, 5}
    Agents = {1, 2}
    DefaultSpan = 3
    DefaultPageSize = 1
    MaxPageSize = 2
    TopRulesLimit = 2
    MaxNow = 3
    MaxFaults = 1
    EventOf <- MCEventOf
    AgentOf <- MCAgentOf
    SeverityOf <- MCSeverityOf
    RuleOf <- MCRuleOf
    OccurredAt <- MCOccurredAt
    KeyEntries <- Keys
    MaxWindow = 5
    Queries <- Ranges
INVARIANTS
    PageAgreesWithTotal
