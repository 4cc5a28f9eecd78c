SPECIFICATION Spec
CONSTANTS
    Clients = {"c1"}
    Operations = {"configure", "start", "stop", "block"}
    Configs = {"g1"}
    NoConfig = "none"
    MaxCalls = 6
    MaxCuts = 1
    MaxSessions = 2
INVARIANT OldGenerationFails
CHECK_DEADLOCK FALSE
