CONSTANTS
    Callers = {1, 2}
    Permits = 1
    Ops = {"entity_list", "device_list", "state_get", "history_get", "camera_snapshot",
           "network_list", "set_preferred", "matter_list", "matter_query", "interview",
           "upsert", "config_get", "blueprint_get", "from_blueprint", "setup", "restart"}
    MaxChanges = 2
    Racing = {"camera_snapshot", "setup", "state_get"}
    RaceChanges = 1
    Invokers = {1, 2}
    CallPermits = 1
    Revisions = {1, 2}
    CallChanges = 2
    MaxResponse = 4
    Keys = {1, 2, 3}
    Data = {1, 2}
    MaxRouters = 2
    RouterChanges = 2
    Requests = {r1, r2, r3}
    MaxTicks = 2
SPECIFICATION AllSpec
INVARIANTS
    TriggerRetryIsSafe AuthorityIsFresh PermitsBalance
    FreshAuthority AnswersAreTrue MetricsBalance RestIsTrue DiscoveryIsTrue ShutdownIsOrderly
PROPERTIES NoLateSnapshot NothingHangs
CHECK_DEADLOCK FALSE
