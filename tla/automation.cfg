SPECIFICATION Spec
CONSTANTS
    Runs = {1, 2}
    AgentWorkers = {a1, a2}
    NoRun = none
    AgentBatch = 2
    MaxAgentFaults = 1
    MaxSwitches = 1
    Triggers = {1, 2}
    Dispatchers = {w1, w2}
    Crons = {{1, 2}, {1}}
    DispatchBatch = 2
    LastMinute = 2
    MaxTriggerEdits = 1
    MaxDispatchFaults = 1
    Events = {e1, e2}
    EventTriggers = {1, 2, 3}
    MaxFanout = 2
    MaxEventToggles = 2
    Proposals = {p1}
    Founders = {f1, f2}
    Endpoints = {v1, v2}
    MaxFounderFaults = 1
    MaxDecisions = 3
    Credentials = {1, 2}
    Servers = {s1, s2}
    RekeyBatch = 1
    LastKey = 3
    Rolling = FALSE
    MemorySweeps = {y1, y2}
    TelemetrySweeps = {z1}
    WorkingMemories = {{1}, {2}}
    LongTermMemories = {3}
    Telemetry = {{4, 5}, {6}}
    SweepBatch = 1
    MaxOrgs = 2
    MaxSweepFaults = 1
    Hashes = {1, 2}
    SignalRows = {1, 2, 3}
    NoSignal = none
    Triagers = {h1, h2}
    Deciders = {f1}
    MaxEmissions = 3
INVARIANTS AutomationTypesOK EventAccounted TaskBehindApproval SecretsReadable
PROPERTIES
    CancelWins RunsEnd TickQueuedOnce DueTriggersFire
    RekeyCompletes ExpiredRowsGo FeedSettles
CHECK_DEADLOCK FALSE
