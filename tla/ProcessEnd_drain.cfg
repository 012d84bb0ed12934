SPECIFICATION Spec
CONSTANTS
    Loggers = {l1, l2}
    Signals = {sigterm, sigint}
    MaxRecords = 2
    StdioSignals = 1
    MaxCalls = 3
INVARIANTS
    NoRecordDropped
    LogInOrder
    DrainedBeforeExit
PROPERTIES
    AppendOnly
    SignalExits
