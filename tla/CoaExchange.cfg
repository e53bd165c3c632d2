SPECIFICATION CoaSpec
CONSTANTS
    None = None
    Exchanges = {x1, x2}
    Sessions = {1, 2}
    SessionIds <- MCSessionIds
    Reported <- MCReported
    Vendor = {"standard", "extreme"}
    Ports = {1}
    Identifiers = {1}
    Seconds = {1, 2}
    Retries = 2
    Concurrency = 1
INVARIANTS
    CoaTypeOK
    OnlyChosenEnd
PROPERTIES
    KeepsPromise
    EveryTargetTried
CHECK_DEADLOCK FALSE
