SPECIFICATION MCSpec
CONSTANTS
    None = None
    Closed = Closed
    PolicyChange = {1}
    WorldChange = {11}
    Users <- MCUsers
    Macs <- MCMacs
    Clients <- MCClients
    Ips <- MCIps
    Sids = {1}
    Ssids <- MCSsids
    UserRows <- MCUserRows
    Tables <- MCTables
    NasRows <- MCNasRows
    Requests <- MCRequests
    Records <- MCRecords
    MaxGuests = 1
INVARIANTS
    EnforcementTypeOK
    KeptSessionsConform
    NeverCutsOnBrokenPolicies
