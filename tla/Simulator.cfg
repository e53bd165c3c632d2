SPECIFICATION SimSpec
CONSTANTS
    None = None
    Users <- MCUsers
    Macs <- MCMacs
    Clients <- MCClients
    Ips <- MCIps
    Sids = {1}
    Ssids <- MCSsids
    UserRows <- MCUserRows
    Tables <- MCTables
    NasRows <- MCNasRows
    Requests <- MCRequests
    Records <- MCRecords
    MaxGuests = 1
INVARIANT
    SimulatorAgrees
