SPECIFICATION MCSpec
CONSTANTS
    None = None
    Users <- MCUsers
    Macs <- MCMacs
    Clients <- MCClients
    Ips <- MCIps
    Sids <- MCSids
    Ssids <- MCSsids
    UserRows <- MCUserRows
    Tables <- MCTables
    NasRows <- MCNasRows
    Requests <- MCRequests
    Records <- MCRecords
    MaxGuests = 1
    MaxLog = 2
INVARIANTS
    AAATypeOK
    ContextFromOwnAccept
    FreshAcceptStays
