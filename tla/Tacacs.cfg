SPECIFICATION MCSpec
CONSTANTS
    None = None
    Users = {"alice"}
    Groups = {"ops"}
    Sets = {"readonly", "all"}
    Addresses = {"sw1", "sw2", "sw3"}
    Commands = {"reload"}
    Services = {"shell", "junos-exec"}
    GroupRows <- MCGroupRows
    SetRows <- MCSetRows
    Starts <- MCStarts
    Conns = {c1, c2, c3}
    Sids = {s1, s2}
    MaxSeq = 5
    max_connections = 2
    max_connections_per_client = 1
    MaxEdits = 1
SYMMETRY Symmetry
INVARIANTS
    TacacsTypeOK
    SlotsMatchConnections
    LoginsFromOwnDialogue
