SPECIFICATION MCSpec
CONSTANTS
    None = None
    Users = {"alice"}
    Groups = {"ops"}
    Sets = {"readonly", "all"}
    Addresses = {"sw1"}
    Commands = {"show", "reload"}
    Services = {"shell"}
    GroupRows <- MCGroupRows
    SetRows <- MCSetRows
    Starts <- MCStarts
    Conns = {c1}
    Sids = {s1}
    MaxSeq = 3
    max_connections = 1
    max_connections_per_client = 1
    MaxEdits = 2
INVARIANT
    CommandsWithinSet
