SPECIFICATION MCSpec
CONSTANTS
    None = None
    Names = {"alice", "bob"}
    Sources = {1, 2, 3}
    Free = 1
    Cap = 2
    Spread = 2
    Window = 2
    MaxKeys = 2
    FloatExponent = 1024
    MaxClock = 3
    Passwords = {"p", "q"}
    GroupIds = {1}
    GroupNames = {"staff", "visitors"}
    LdapEnabled = TRUE
    GroupMap <- MCGroupMap
    Entries <- MCEntries
    Requests = {r1, r2}
    Files <- MCFiles
    VerifiedSeconds = 1
    MaxVerified = 2
SYMMETRY Symmetry
INVARIANTS
    CredentialsTypeOK
    OwnerNotSlowed
    VerifiedRemembered
PROPERTIES
    NoTakeover
    ImportsOnlyAdd
CHECK_DEADLOCK FALSE
