SPECIFICATION MCAdminSpec
CONSTANTS
    None = None
    Admins = {1, 2}
    Tokens = {t1}
    Procs = {p1, p2}
    RequireTotp = FALSE
    RecoveryCodes = 1
    MaxSignIns = 2
    MaxFresh = 7
    MaxStep = 2
    Streams = {s1}
    QueueSize = 2
    Recheck = 1
    Wait = 1
    MaxNow = 3
    MaxEvents = 3
SYMMETRY Symmetry
INVARIANTS
    AuthTypeOK
    FeedTypeOK
    ShownCodesAreStored
    CodeWorksOnce
    DisabledEndsSessions
    SuperuserRemains
    StreamEndsWithSession
    AuditForThoseWhoMay
    OnlyOldestLost
PROPERTIES
    PasswordChangeEndsSessions
