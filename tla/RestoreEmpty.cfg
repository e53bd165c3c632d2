SPECIFICATION StorageSpec
CONSTANTS
    None = None
    ENCRYPTED_COLUMNS = {totp_secret, nas_secret}
    Keys = {k1, k2}
    MaxCommits = 3
    MaxRestores = 2
INVARIANTS
    RestoresOnlyBackups
