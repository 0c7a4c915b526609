CONSTANTS
    Words <- MCWords
    Kind <- MCKind
    Keys <- MCKeys
    DaemonOnly = {"authentication_keys"}
    Number <- MCNumber
    Lower <- MCLower
    Algorithms = {"md5", "sha1", "sha256"}
    TextDefaults <- MCDefaults
    Entries <- MCEntries
    MaxLines = 2
SPECIFICATION TextSpec
CHECK_DEADLOCK FALSE
INVARIANTS
    FormatsAgree
    DaemonReadsCompact
