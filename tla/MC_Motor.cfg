SPECIFICATION FairSpec
CONSTANTS
    ALERT_WINDOW = 1
    OVERCURRENT_TIMEOUT = 4
    FAULT_WINDOW = 5
    MIN_BACKOFF = 2
    MAX_RETRY_WINDOW = 6
    MaxLag = 2
    MaxCommands = 3
INVARIANTS TypeOK PowerFollowsCommand ShortIsCut
PROPERTIES OverloadIsSustained PowerComesBack
