\* Each part of MCParts with its own bounds.
SPECIFICATION PartsSpec
CONSTANTS
    Executables <- Files
    Magic <- RecordMagic
    RECORD_LEN = 4
    CHUNK = 3
    SCAN_LIMIT = 4
    Launchers = {a, b}
    Installed <- Build2
    Deliveries <- Binaries
    Killable = TRUE
    Fallible = TRUE
    Starts = 3
    Delivered = 2
    Spawner = a
    Waiters = {b}
    STARTUP_IDLE_LIMIT = 2
    Reports = 1
    MaxClock = 4
    READ_LEN = 4
    Typeable = {"key", "ESC", "BEL"}
    Typed = 3
    Installers = {a, b}
    Releases = {c, d}
    java_min = 21
    Majors = {0, 17, 21}
    Searches = 4
    chain <- Chain
    Newer <- NewerLayers
    Foreign <- ForeignBase
    SHORTEST = 1
    HASH = 2
    HALF = 4
    DIGITS = 2
    TOP = 1
    MAGIC <- DocumentMagic
    signature <- Signatures
    LAYERS <- ModeFlag
    MAXIMUM_LENGTH = 24
    LARGEST_CHUNK = 4
    Chunks <- SomeChunks
    Texts <- SomeTexts
    Strange <- Oddities
    Sendings = 2
    Handlers = {"main", "reader"}
    Kinds = {"TERM", "TSTP"}
    Foregrounds = {TRUE}
    Signals = 2
INVARIANTS
    FirstRecordFound Recoverable NeverStranded Together ExitedMeansGone ReplyTakenWhole
    Negotiated HeardAsSaid Reencodes
    TypeOK OwnAnswerInTime TermDiesInTime
PROPERTIES
    SwapsVerified IdleWindow JavaIsWhole  
CHECK_DEADLOCK FALSE
