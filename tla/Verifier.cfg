\* Every file is within the limit of the scan.
SPECIFICATION RecordSpec
CONSTANTS
    Executables <- Files
    Magic <- RecordMagic
    RECORD_LEN = 4
    CHUNK = 3
    SCAN_LIMIT = 16
INVARIANT VerifierFindsSame
CHECK_DEADLOCK FALSE
