\* One command, and one chunk of output that arrives as it starts.
SPECIFICATION FairSpec
CONSTANTS
    Outputs = {stdout}
    WINDOW = 1
    MAXIMUM_CHUNK = 1
    SOCKET = 1
    Foregrounds = {TRUE}
    Keys = 0
    Leftovers = {0}
    Output = 1
    Modes = 0
    Runs = 1
    Faults = {}
PROPERTY NothingInterleaves
CHECK_DEADLOCK FALSE
