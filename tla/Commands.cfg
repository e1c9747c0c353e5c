\* Commands one after another on a terminal being typed at, and all that may befall it.  A session
\* that ends while a command holds an output never returns (the hang of the run "lost"), so the
\* system may stop.
SPECIFICATION ScenesSpec
CONSTANTS
    Outputs = {stdout}
    WINDOW = 1
    MAXIMUM_CHUNK = 1
    SOCKET = 1
    Foregrounds = {TRUE, FALSE}
    Keys = 2
    Leftovers = {1}
    Output = 1
    Modes = 1
    Runs = 2
    Faults = {"disconnect", "hangup", "close", "end"}
INVARIANTS TypeOK Uncontested KeysInOrder
PROPERTIES TakesNothingUp RunAnswered KeysCarried
CHECK_DEADLOCK FALSE
