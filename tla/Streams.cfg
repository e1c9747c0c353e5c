\* Output whose credit runs out and is granted in half windows, with all the client's faults;
\* a descriptor opened to read and write, asked for twice, closed early.
SPECIFICATION ScenesSpec
CONSTANTS
    Stdin = stdin
    Outputs = {stdout}
    Readable = {fd3}
    Writable = {fd3}
    WINDOW = 4
    MAXIMUM_CHUNK = 3
    SOCKET = 1
    Input = 5
    Output = 5
    Little = 2
    Opens = 2
    Signals = 0
    StdinKinds = {"reader", "ended"}
    Faults = {"end", "disconnect", "break", "discard", "close"}
INVARIANTS TypeOK WithinWindow CreditConserved InOrder OutputComplete ClosedOnce
PROPERTIES InboundPipes OutboundPipes
