\* Both directions out of credit at once: two outputs, either of which may never be read,
\* a stdin longer than the window, and a signal, over buffers of one document.
SPECIFICATION WholeFairSpec
CONSTANTS
    Stdin = stdin
    Outputs = {stdout, stderr}
    Readable = {}
    Writable = {}
    WINDOW = 1
    MAXIMUM_CHUNK = 1
    SOCKET = 1
    Input = 2
    Little = 0
    Output = 1
    Opens = 0
    Signals = 1
    StdinKinds = {"reader"}
    Faults = {}
PROPERTIES SignalsAnswered OutputFlows Returns InputFlows
