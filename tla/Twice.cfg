\* A second invocation beside the first in an empty state directory, and no fault.
SPECIFICATION AloneSpec
CONSTANTS
    Launchers = {a, b}
    Once = {b}
    Daemons = 3
    Scripts <- Built
    Faults = {}
    FaultLimit = 0
    FaultsTogether = 0
    Nobody = Nobody
    a = a
    b = b
INVARIANT ExactlyOne
