\* One invocation after another with up to three faults, or one more beside them with one fault.
SPECIFICATION AloneSpec
CONSTANTS
    Launchers = {a, b}
    Once = {b}
    Daemons = 3
    Scripts <- Rebuilt
    Faults = {"kill", "java", "crash", "exit", "start", "idle", "mute", "reuse"}
    FaultLimit = 3
    FaultsTogether = 1
    Nobody = Nobody
    a = a
    b = b
INVARIANTS TypeOK OneStarts
PROPERTIES Served ServedFresh
