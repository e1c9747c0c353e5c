\* One invocation, and a second delivery while the first is being swapped in.
SPECIFICATION UpdateSpec
CONSTANTS
    Launchers = {a}
    Installed <- Build2
    Deliveries <- Binaries
    Killable = FALSE
    Fallible = FALSE
    Starts = 1
    Delivered = 2
INVARIANT SwappedIsVerified
CHECK_DEADLOCK FALSE
