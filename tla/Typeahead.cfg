\* Keys typed before and about the terminal's reply, more than one read of the handshake takes.
SPECIFICATION HandshakeSpec
CONSTANTS
    READ_LEN = 4
    Typeable = {"key"}
    Typed = 3
INVARIANT NothingLost
