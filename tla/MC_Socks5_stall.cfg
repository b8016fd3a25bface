\* The handshake against a proxy that may go silent, with the dialing thread
\* weakly fair.
CONSTANTS
    Scripts <- MCScripts
    DestLens <- MCDestLens
    CharSigned = FALSE
SPECIFICATION FairSpec
PROPERTY HandshakeReturns
CHECK_DEADLOCK FALSE
