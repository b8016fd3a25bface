\* The handshake on a build where plain char is signed (x86): the domain
\* length byte of the reply is read through a signed char.
CONSTANTS
    Scripts <- MCScripts
    DestLens <- MCDestLens
    CharSigned = TRUE
SPECIFICATION Spec
INVARIANT NoBufferOverrun
CHECK_DEADLOCK FALSE
