\* The handshake on a build where plain char is unsigned (ARM): every
\* proxy reply, segmentation of the stream, close and reset.
CONSTANTS
    Scripts <- MCScripts
    DestLens <- MCDestLens
    CharSigned = FALSE
SPECIFICATION Spec
INVARIANTS
    TypeOK
    SuccessImpliesWellFormedReply
    NoBufferOverrun
    SocketOwnership
    RequestSequence
\* The call returns: a finished handshake has no further step.
CHECK_DEADLOCK FALSE
