SPECIFICATION Spec
CONSTANTS
    ProtocolVersion = 1
    Ids = {1, 2}
    MaxCommands = 2
    Ops = {0, 1, 2, 3, 5}
INVARIANT
    TypeOK
PROPERTIES
    RejectedChangesNothing
    OkChangesNothing
    IdOnlyByCommand
