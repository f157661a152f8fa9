\* Four entries through a channel of two.
SPECIFICATION Spec
CONSTANTS
    Entries = 4
    Buffer = 2
INVARIANTS
    TypeOK
    EntriesInOrder
    NothingSkipped
    WholeLinesParse
PROPERTIES
    EntriesHandedOver
    DroppedReceiverEndsTask
CHECK_DEADLOCK FALSE
