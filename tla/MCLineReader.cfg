SPECIFICATION Spec
CONSTANTS
    AG_LINE_BUFFER = 4
    OtherBytes = {"x"}
    MaxStream = 7
INVARIANTS
    LineTypeOK
    LinesAreTheStream
    ReceivedLineIsNotAwaited
    OnlyOverlongIsRefused
