CONSTANTS
    MaxLines = 4
    PipeCapacity = 2

SPECIFICATION Spec

INVARIANT TypeOK
INVARIANT CaptureAfterLastClear
PROPERTY ExitedReturns
PROPERTY ImplementsLiveStream
