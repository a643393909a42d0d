CONSTANTS
    MaxLines = 4
    PipeCapacity = 2

SPECIFICATION Spec

INVARIANT MarkerNotLost
