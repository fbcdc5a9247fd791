SPECIFICATION Spec
CONSTANTS
    Pins = {p1, p2}
    MaxParallelSof = 2
    Word = 4
    Slack = 2
    MaxHi = 2
    MaxFrames = 4
INVARIANTS
    NumberedByFrame
    TscExact
