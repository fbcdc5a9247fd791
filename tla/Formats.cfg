SPECIFICATION Spec
CONSTANTS
    Nodes <- MCNodes
    Sinks <- MCSinks
    VcOf <- MCVcOf
    MaxStreams = 2
    Routings <- MCRoutings
    Codes <- MCCodes
    Code0 <- MCGrbg
    SubFormats <- MCSubFormats
    Selections <- MCSelections
    Pfmts <- MCPfmts
    Default <- MCDefault
    NodeFormats <- MCNodeFormats
    UsedTypes <- MCUsedTypes
    Sizes <- MCSizes
    MinWidth = 2
    MaxWidth = 8
    MinHeight = 1
    MaxHeight = 8
    U32 = 4096
    Initial <- MCInitial
    RouteFormat <- MCRouteFormat
    Overshoot = 0
INVARIANTS
    SourceFollowsSink
    PinFitsBuffer
    StreamsOwned
    RunsAsValidated
