SPECIFICATION Spec
CONSTANTS
    Videos <- MCVideos
    Receivers <- MCReceivers
    Sensors <- MCSensors
    Configs <- MCConfigs
    MaxFailures = 1
INVARIANTS
    
    NothingLeft
PROPERTIES
    IsysComesUp
CHECK_DEADLOCK FALSE
