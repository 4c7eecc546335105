CONSTANTS
    ConfiguredBytes = 3
    ConfiguredChars = 0
    DefaultBytes = 4
    DefaultChars = 2
    MaxOutput = 0
SPECIFICATION BashLiveSpec
PROPERTY FallbackIsReported
CHECK_DEADLOCK FALSE
