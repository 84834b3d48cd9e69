SPECIFICATION Spec
CONSTANTS
    Requests <- FilesRequests
    SupportedChannels <- MCSupportedChannels
    EksDChannels <- MCEksDChannels
    Contained <- MCContained
    Artifacts <- MCArtifacts
    MaxRelease = 2
    MaxCommands = 2
    MaxFailures = 1
    MaxTarballs = 2
INVARIANT AdditionalFilesCopied
CHECK_DEADLOCK FALSE
