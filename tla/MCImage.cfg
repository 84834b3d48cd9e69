SPECIFICATION Spec
CONSTANTS
    Requests <- MCRequests
    SupportedChannels <- MCSupportedChannels
    EksDChannels <- MCEksDChannels
    Contained <- MCContained
    Artifacts <- MCArtifacts
    MaxRelease = 2
    MaxCommands = 2
    MaxFailures = 1
    MaxTarballs = 2
INVARIANTS TypeOK OutputIsThisBuild LeftoverOnlyFromFailure AirGappedSources TarballComplete ArtifactsComplete TargetSupported
CHECK_DEADLOCK FALSE
