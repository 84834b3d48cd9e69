SPECIFICATION Spec
CONSTANTS
    Requests <- TarballRequests
    SupportedChannels <- MCSupportedChannels
    EksDChannels <- MCEksDChannels
    Contained <- MCContained
    Artifacts <- MCArtifacts
    MaxRelease = 2
    MaxCommands = 2
    MaxFailures = 1
    MaxTarballs = 2
INVARIANT BundleFromGivenTarball
CHECK_DEADLOCK FALSE
