SPECIFICATION NightlySpec
CONSTANTS
    Dirs = {d1}
    Projects = {"image-builder"}
    Patched = {"image-builder"}
    Checksummed = {"image-builder"}
    GoProjects = {"image-builder"}
    BadPatches <- MCBadPatches
    GoMinor <- MCGoMinor
    Slots = {"ova", "raw"}
    MaxVersion = 2
    MaxDate = 2
    MaxJobs = 2
    MaxPublished = 2
    MaxFailures = 0
PROPERTY PushMovesOneBranch
CHECK_DEADLOCK FALSE
