SPECIFICATION NightlySpec
CONSTANTS
    Dirs = {d1, d2}
    Projects = {"containerd"}
    Patched = {"containerd"}
    Checksummed = {"containerd"}
    GoProjects = {"containerd"}
    BadPatches <- MCBadPatches
    GoMinor <- MCGoMinor
    Slots = {"ova", "raw"}
    MaxVersion = 3
    MaxDate = 2
    MaxJobs = 2
    MaxPublished = 2
    MaxFailures = 1
PROPERTIES NeverDowngraded Converges
CHECK_DEADLOCK FALSE
