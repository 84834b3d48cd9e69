SPECIFICATION Spec
CONSTANTS
    Dirs = {d1}
    Projects = {"containerd", "image-builder", "cilium", "eks-distro"}
    Patched = {"containerd"}
    Checksummed = {"containerd"}
    GoProjects = {"containerd"}
    BadPatches <- MCBadPatches
    GoMinor <- MCGoMinor
    Slots = {"ova", "raw"}
    MaxVersion = 2
    MaxDate = 2
    MaxJobs = 2
    MaxPublished = 2
    MaxFailures = 1
INVARIANTS TypeOK CommitIsOneUpgrade VersionsAgree
CHECK_DEADLOCK FALSE
