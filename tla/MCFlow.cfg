SPECIFICATION Spec
CONSTANTS
  RunCmds = {"ControlPlaneInit", "ControlPlaneJoin", "WorkerJoin", "EtcdadmInit", "EtcdadmJoin", "EtcdadmInvalid", "other"}
  MaxChunks = 2
  MaxRuns = 3
INVARIANTS TypeOK PodsMatchManifests KubeVipPatched UserDataComplete
PROPERTIES ImplementsNodeBootstrap KubeletJoinsLiveCluster
CHECK_DEADLOCK FALSE
