SPECIFICATION Spec
CONSTANTS
  Roles = {"first", "rest", "worker"}
  MaxDeaths = 3
INVARIANTS TypeOK CorednsSafe KubeadmSkipsCoredns RollbackPath ConfigWhole ArgsRecoverable DoneMeansUpgraded
PROPERTY Converges
CHECK_DEADLOCK FALSE
