# Verification of eks-anywhere-build-tooling

TLA+ models of the parts of this repository that have behaviour of their own, with
TLC runs on small instances and TLAPS proofs for all values of the constants.
`PROJECT.json` holds the exact correspondence: which definition stands for which
lines, which run checks which property, which hazards of the code they cover.

## Parts of the system

The repository builds the artifacts of EKS Anywhere. Most of it is data for other
tools (Makefiles, buildspecs, Dockerfiles, patches, checksums). The logic is in:

| Part | Where | Models |
|------|-------|--------|
| Snow bootstrap container | `projects/aws/bottlerocket-bootstrap/pkg/providers/snow` | `SnowBootstrap` |
| Bootstrap host container | `.../pkg/bootstrap.go`, `kubeadm/`, `etcdadm/`, `utils/` | `NodeBootstrap`, `BootstrapFlow` |
| Its waits | `.../pkg/utils/waiters.go`, `kubeadm/waiters.go`, `kubeadm/utils.go` | `FileWaiter`, `EbsInit`, `KubeletWaiter`, `HttpWaiter`, composed in `BootstrapWaits` |
| In-place node upgrade | `projects/aws/upgrader/upgrade.sh` | `NodeUpgrader` |
| version-tracker | `tools/version-tracker` | `LatestRevision`, `VersionTracker` |
| image-builder CLI | `projects/aws/image-builder` | `BuildOptions`, `ImageBuilder` |
| EC2 image build, PR job, build library, build graph, buildspecs, straight-line scripts | see [Not modelled](#not-modelled) | none |

Two containers prepare a Bottlerocket node: the Snow one runs at every boot and
prepares network and disk, the host container runs while it is enabled and joins the
node to its cluster with kubeadm or etcdadm. `upgrade.sh` later upgrades a node in
place from a pod. All three are started again after failures and find what earlier
runs left on the node. The two command line tools share the trait: the version-tracker
works in a clone that it may find from an earlier command and pushes to a repository
that other jobs push to, and the image-builder CLI works in a directory with the clone,
manifests and artifacts of earlier commands. What persists, and what a run that follows
a dead one does with it, is therefore the subject of most properties.

## Modules

**SnowBootstrap.** `Snow.Bootstrap` as one action per step: settings, node address,
kernel, `net.toml`, partition, mount, reboot. Steps are split where the process can
die between two effects, for example between `mkfs.ext4` and its marker file. The
state is what survives a boot (marker files, `net.toml`, volume, settings) and what
does not (mount, the network this boot came up with). Any step fails, the container is
killed, the machine loses power; a failed API call may have taken effect. With
`StatErrors`, `os.Stat` fails and `PathExists` takes a missing file for an existing one.

**NodeBootstrap** is the promise of the host container: attempts that may fail and
are repeated while the container is enabled, success only on a bootstrapped node and
only with the container disabled. The first attempt disables it only on a bootstrapped
node, and may still fail after that.

**BootstrapFlow.** `Bootstrap()` over its restarts. A flow is the sequence of its
commands, file operations and waits (`controlPlaneInit`, `controlPlaneJoin`,
`workerJoin`, `etcdadmInit`, `etcdadmJoin`), chosen by `buildBootstrapper`, `RunCmd`
and `parseCmd`; `pc` is the position in it. Steps with an effect on the node have an
action of their own: the lock file, one secret of the user data, manifests, static
pods (which can be set in part), settings, cluster phases, and at the end disabling the
container, which takes effect before the exit and also if the call then fails. It
implements `NodeBootstrap` under the mapping at the end of the module.

**FileWaiter** (`KillCmdAfterFilesGeneration`), **EbsInit** (`startEbsInit`,
`checkEbsInit`), **KubeletWaiter** (`WaitForSystemdService`, `waitForActiveKubelet`)
and **HttpWaiter** (`WaitFor200`, `WaitForPods`) model the waits with their
goroutines, unbuffered channels, selects and timers. `os.Stat` may fail and then counts
as "exists"; a killed kubeadm may go on writing, since nobody waits for it. The last two
have a discrete clock, since their properties are about durations; the units of the
host change for as long as they like, and each change restarts the kubelet timer.

**BootstrapWaits** composes a run of `BootstrapFlow` with the four waiters: at the step
of a wait the waiter takes its steps, and its result decides how the flow goes on. The
EBS goroutine runs beside the flow; its steps commute with the flow's until
`checkEbsInit`, so the model takes them there. kubeadm writes on while the flow reads its
files.

**NodeUpgrader.** `upgrade.sh`, command by command. A file is written in two steps
and is cut off in between; under `errexit` the script dies at any command; the
kubelet, if it runs, starts the container again at its first command; a reboot starts
the kubelet and resumes the pod where it was or from its first container. A command that
runs a program which an earlier attempt left cut off fails. The order
of the pod's containers, and who restarts them, is not in this repository and is
marked external.

**LatestRevision.** `GetLatestRevision` as a function of what GitHub lists: the scan
over releases or tags, `isUpgradeRequired` by version or by commit date, and the ECR
Public lookup. Upstream is the sequence of its revisions in the order of publication;
the semantic versions are ranks.

**VersionTracker.** `upgrade`, `display` and `list-projects` in directories with kept
clones. A job is `Run` of `upgrade.go` with one action per call that changes anything:
clone or open, the revisions (read before the reset, as in the code), checkout of the
branch, hard reset, the edits of the project's files, the Bottlerocket, EKS-D and Cilium
flows, add (the tracker file whole, with the entries of all projects) and commit, the
forced push of every ref, and the pull request with its comment. A commit is a pair of
trees, its parent's and its own; a tree maps the files that the tool rewrites to what
they record. Every call fails, an edit fails between two files, and jobs of several
directories interleave. What is not in the repository is external: upstream publishing,
images and EKS-D releases (`Publish`, `PublishImage`, `ReleaseEKSDistro`), a developer
completing patches (`Complete`), a maintainer merging without conflict (`Merge`), a
fresh build container (`Clean`) and the scheduled batches (`NightlyStart`).

**BuildOptions.** `ValidateInputs` as predicates over the flags and the set of fields a
config has, the target each hypervisor asks of make, the Makefile's own check of that
target and the upstream target it converts it to, the RHSM proxy and the list of
additional files.

**ImageBuilder.** `build`, `download manifests` and `download artifacts`, one command
after another in one working directory. The steps are the calls that change the
directory: extract and rewrite a tarball, `--force`, `getBundle`, clone, checkout, the
release channel, make, move, cleanup, each download, tar. A command fails or is killed
at each of them and leaves the directory as it is; a download is cut short or saves an
error page; errors that the code drops (the walk of the archive, an unreadable
`EKSD_LATEST_RELEASES`) let the command go on; etcd and cni-plugins are skipped when no
asset has their name; EKS Anywhere publishes a release and a user brings a tarball in between.
The CodeBuild mode, which neither clones nor cleans up, is left out.

`MC*` modules instantiate the specifications for TLC. `*Proofs` modules hold the
theorems. Definitions called mutants are variants of a definition with a plausible bug;
each property is violated when its mutant takes the place of the definition.

## Runs

| Run | Properties | Shows |
|-----|------------|-------|
| `snow` | `RebootOnce`, `NodeIPAfterReboot`, `SuccessIsReady`, `NoDataLoss`, `Converges` | No `mkfs` on containerd's data, at most one requested reboot, no node address from before it, success only on a ready node, and convergence once a run is not disturbed. |
| `bootstrap_flow` | `PodsMatchManifests`, `KubeVipPatched`, `UserDataComplete`, `ImplementsNodeBootstrap`, `KubeletJoinsLiveCluster` | The flows implement `NodeBootstrap`; static pods match the manifests at success; kube-vip is patched before it runs from 1.29 on; the kubelet joins only after the pods answered; user data is whole. |
| `bootstrap_waits` | `OkMeansCreated`, `FreshOk`, `CallBounded`, `OkMeansAllUp`, `SuccessNeedsEveryWait`, `WaitsEnd` | What nil means for each wait, how long a probe can last, that exit 0 needs every wait, and that no wait holds the flow for ever unless the units of the host never stop to change. |
| `upgrader` | `CorednsSafe`, `KubeadmSkipsCoredns`, `RollbackPath`, `ConfigWhole`, `ArgsRecoverable`, `DoneMeansUpgraded`, `Converges` | coredns is never lost and never met by kubeadm, the original kubeadm, kubectl and kubelet stay in the backups unless a backup copy was cut off, the config for kubeadm is whole, truncated kubelet arguments are recoverable until the cleanup, a finished pod has upgraded the node, and retries reach the end unless a program they have to run is cut off or the kubelet is down. |
| `tracker` | `CommitIsOneUpgrade`, `VersionsAgree` | Whatever an earlier job left in the clone, the next commits its own project only, and the files that record a version agree on main and every pushed branch. |
| `tracker_nightly` | `NeverDowngraded`, `Converges` | With jobs racing in two containers, no merge moves a project back, and main reaches the revision upstream settles on. |
| `image_builder` | `OutputIsThisBuild`, `LeftoverOnlyFromFailure`, `AirGappedSources`, `TarballComplete`, `ArtifactsComplete`, `TargetSupported` | What an earlier command left never gets into an image, a tarball, the artifacts or the manifests that are read, only failures leave a clone, a tarball is whole unless an error was dropped, and what the flags allow the Makefile supports and builds with the firmware asked for, raw RedHat 9 excepted. |

Every passing run but `tracker_nightly` also checks the type invariant of its module.

Five runs show a disagreement between the code and a line of the repository; the
lines are quoted under `findings`:

| Run | Property | Shows |
|-----|----------|-------|
| `bootstrap_lock` | `LockExcludes` | A run that finds the lock taken bootstraps all the same. |
| `upgrader_gate` | `GateRemovable` | `mkdir` fails on the directory of an earlier attempt; the feature gate stays. |
| `tracker_push` | `PushMovesOneBranch` | A Bottlerocket upgrade pushes the reset branch of image-builder over an open pull request. |
| `image_builder_tarball` | `BundleFromGivenTarball` | Without `--air-gapped` the tarball is not extracted, and the bundle is that of an earlier tarball. |
| `image_builder_files` | `AdditionalFilesCopied` | The files of a files config overwrite the default ones in the array they share, and get the path of the clone. |

### Bounds

- Snow: two interfaces and static addresses (fewer, as many, more than wanted), two
  unrequested boots (one for each side of the requested reboot). Failed runs and
  kills are not bounded.
- Flow: two secrets (one read and deleted, one not), three runs (a first, one that
  finds its remains, one that finds those of a repeated run), every runcmd with all
  conditions that change the flow.
- Waits: two files and containers, so that one can be done and the other not; changes of
  units are not bounded; timeouts of two or three ticks, longer than an attempt, so that
  a timeout can fall into an attempt, a sleep or between; one run of the two flows that
  contain all four waits.
- Upgrader: three failures or reboots, enough for a death that leaves a file cut
  off, one in the attempt that repairs it, and a reboot; all roles, with and without
  an etcd version, before and from v1.26, with and without the feature gate.
- Tracker: one directory and two jobs of four kinds of project (a Go project with
  patches and checksums, image-builder with Bottlerocket, Cilium, EKS-D), two
  Bottlerocket formats so that an edit can stop between them, two versions and dates,
  two publications and one failure: the first job leaves something, the second meets it.
- Nightly: two directories for jobs that race, any number of jobs, three versions with
  two publications, so that a fix of an old line can come after a newer one, patches
  that do not apply to one version, one failure.
- Image builder: two commands, two releases with different channels, of which the list
  of EKS-D releases has others than the supported ones, two tarballs and one failure or
  dropped error; an artifact that is looked up by name and some that are not; requests
  for every hypervisor and system with the default version or 9, with default, EFI and
  unknown firmware, and for missing fields. Artifacts cut short by one command and
  downloaded over by another take three commands, which only the proof covers.

Deadlock is not checked where the system stops by design: processes end, a container
stays disabled, a node stays without kubelet, upstream goes quiet.

### Fairness

- Snow: the container's process runs and a requested reboot happens. Power cycles,
  kills and errors are not fair.
- Waits: the caller of a wait goes on, a ready select proceeds, timers fire and time
  passes, systemd's bus accepts connections, an HTTP attempt ends because the client has
  a timeout. Nothing is assumed of kubeadm, the EBS walk, the kubelet, the endpoints, or
  the commands between the waits, which have no timeout.
- Upgrader: the script goes on while it lives, and a kubelet that runs restarts its
  containers. Reboots are not assumed, so a script that dies while the kubelet is
  stopped may stay dead: `Converges` names this outcome, and the one where a program
  that every attempt has to run is cut off.
- Nightly: a job that runs goes on and its container is thrown away at the end (weak),
  the schedule comes back to every project although containers are often busy (strong),
  a pull request with rejected patches is completed (weak), and one that can be merged
  time and again is merged although later pushes interrupt it (strong). Upstream
  publishing and failures are not fair, and both are bounded.

## Proofs

Eight modules hold theorems. The bounds of the runs do not limit them: number of boots,
runs, failures, chunks, files, commands, releases, jobs, directories, projects and
containers are arbitrary. Every safety property of the passing runs is proved, the type
invariants included.

**SnowBootstrapProofs.** `NoDataLoss`, `NodeIPAfterReboot` and `SuccessIsReady` are not
inductive: they need what each marker file stands for (a partition marker means a
formatted volume) and what the step reached says about this boot. `SnowInv` states
this, under the assumption that `os.Stat` fails only for files that do not exist.
`RebootOnce` (`OneReboot`) has a smaller invariant of its own, that the rebooted file is
written before the reboot, and needs no such assumption.

**NodeUpgraderProofs.** `UpgradeInv` adds to the properties which container a command
belongs to, that only some commands write in two steps, what is known of the ConfigMap
at each command of the kubeadm container (at the deletion the backup is whole; from
then to the restoration it is gone), and that a backup in progress is of an original.
From it follow `CorednsSafe`, `KubeadmSkipsCoredns`, `RollbackPath` and `TypeOK`.
`OutcomeInv`, on top of `UpgradeInv`, says what each container that is through has
achieved and what a cut-off file still has in its backup. From it follow `ConfigWhole`,
`ArgsRecoverable` and `DoneMeansUpgraded`.

**BootstrapFlowProofs.** The argument has two halves.

- A flow is a concatenation of sequences that depends on the user data. `FlowsOrdered`
  says which steps come before which in it (`Ordered`), by one lemma per runcmd and cases
  over the version and the kind of etcd: the common frame of all flows, every writer of a
  manifest before the hand-over of the static pods, the patch of kube-vip before it, the
  probe of the pods and the token before the settings of the cluster.
- `FlowInv` says what a process that is past a step has achieved (`Before`): the chunks
  are read in order and all of them before the flow starts; since the hand-over no
  manifest has changed; from the patch on kube-vip stays patched; the phases, settings
  and probes of the steps passed have happened. Each action has a lemma.

Type correctness, `KubeVipPatched`, `UserDataComplete`, `PodsMatchManifests` and
`KubeletJoinsLiveCluster` follow. `KeepsPromise` is the refinement of `NodeBootstrap`:
initial states map to initial states, and with `FlowInv` every step is a step of the
promise or leaves its variables alone. The assumption is `FlowAssumption`: a natural
number of chunks and a positive number of runs.

**BootstrapWaitsProofs.** `WaitsImplementFlow` shows that a step of a waiter is a
stutter of `BootstrapFlow` and the end of a wait is the step its result stands for, so
that the theorems above hold with the waits in detail. `WaitsInv` adds the types of the
waiters and one invariant for each: the files a round has looked at exist or could not
be looked at, and kubeadm, which may write on, removes none; a status of the kubelet
that a call can still receive is in the history, and the second wait starts after the
whole delay; `HttpInv` of the HTTP waiter, whose step is taken from its own module; and
the flow is past a wait only if it ended well. From it follow `WaitsTypeOK`,
`OkMeansCreated`, `FreshOk`, `CallBounded`, `OkMeansAllUp` and `SuccessNeedsEveryWait`.
`WaitsAssumption` says that numbers and durations are natural numbers and the timeout of
a probe is positive.

**HttpWaiterProofs**, for all durations with a positive timeout. `HttpInv` says that an
attempt starts before the timeout and a sleep within an attempt of it, and that the
containers passed have answered; `CallBounded` and `OkMeansAllUp` of `HttpWaiter`
follow. The composition uses its step lemma on an instance, and `bootstrap_waits` checks
the same formulas there.

**ImageBuilderProofs.** `CloneInv` says at each step whether the clone is there, whose
it is, which commit it is at and which images it holds: a clone with another owner's
images is never built in, since `git clone` refuses an existing directory. It gives
`LeftoverOnlyFromFailure` and `OutputIsThisBuild`. `AirInv` follows the extracted files
from the removal of the directory to make and gives `AirGappedSources`.
`TargetSupported` follows from what `CloneInv` keeps of the validation and a lemma about
the options alone, by cases over the hypervisors; raw RedHat 9 images are left out of its
part about the firmware.

**ImageDownloadsProofs.** `CollectInv` follows the manifests through a download: at each
step the files that the steps before have saved are there, with the content of this
download or an error page, also where an earlier command had left another content, since
a saved file replaces the one that was there. It needs the types of commands and
manifests, because the bundles to download are read from the releases manifest, and that
the release of a command is published from `getBundle` on and is the commit it has
checked out. What the command dropped an error of is left out: the EKS-D manifests after
an unreadable list, the archive after a failed walk. It gives `TarballComplete`.
`FetchInv` does the same for the two phases of the artifacts and gives
`ArtifactsComplete`, without the artifacts looked up by name; what is left to type
(`ImagesOK`, `FailuresOK`) completes `TypeOK`. `ImageAssumption` says that every command
line runs one of the three commands, that there is a release, and that the bounds are
natural numbers.

**VersionTrackerProofs**, of the jobs started by hand and of the scheduled batches.
`TrackerInv` is the argument:

- every branch of a clone holds a good commit on `origin/main`: its files agree, no
  version moved back, and the Go version changes only together with the version;
- as long as the branch of a project does not exist in a clone, the project's files in
  the working tree are those of `origin/main`, so that the version read before the hard
  reset is nevertheless the right one. Once the branch exists, a job stops at the
  checkout, because the branch is created anew;
- each step of a job says what it has in hand: after the edits the working tree differs
  from `origin/main` in the updated files of the job's project only, so that staging the
  whole tracker file adds nothing of another project; after the commit the branch has
  them, after the push the head repository has the branch;
- main is never behind the base of a pushed commit or the `origin/main` of a clone, in
  any project.

A merge without conflict therefore takes all files that record the version of a project
from one side, which keeps them in agreement, and only ever moves it on. From this
follow `TypeOK`, `CommitIsOneUpgrade`, `VersionsAgree` and `NeverDowngraded`. The
assumptions are `VersionsAssumption` (there is a version, and each needs some Go minor
version) and `NamesAssumption` (the extra branches and the release entries have names of
their own).

Only model-checked: every liveness property (`Converges` of three modules and
`WaitsEnd`), since the proof system does not handle fairness and `ENABLED` here. The
fairness conditions of a specification are not used by any theorem. The runs that show a
disagreement have nothing to prove.

## Observed

Behaviour of the models that a line of the repository speaks against and that has no run
of its own; where a property touches it, the property says what it leaves out:

- the Makefile appends `-efi` to every raw RedHat 9 target, so that BIOS gives an EFI
  image and EFI a target that does not exist (`TargetSupported` leaves these images out);
  the help of `--firmware` says "EFI is only supported for Ubuntu OVA & Raw, and Redhat 9
  RAW builds" (`image-builder/cmd/build.go:54`);
- `download manifests` drops the error of the walk and of reading the list of EKS-D
  releases and ends well with an archive that is not whole (`TarballComplete` leaves this
  out); it is said to pull "artifacts for all supported releases"
  (`builder/manifests.go:17`);
- the Snow container writes a `net.toml` without DNIs when their number or that of the
  static addresses is wrong, since `errors.Wrap` of nil is nil; the error texts are "the
  number of DNI found does not match the dniCount in the network file" and "mix of using
  DHCP and static IP is not supported" (`snow/system/network.go:109`, `:113`);
- in a kept clone no second job of a project succeeds, because its branch exists;
  `Checkout` is said to create a new branch "if necessary" (`git/git.go:79`);
- a `Stat` that fails for another reason than absence counts as a created file
  (`OkMeansCreated` says so); the message is "All files were created"
  (`utils/waiters.go:170`);
- a goroutine that has found its files when the timeout wins never ends; "ctx is used here
  to cancel the goroutine if the timeout has occurred" (`utils/waiters.go:132`);
- changes of any unit restart the timer of the kubelet wait (`WaitsEnd` leaves endless
  changes out); "Timeout after timeout duration" (`utils/waiters.go:79`).

Behaviour that no line speaks against, so that no property is about it:

- the Snow container configures the node address again after a death before its marker,
  and sets the provider id although a lookup failed;
- a run that dies between two secrets leaves a prefix deleted, and every later run fails
  at the first of them;
- kubeadm is killed once its files exist, possibly before the last one is written, and
  the flow may read a partial file;
- a pod that died while it wrote the kubelet's arguments finds no feature gate after a
  reboot, ends with empty arguments, and deletes their backup;
- a backup by `upgrade.sh` that was cut off is kept as the backup, and the backup of the
  kube-vip manifest is overwritten by a retry;
- the warning on rejected patches is posted again at every run, since pointers are
  compared;
- downloads of image-builder save the body of an error answer as the file.

## Not modelled

- Contents of files and commands beyond what a property tells apart: templates,
  certificates, YAML, what kubeadm and etcdadm do in the cluster, what make and packer
  build.
- Other control plane nodes and CAPI acting on the coredns ConfigMap during an upgrade,
  and a cleanup by `rm -rf` that dies half way.
- The wrappers of `apiclient` and of the file system, whose effects and failures are part
  of the steps that call them; the version-tracker's logging, unpacking and tables.
- The image build on EC2 (`build_image_on_metal.sh`, `export-ami-to-s3.sh`): polling
  loops whose outcome is decided by EC2, S3 and ssh. The packer configuration scripts
  write files once from the environment.
- `build/update-attribution-files/create_pr.sh`: one pass of git and gh in a fresh clone.
- The build library: single bounded loops around one command, and straight-line wrappers
  of compilers, tar, docker, helm and aws.
- The build graph (`Makefile`, `Common.mk`) and the staging buildspec, whose meaning is
  make's and that of every project's metadata; the kind node image and the AMI bootstrap
  script, which run once in sequence.
