--------------------------- MODULE VersionTracker ---------------------------
(***************************************************************************)
(* The upgrade command of tools/version-tracker.  A job upgrades one       *)
(* project: it clones the build tooling repository into its working        *)
(* directory (or opens the clone an earlier command left there), asks      *)
(* upstream for the latest revision, writes the files of the project on a  *)
(* new branch, commits, pushes to the head repository and opens or edits a *)
(* pull request.  Jobs run concurrently in different directories, several  *)
(* of them for the same project, and any of them may fail at every call.   *)
(* Upstream publishes revisions in between; maintainers complete and merge *)
(* pull requests.                                                          *)
(*                                                                         *)
(* A file holds the version it was written for.  The entries of the        *)
(* tracker file UPSTREAM_PROJECTS.yaml are files of their project, since   *)
(* git merges them separately.  A commit is its tree with the tree of the  *)
(* commit of main it was made on.                                          *)
(***************************************************************************)
EXTENDS LatestRevision, FiniteSets

CONSTANTS
    Dirs,           \* working directories commands are run in
    Projects,       \* projects to upgrade, of the ones below and others
    Patched,        \* projects with a patches directory
    Checksummed,    \* projects with a CHECKSUMS file
    GoProjects,     \* projects whose go_version is not "N/A"
    BadPatches,     \* <<p, v>>: the patches of p do not apply to version v
    GoMinor,        \* version -> minor of the Go version it is built with
    Slots,          \* release-version entries of BOTTLEROCKET_RELEASES
    MaxVersion,     \* bound on versions
    MaxDate,        \* bound on commit dates
    MaxJobs,        \* bound on jobs
    MaxPublished,   \* bound on what upstream publishes
    MaxFailures     \* bound on failing calls

Cilium == "cilium"
ImageBuilder == "image-builder"
EKSDistro == "eks-distro"
Bottlerocket == "bottlerocket"
Combined == "image-builder-and-bottlerocket"

ProjectsWithUnconventionalUpgradeFlows == {Cilium, ImageBuilder}

\* Head branches: one per project, and two more for Bottlerocket releases.
Branches == Projects \cup (IF ImageBuilder \in Projects THEN {Bottlerocket, Combined} ELSE {})

\* Repositories and image repositories whose revisions are queried.
Sources == (Projects \ {EKSDistro}) \cup
           (IF ImageBuilder \in Projects THEN {Bottlerocket} ELSE {})

\* The files of a project that an upgrade may touch.
namesOf(p) ==
    IF p = EKSDistro THEN {"NUMBER", "KUBE"}
    ELSE {"GIT_TAG", "TRACKER_TAG", "README", "GOLANG_VERSION", "TRACKER_GO"}
         \cup (IF p \in Checksummed THEN {"CHECKSUMS"} ELSE {})
         \cup (IF p = Cilium THEN {"DIGESTS"} ELSE {})
         \cup (IF p = ImageBuilder THEN Slots \cup {"HOST_CONTAINERS"} ELSE {})

Files == UNION {{p} \X namesOf(p) : p \in Projects}

Versions == 1..MaxVersion

\* Some version exists, and all have a Go version.
ASSUME VersionsAssumption == MaxVersion \in Nat \ {0} /\ \A v \in Versions : GoMinor[v] \in Nat

\* The two extra head branches and main are not named like projects, and the
\* entries of BOTTLEROCKET_RELEASES not like other files.
ASSUME NamesAssumption ==
    /\ Projects \cap {Bottlerocket, Combined, "main"} = {}
    /\ Slots \cap {"GIT_TAG", "TRACKER_TAG", "README", "GOLANG_VERSION", "TRACKER_GO"} = {}

VARIABLES
    upstream,   \* source -> its revisions, as GitHub lists them
    images,     \* <<s, v>>: the Bottlerocket image of slot s exists in version v
    eksd,       \* release number and Kubernetes version on main of eks-distro
    main,       \* tree of the main branch of the base repository
    fork,       \* branch of the head repository -> commit or NoCommit
    pulls,      \* branch -> the last pull request made from it
    cloned,     \* directories that hold a clone
    origin,     \* directory -> tree of refs/remotes/origin/main in its clone
    refs,       \* directory -> local branch -> commit or NoCommit
    head,       \* directory -> the branch checked out ("main" at first)
    work,       \* directory -> working tree
    job,        \* directory -> the upgrade job running in it
    jobs,       \* jobs started so far
    failures    \* calls that failed so far

remoteVars == <<fork, pulls>>
upstreamVars == <<upstream, images, eksd>>
cloneVars == <<cloned, origin, refs, head, work>>
vars == <<upstreamVars, main, remoteVars, cloneVars, job, jobs, failures>>

-----------------------------------------------------------------------------
Tree == [Files -> Nat]
\* ahead: a commit of a job or developer on top of main, not main itself.
Commit == [base : Tree, tree : Tree, ahead : BOOLEAN]
NoCommit == [base |-> <<>>, tree |-> <<>>, ahead |-> FALSE]
MainCommit(tree) == [base |-> tree, tree |-> tree, ahead |-> FALSE]

NoPull == [state |-> "none", body |-> 0, warned |-> {}]

\* What a job knows; an idle one knows nothing.
Idle == [pc |-> "idle", project |-> "", dryRun |-> FALSE, needsUpgrade |-> FALSE,
         latest |-> 0, go |-> 0, other |-> 0, branch |-> "", updated |-> {},
         warning |-> FALSE]

FirstTree == [f \in Files |->
                IF f[2] \in {"GOLANG_VERSION", "TRACKER_GO"} THEN GoMinor[1] ELSE 1]

Init ==
    /\ upstream = [s \in Sources |-> <<[v |-> 1, t |-> 1, release |-> TRUE]>>]
    /\ images = {}
    /\ eksd = [number |-> 1, kube |-> 1]
    /\ main = FirstTree
    /\ fork = [b \in Branches |-> NoCommit]
    /\ pulls = [b \in Branches |-> NoPull]
    /\ cloned = {}
    /\ origin = [d \in Dirs |-> <<>>]
    /\ refs = [d \in Dirs |-> [b \in Branches |-> NoCommit]]
    /\ head = [d \in Dirs |-> "main"]
    /\ work = [d \in Dirs |-> <<>>]
    /\ job = [d \in Dirs |-> Idle]
    /\ jobs = 0
    /\ failures = 0

-----------------------------------------------------------------------------
\* Jobs.

At(d, pc) == job[d].pc = pc
Goto(d, pc) == job' = [job EXCEPT ![d].pc = pc]
Return(d) == job' = [job EXCEPT ![d] = Idle]
ReturnError(d) == Return(d)

\* upgrade --project p [--dry-run]; a project of SKIPPED_PROJECTS is no project here.
Start(d, p, dry) ==
    /\ At(d, "idle")
    /\ job' = [job EXCEPT ![d] = [Idle EXCEPT !.pc = "clone", !.project = p, !.dryRun = dry]]
    /\ UNCHANGED <<upstreamVars, main, remoteVars, cloneVars, failures>>

\* The clone of an empty directory: origin/main and the working tree are main
\* as it is now.
clone(d) ==
    /\ cloned' = cloned \cup {d}
    /\ origin' = [origin EXCEPT ![d] = main]
    /\ work' = [work EXCEPT ![d] = main]
    /\ UNCHANGED <<refs, head>>

\* CloneRepo: a clone found in the directory is opened as it is, without a fetch.
openOrClone(d) == IF d \in cloned THEN UNCHANGED cloneVars ELSE clone(d)

CloneRepo(d) ==
    /\ At(d, "clone")
    /\ openOrClone(d)
    /\ IF job[d].project = EKSDistro
       THEN job' = [job EXCEPT ![d].pc = "checkout", ![d].branch = EKSDistro]
       ELSE Goto(d, "query")
    /\ UNCHANGED <<upstreamVars, main, jobs, remoteVars, failures>>

\* The commands that only read leave a clone behind, unless there is one.
readOnly(d) ==
    /\ At(d, "idle")
    /\ d \notin cloned
    /\ clone(d)
    /\ UNCHANGED <<upstreamVars, main, jobs, remoteVars, job, failures>>

Display(d) == readOnly(d)

ListProjects(d) == readOnly(d)

\* make clean, or a fresh build container.
Clean(d) ==
    /\ At(d, "idle")
    /\ d \in cloned
    /\ cloned' = cloned \ {d}
    /\ origin' = [origin EXCEPT ![d] = <<>>]
    /\ refs' = [refs EXCEPT ![d] = [b \in Branches |-> NoCommit]]
    /\ head' = [head EXCEPT ![d] = "main"]
    /\ work' = [work EXCEPT ![d] = <<>>]
    /\ UNCHANGED <<upstreamVars, main, jobs, remoteVars, job, failures>>

\* The current version comes from the tracker file in the working tree, which
\* an earlier job of this directory may have left at another branch.
currentRevision(d) == work[d][<<job[d].project, "TRACKER_TAG">>]

latestRevision(p, current) ==
    IF p = Cilium THEN GetLatestImage(upstream[p], current)
                  ELSE GetLatestRevision(upstream[p], current)

GetRevisions(d) ==
    /\ At(d, "query")
    /\ LET p == job[d].project
           latest == latestRevision(p, currentRevision(d))
       IN  IF /\ ~latest.failed
              /\ latest.needsUpgrade \/ p \in ProjectsWithUnconventionalUpgradeFlows
           THEN job' = [job EXCEPT ![d].pc = "checkout", ![d].branch = p,
                                   ![d].needsUpgrade = latest.needsUpgrade,
                                   ![d].latest = latest.rev,
                                   ![d].go = work[d][<<p, "TRACKER_GO">>]]
           ELSE Return(d)
    /\ UNCHANGED <<upstreamVars, main, jobs, remoteVars, cloneVars, failures>>

\* The commit the checked-out branch points to.
tip(d) == IF head[d] = "main" THEN MainCommit(origin[d])
                              ELSE refs[d][head[d]]

\* Checkout creates the branch at HEAD and keeps the working tree; a branch that
\* exists already is an error.
checkout(d, next) ==
    /\ IF refs[d][job[d].branch] = NoCommit
       THEN /\ refs' = [refs EXCEPT ![d][job[d].branch] = tip(d)]
            /\ head' = [head EXCEPT ![d] = job[d].branch]
            /\ Goto(d, next)
       ELSE /\ ReturnError(d)
            /\ UNCHANGED <<refs, head>>
    /\ UNCHANGED <<upstreamVars, main, jobs, remoteVars, cloned, origin, work, failures>>

Checkout(d) == At(d, "checkout") /\ checkout(d, "reset")

\* What is left to do once the project's own files are written.
afterUpdate(d) == IF job[d].project = ImageBuilder THEN "bottlerocket" ELSE "commit"

afterReset(d) ==
    IF job[d].project = EKSDistro THEN "number"
    ELSE IF job[d].needsUpgrade THEN "update" ELSE afterUpdate(d)

\* The branch is checked out but neither it nor the working tree is reset.
ResetNothing(d) ==
    /\ At(d, "reset")
    /\ Goto(d, afterReset(d))
    /\ UNCHANGED <<upstreamVars, main, jobs, remoteVars, cloneVars, failures>>

\* ResetToMain moves the new branch and the working tree to origin/main.
ResetToMain(d) ==
    /\ At(d, "reset")
    /\ refs' = [refs EXCEPT ![d][head[d]] = MainCommit(origin[d])]
    /\ work' = [work EXCEPT ![d] = origin[d]]
    /\ Goto(d, afterReset(d))
    /\ UNCHANGED <<upstreamVars, main, jobs, remoteVars, cloned, origin, head, failures>>

-----------------------------------------------------------------------------
\* The files of the project.

\* make patch-repo applies every patch; otherwise the pull request gets a warning.
applyPatchesToRepo(j) == j.project \notin Patched \/ <<j.project, j.latest>> \notin BadPatches

\* The minor of the Go version in the project's own files or release binary.
GetGoVersionForLatestRevision(v) == GoMinor[v]

\* It is greater than the one the tracker file had before the reset.
goVersionChanges(j) ==
    j.project \in GoProjects /\ GetGoVersionForLatestRevision(j.latest) > j.go

\* The README update is left out.
writesNoReadme(j) ==
    <<{"GIT_TAG"}, IF goVersionChanges(j) THEN {"TRACKER_TAG", "TRACKER_GO", "GOLANG_VERSION"}
                                          ELSE {"TRACKER_TAG"}>>

\* The checksums are built only when all patches apply.
updateChecksumsAttributionFiles(j) ==
    IF applyPatchesToRepo(j) /\ j.project \in Checksummed THEN <<{"CHECKSUMS"}>> ELSE <<>>

updateCiliumImageDigestFiles(j) == IF j.project = Cilium THEN <<{"DIGESTS"}>> ELSE <<>>

\* The files the job writes, in order; those of one step are one file.
writes(j) ==
    <<{"GIT_TAG"}>>
    \o (IF goVersionChanges(j) THEN <<{"GOLANG_VERSION"}, {"TRACKER_TAG", "TRACKER_GO"}>>
                               ELSE <<{"TRACKER_TAG"}>>)
    \o <<{"README"}>>
    \o updateChecksumsAttributionFiles(j)
    \o updateCiliumImageDigestFiles(j)

\* What the job writes into one of them.
contents(j, name) ==
    IF name \in {"GOLANG_VERSION", "TRACKER_GO"}
    THEN GetGoVersionForLatestRevision(j.latest) ELSE j.latest

update(tree, p, values) ==
    [f \in DOMAIN tree |-> IF f[1] = p /\ f[2] \in DOMAIN values THEN values[f[2]] ELSE tree[f]]

fail == failures < MaxFailures /\ failures' = failures + 1

\* All the writes of the upgrade, or those before one that fails.
UpdateProject(d) ==
    /\ At(d, "update")
    /\ LET j == job[d]
           files == writes(j)
       IN  \E done \in 0..Len(files) :
              LET names == UNION {files[i] : i \in 1..done}
              IN  /\ work' = [work EXCEPT ![d] = update(@, j.project, [n \in names |-> contents(j, n)])]
                  /\ \/ /\ done < Len(files)
                        /\ fail
                        /\ ReturnError(d)
                     \/ /\ done = Len(files)
                        /\ job' = [job EXCEPT ![d].pc = afterUpdate(d), ![d].updated = names,
                                              ![d].warning = ~applyPatchesToRepo(j)]
                        /\ UNCHANGED failures
    /\ UNCHANGED <<upstreamVars, main, jobs, remoteVars, cloned, origin, refs, head>>

verifyBRImageExists(s, v) == <<s, v>> \in images

\* The release versions that move to v: those whose image exists in it.
updateBottlerocketReleasesFile(v) == {s \in Slots : verifyBRImageExists(s, v)}

\* The metadata of the host containers that is written: none when the Bottlerocket
\* release names the tags the files have already.
updateBottlerocketHostContainerMetadata == SUBSET {"HOST_CONTAINERS"}

\* updateBottlerocketVersionFiles.  The current version is that of an arbitrary
\* entry s of the releases file, which is written before the host containers'
\* metadata; that may fail, before a write or after one.  The head branch is named
\* after what is updated: only Bottlerocket files, or others as well.
UpdateBottlerocket(d, s) ==
    /\ At(d, "bottlerocket")
    /\ LET latest == GetLatestRevision(upstream[Bottlerocket], work[d][<<ImageBuilder, s>>])
           moved == updateBottlerocketReleasesFile(latest.rev)
       IN  \/ /\ ~latest.needsUpgrade
              /\ IF latest.failed THEN ReturnError(d) ELSE Goto(d, "commit")
              /\ UNCHANGED <<work, failures>>
           \/ \E host \in updateBottlerocketHostContainerMetadata :
              /\ latest.needsUpgrade
              /\ work' = [work EXCEPT ![d] = update(@, ImageBuilder, [n \in moved \cup host |-> latest.rev])]
              /\ \/ fail /\ ReturnError(d)
                 \/ /\ job' = [job EXCEPT ![d].pc = "rename", ![d].other = latest.rev,
                            ![d].branch = IF job[d].updated = {} THEN Bottlerocket ELSE Combined,
                            ![d].updated = @ \cup Slots \cup host]
                    /\ UNCHANGED failures
    /\ UNCHANGED <<upstreamVars, main, jobs, remoteVars, cloned, origin, refs, head>>

CheckoutBottlerocket(d) == At(d, "rename") /\ checkout(d, "commit")

\* getLatestEKSDistroRelease reads two files of eks-distro, one after the other.
ReadReleaseNumber(d) ==
    /\ At(d, "number")
    /\ job' = [job EXCEPT ![d].pc = "kube", ![d].other = eksd.number]
    /\ UNCHANGED <<upstreamVars, main, jobs, remoteVars, cloneVars, failures>>

\* updateEKSDistroReleasesFile with the second file.
UpdateEKSDistro(d) ==
    /\ At(d, "kube")
    /\ LET values == [n \in {"NUMBER", "KUBE"} |-> IF n = "NUMBER" THEN job[d].other ELSE eksd.kube]
           changed == \E n \in DOMAIN values : work[d][<<EKSDistro, n>>] # values[n]
       IN  /\ work' = [work EXCEPT ![d] = IF changed THEN update(@, EKSDistro, values) ELSE @]
           /\ job' = [job EXCEPT ![d].pc = "commit", ![d].updated = IF changed THEN DOMAIN values ELSE {}]
    /\ UNCHANGED <<upstreamVars, main, jobs, remoteVars, cloned, origin, refs, head, failures>>

\* What Add stages of the working tree: the updated files.  The tracker file is one
\* file, so the entries of all projects go with those of the job's.
UpstreamProjectsTrackerFile == {"TRACKER_TAG", "TRACKER_GO"}

staged(j) ==
    {f \in Files : \/ f[1] = j.project /\ f[2] \in j.updated
                   \/ /\ f[2] \in UpstreamProjectsTrackerFile
                      /\ UpstreamProjectsTrackerFile \cap j.updated # {}}

\* Add and Commit: what is staged, on top of the tip.
commit(d) ==
    [base |-> tip(d).base,
     tree |-> [f \in Files |-> IF f \in staged(job[d]) THEN work[d][f] ELSE tip(d).tree[f]],
     ahead |-> TRUE]

AddCommit(d) ==
    /\ At(d, "commit")
    /\ IF job[d].updated = {}
       THEN Return(d) /\ UNCHANGED refs
       ELSE /\ refs' = [refs EXCEPT ![d][head[d]] = commit(d)]
            /\ IF job[d].dryRun THEN Return(d) ELSE Goto(d, "push")
    /\ UNCHANGED <<upstreamVars, main, jobs, remoteVars, cloned, origin, head, work, failures>>

\* The push is reported as done and has moved nothing.
PushNothing(d) ==
    /\ At(d, "push")
    /\ Goto(d, "list")
    /\ UNCHANGED <<upstreamVars, main, jobs, remoteVars, cloneVars, failures>>

\* Push forces every local branch of the clone upon the head repository
\* (refs/*:refs/*); GitHub closes a pull request whose branch has no commit left.
Push(d) ==
    /\ At(d, "push")
    /\ fork' = [b \in Branches |-> IF refs[d][b] # NoCommit THEN refs[d][b] ELSE fork[b]]
    /\ pulls' = [b \in Branches |->
                   IF pulls[b].state = "open" /\ ~fork'[b].ahead
                   THEN [pulls[b] EXCEPT !.state = "closed"] ELSE pulls[b]]
    /\ Goto(d, "list")
    /\ UNCHANGED <<upstreamVars, main, jobs, cloneVars, failures>>

-----------------------------------------------------------------------------
\* CreatePullRequest.

\* The revision named in the body of the pull request.
body(j) == IF j.branch = Bottlerocket THEN j.other ELSE j.latest

ListPullRequests(d) ==
    /\ At(d, "list")
    /\ Goto(d, IF pulls[job[d].branch].state = "open" THEN "edit" ELSE "create")
    /\ UNCHANGED <<upstreamVars, main, jobs, remoteVars, cloneVars, failures>>

afterPull(d) == IF job[d].warning THEN Goto(d, "comment") ELSE Return(d)

\* An existing pull request gets the new body but no warning.
EditOnly(d) ==
    /\ At(d, "edit")
    /\ pulls' = [pulls EXCEPT ![job[d].branch].body = body(job[d])]
    /\ Return(d)
    /\ UNCHANGED <<upstreamVars, main, jobs, fork, cloneVars, failures>>

\* Editing a pull request that was merged or closed since it was listed fails.
EditPullRequest(d) ==
    /\ At(d, "edit")
    /\ IF pulls[job[d].branch].state = "open"
       THEN /\ pulls' = [pulls EXCEPT ![job[d].branch].body = body(job[d])]
            /\ afterPull(d)
       ELSE ReturnError(d) /\ UNCHANGED pulls
    /\ UNCHANGED <<upstreamVars, main, jobs, fork, cloneVars, failures>>

\* GitHub refuses a second open pull request from the same branch.
NewPullRequest(d) ==
    /\ At(d, "create")
    /\ IF pulls[job[d].branch].state = "open"
       THEN ReturnError(d) /\ UNCHANGED pulls
       ELSE /\ pulls' = [pulls EXCEPT ![job[d].branch] =
                           [NoPull EXCEPT !.state = "open", !.body = body(job[d])]]
            /\ afterPull(d)
    /\ UNCHANGED <<upstreamVars, main, jobs, fork, cloneVars, failures>>

\* The comments are listed, but the comparison of their bodies compares pointers
\* and never finds one: the warning is posted whether it is there or not.
CreateComment(d) ==
    /\ At(d, "comment")
    /\ pulls' = [pulls EXCEPT ![job[d].branch].warned = @ \cup {job[d].latest}]
    /\ Return(d)
    /\ UNCHANGED <<upstreamVars, main, jobs, fork, cloneVars, failures>>

\* Any call of the job fails: the job ends with what it has done so far.
Fail(d) ==
    /\ ~At(d, "idle")
    /\ fail
    /\ ReturnError(d)
    /\ UNCHANGED <<upstreamVars, main, jobs, remoteVars, cloneVars>>

-----------------------------------------------------------------------------
\* The world around the jobs.

\* A revision is tagged, and released unless it is a prerelease.
Publish(s, r) ==
    /\ \A i \in DOMAIN upstream[s] : upstream[s][i].v # r.v
    /\ upstream' = [upstream EXCEPT ![s] = <<r>> \o @]
    /\ UNCHANGED <<images, eksd, main, jobs, remoteVars, cloneVars, job, failures>>

PublishImage(s, v) ==
    /\ \E i \in DOMAIN upstream[Bottlerocket] : upstream[Bottlerocket][i].v = v
    /\ <<s, v>> \notin images
    /\ images' = images \cup {<<s, v>>}
    /\ UNCHANGED <<upstream, eksd, main, jobs, remoteVars, cloneVars, job, failures>>

ReleaseEKSDistro ==
    /\ eksd.number < MaxVersion
    /\ eksd' = [number |-> eksd.number + 1, kube |-> eksd.kube + 1]
    /\ UNCHANGED <<upstream, images, main, jobs, remoteVars, cloneVars, job, failures>>

\* Files in which a commit differs from the commit of main it was made on.
changes(c) == {f \in DOMAIN c.tree : c.tree[f] # c.base[f]}

\* The checksums of some project were not built for its version.
incomplete(tree) == \E p \in Checksummed : tree[<<p, "CHECKSUMS">>] # tree[<<p, "GIT_TAG">>]

\* A developer who reads the warning regenerates the patches and updates the pull
\* request.
Complete(b) ==
    /\ pulls[b].state = "open"
    /\ pulls[b].warned # {}
    /\ incomplete(fork[b].tree)
    /\ fork' = [fork EXCEPT ![b].tree = [f \in DOMAIN @ |->
                  IF f[2] = "CHECKSUMS" THEN @[<<f[1], "GIT_TAG">>] ELSE @[f]]]
    /\ UNCHANGED <<upstreamVars, main, jobs, pulls, cloneVars, job, failures>>

\* A maintainer merges a complete pull request that does not conflict with main.
Merge(b) ==
    /\ pulls[b].state = "open"
    /\ LET c == fork[b]
       IN  /\ ~incomplete(c.tree)
           /\ \A f \in changes(c) : main[f] \in {c.base[f], c.tree[f]}
           /\ main' = [f \in DOMAIN main |-> IF f \in changes(c) THEN c.tree[f] ELSE main[f]]
    /\ pulls' = [pulls EXCEPT ![b].state = "merged"]
    /\ UNCHANGED <<upstreamVars, jobs, fork, cloneVars, job, failures>>

-----------------------------------------------------------------------------
Step(d) ==
    \/ CloneRepo(d) \/ GetRevisions(d) \/ Checkout(d) \/ ResetToMain(d)
    \/ UpdateProject(d) \/ CheckoutBottlerocket(d)
    \/ \E s \in Slots : UpdateBottlerocket(d, s)
    \/ ReadReleaseNumber(d) \/ UpdateEKSDistro(d)
    \/ AddCommit(d) \/ Push(d)
    \/ ListPullRequests(d) \/ EditPullRequest(d) \/ NewPullRequest(d) \/ CreateComment(d)

\* Everything upstream has published since the start.
Published == MapThenSumSet(LAMBDA s : Len(upstream[s]) - 1, Sources)
             + Cardinality(images) + eksd.number - 1

Upstream ==
    /\ Published < MaxPublished
    /\ \/ \E s \in Sources, r \in [v : Versions, t : 1..MaxDate, release : BOOLEAN] : Publish(s, r)
       \/ \E s \in Slots, v \in Versions : ImageBuilder \in Projects /\ PublishImage(s, v)
       \/ EKSDistro \in Projects /\ ReleaseEKSDistro

World ==
    \/ Upstream
    \/ \E b \in Branches : Complete(b) \/ Merge(b)

Next ==
    \/ \E d \in Dirs :
          \/ /\ jobs < MaxJobs
             /\ jobs' = jobs + 1
             /\ \E p \in Projects, dry \in BOOLEAN : Start(d, p, dry)
          \/ Step(d) \/ Fail(d) \/ Display(d) \/ ListProjects(d) \/ Clean(d)
    \/ World

Spec == Init /\ [][Next]_vars

\* The scheduled batches: every job has a build container of its own.
NightlyStart(d, p) == d \notin cloned /\ Start(d, p, FALSE) /\ UNCHANGED jobs

NightlyNext ==
    \/ \E d \in Dirs :
          \/ \E p \in Projects : NightlyStart(d, p)
          \/ Step(d) \/ Fail(d) \/ Clean(d)
    \/ World

\* Every project gets a job time and again, a job that runs comes to its end,
\* and a maintainer comes to a pull request that can be merged.
NightlySpec ==
    /\ Init /\ [][NightlyNext]_vars
    /\ \A p \in Projects : SF_vars(\E d \in Dirs : NightlyStart(d, p))
    /\ \A d \in Dirs : WF_vars(Step(d)) /\ WF_vars(Clean(d))
    /\ \A b \in Branches : WF_vars(Complete(b)) /\ SF_vars(Merge(b))

-----------------------------------------------------------------------------
\* Type invariant.
TypeOK ==
    /\ \A s \in Sources : \A i \in DOMAIN upstream[s] : upstream[s][i].v \in Versions
    /\ images \subseteq Slots \X Versions
    /\ main \in Tree
    /\ \A b \in Branches :
         /\ fork[b] \in Commit \cup {NoCommit}
         /\ pulls[b].state \in {"none", "open", "closed", "merged"}
         /\ pulls[b].state # "none" => fork[b] \in Commit
    /\ \A d \in Dirs :
         /\ d \in cloned => origin[d] \in Tree /\ work[d] \in Tree
         /\ \A b \in Branches : refs[d][b] \in Commit \cup {NoCommit}
         /\ head[d] # "main" => refs[d][head[d]] \in Commit

\* The job is past its commit.
Committed(d) == job[d].pc \in {"push", "list", "edit", "create", "comment"}

\* Whatever branches, commits and half-written files earlier jobs left in the
\* directory, the commit a job makes (upgrade.go, ResetToMain to Commit) is made
\* on origin/main and changes files of its own project only.
CommitIsOneUpgrade ==
    \A d \in Dirs : Committed(d) =>
        LET c == refs[d][job[d].branch]
        IN  c.base = origin[d] /\ \A f \in changes(c) : f[1] = job[d].project

\* The three places that record the version of a project, and the two that record
\* its Go version, agree, and the Go version is one the project builds with.
Agree(tree) ==
    \A p \in Projects \ {EKSDistro} :
        /\ tree[<<p, "TRACKER_TAG">>] = tree[<<p, "GIT_TAG">>]
        /\ tree[<<p, "README">>] = tree[<<p, "GIT_TAG">>]
        /\ tree[<<p, "TRACKER_GO">>] = tree[<<p, "GOLANG_VERSION">>]
        /\ p \in GoProjects => tree[<<p, "GOLANG_VERSION">>] >= GoMinor[tree[<<p, "GIT_TAG">>]]

\* GIT_TAG, the tracker file and the README agree on main and on every branch
\* of the head repository, whichever jobs failed half-way and whichever pull
\* requests were merged in whichever order.
VersionsAgree ==
    Agree(main) /\ \A b \in Branches : fork[b] # NoCommit => Agree(fork[b].tree)

\* Merging the tracker's pull requests never moves a project back to an older
\* version, although a stale clone or a slow job may push an old upgrade late.
NeverDowngraded ==
    [][\A p \in Projects \ {EKSDistro} : main'[<<p, "GIT_TAG">>] >= main[<<p, "GIT_TAG">>]]_vars

\* The tracker would still upgrade p as it is on main.
Upgradable(p) == latestRevision(p, main[<<p, "GIT_TAG">>]).needsUpgrade

\* Once upstream is quiet, every project of main ends up at a version for which
\* GetLatestRevision asks for no upgrade, and stays there: jobs that fail, run
\* twice at once or meet patches that do not apply only delay it.
Converges ==
    <>[](\A p \in Sources \cap Projects : ~Upgradable(p))

-----------------------------------------------------------------------------
\* "Push pushes changes to the given remote branch on GitHub" (git.go): a push
\* does not move the branch of somebody else's open pull request.
PushMovesOneBranch ==
    [][\A d \in Dirs : Push(d) =>
         \A b \in Branches \ {job[d].branch} : pulls[b].state = "open" => fork'[b] = fork[b]]_vars

=============================================================================
