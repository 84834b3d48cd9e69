---------------------------- MODULE ImageBuilder ----------------------------
(***************************************************************************)
(* The image-builder CLI: build, download manifests and download artifacts *)
(* run one after another in one working directory.  A command can fail or  *)
(* be killed at any step and leaves behind what it had written; the next   *)
(* one starts from there, with or without --force.                         *)
(*                                                                         *)
(* Release r of EKS Anywhere is the number r; its bundle names the commit  *)
(* of the build tooling, which is r as well.  SupportedChannels[r] are the *)
(* release channels in its file SUPPORTED_RELEASE_BRANCHES, and            *)
(* EksDChannels[r] those in its file EKSD_LATEST_RELEASES.                 *)
(* A manifest file is named by a pair: the releases manifest, the bundle   *)
(* of a release or the EKS-D manifest of a channel.  Its content is the    *)
(* release it describes, or it is cut short, or it is the error page of    *)
(* the server.                                                             *)
(***************************************************************************)
EXTENDS BuildOptions

CONSTANTS
    Requests,           \* the command lines users type
    SupportedChannels,  \* release -> the release channels its commit supports
    EksDChannels,       \* release -> the channels its commit has EKS-D releases of
    Contained,          \* <<v, r>>: the version string v occurs in that of release r
    Artifacts,          \* the files that download artifacts fetches: eksa, eksd, and
                        \* those of eksd that are skipped when no asset has their name
    MaxRelease, MaxCommands, MaxFailures, MaxTarballs

\* Every command line runs one of the three commands, and a release is published.
ASSUME ImageAssumption ==
    /\ \A o \in Requests : o.kind \in {"build", "manifests", "artifacts"}
    /\ MaxRelease \in Nat \ {0}
    /\ MaxCommands \in Nat
    /\ MaxFailures \in Nat

VARIABLES
    latest,      \* the latest published release of EKS Anywhere
    repo,        \* the clone of eks-anywhere-build-tooling in the working directory
    manifests,   \* the directory manifests: file -> content
    tarball,     \* the manifest tarball; number 0 when there is none
    extracted,   \* the directory eks-a-d-manifests: file -> content, rewritten, tarball
    artifacts,   \* the downloaded artifacts: name, release, channel and state
    output,      \* the images handed over: name -> command and commit
    cmd,         \* the running command; ignored: the errors it dropped (history)
    failed,      \* the commands that failed on the way or were killed
    failures     \* the failures so far

vars == <<latest, repo, manifests, tarball, extracted, artifacts, output, cmd, failed, failures>>

ErrorPage == 0
Cut == -1
Readable(content) == content > 0
ReleasesManifest == <<"releases", 0>>
BundlesManifest(r) == <<"bundles", r>>
EksDManifest(c) == <<"eksd", c>>

NoClone == [present |-> FALSE, by |-> 0, commit |-> 0, images |-> {}]
NoFiles == [f \in {} |-> Cut]
NoOptions == [kind |-> "none"]

\* The files of new, saved over the files that are there.
saveOver(old, new) ==
    [f \in DOMAIN old \cup DOMAIN new |-> IF f \in DOMAIN new THEN new[f] ELSE old[f]]

Init ==
    /\ latest = 1
    /\ repo = NoClone
    /\ manifests = NoFiles
    /\ tarball = [number |-> 0, files |-> NoFiles]
    /\ extracted = NoFiles
    /\ artifacts = {}
    /\ output = NoFiles
    /\ cmd = [pc |-> "idle", id |-> 0, o |-> NoOptions, version |-> 0, bundle |-> 0, ignored |-> {}]
    /\ failed = {}
    /\ failures = 0

At(kinds, step) == cmd.pc = step /\ cmd.o.kind \in kinds
Goto(step) == cmd' = [cmd EXCEPT !.pc = step]
All == {"build", "manifests", "artifacts"}

\* The process ends.
Exit == cmd' = [cmd EXCEPT !.pc = "idle", !.o = NoOptions, !.version = 0, !.bundle = 0, !.ignored = {}]
Refuse == Exit /\ UNCHANGED <<failed, failures>>
Break == Exit /\ failed' = failed \cup {cmd.id} /\ UNCHANGED failures
Fail == /\ failures < MaxFailures
        /\ failures' = failures + 1
        /\ failed' = failed \cup {cmd.id}
        /\ Exit

\* An error that the code drops: the command goes on.
Ignore(error, step) ==
    /\ failures < MaxFailures
    /\ failures' = failures + 1
    /\ cmd' = [cmd EXCEPT !.pc = step, !.ignored = @ \cup {error}]
    /\ UNCHANGED failed

-----------------------------------------------------------------------------
(***************************************************************************)
(* The commands.                                                           *)
(***************************************************************************)
\* Only a build validates its options; an air-gapped one starts from the tarball.
Start ==
    /\ cmd.pc = "idle"
    /\ cmd.id < MaxCommands
    /\ \E o \in Requests :
         LET first == IF o.kind = "build" /\ ~ValidateInputs(o) THEN "refused"
                      ELSE IF o.kind = "build" /\ o.airGapped THEN "extract" ELSE "force"
         IN  cmd' = IF first = "refused"
                    THEN [cmd EXCEPT !.id = @ + 1]
                    ELSE [cmd EXCEPT !.pc = first, !.id = @ + 1, !.o = o]
    /\ UNCHANGED <<latest, repo, manifests, tarball, extracted, artifacts, output, failed, failures>>

\* Reading the domains of the private server panics when there is no config.
hasDomains(o) == o.hasConfig

fromTarball(S) ==
    [f \in S |-> [of |-> tarball.files[f], rewritten |-> FALSE, from |-> tarball.number]]

\* The tarball is extracted on top of what is there.
extractOver ==
    /\ At({"build"}, "extract")
    /\ hasDomains(cmd.o) /\ tarball.number # 0
    /\ extracted' = saveOver(extracted, fromTarball(DOMAIN tarball.files))
    /\ Goto("rewrite")
    /\ UNCHANGED <<latest, repo, manifests, tarball, artifacts, output, failed, failures>>

extractTarball ==
    /\ At({"build"}, "extract")
    /\ IF ~hasDomains(cmd.o) \/ tarball.number = 0
       THEN Break /\ UNCHANGED extracted
       ELSE \/ /\ extracted' = fromTarball(DOMAIN tarball.files)
               /\ Goto("rewrite")
               /\ UNCHANGED <<failed, failures>>
            \/ /\ \E S \in SUBSET DOMAIN tarball.files : extracted' = fromTarball(S)
               /\ Fail
    /\ UNCHANGED <<latest, repo, manifests, tarball, artifacts, output>>

\* Each bundle and EKS-D manifest is removed and written with the private domain;
\* a death in between leaves it missing or cut short.
replaceDomains ==
    LET rewritable == DOMAIN extracted \ {ReleasesManifest}
        rewrite(S) == [f \in DOMAIN extracted |->
                          [extracted[f] EXCEPT !.rewritten = @ \/ f \in S]]
    IN  /\ At({"build"}, "rewrite")
        /\ \/ /\ extracted' = rewrite(rewritable)
              /\ Goto("force")
              /\ UNCHANGED <<failed, failures>>
           \/ /\ \E S \in SUBSET rewritable : \E f \in rewritable \ S :
                   \/ extracted' \in {rewrite(S), Restrict(rewrite(S), DOMAIN extracted \ {f})}
                   \/ extracted' = [rewrite(S) EXCEPT ![f].of = Cut]
              /\ Fail
        /\ UNCHANGED <<latest, repo, manifests, tarball, artifacts, output>>

forceCleanup ==
    /\ At(All, "force")
    /\ repo' = IF cmd.o.force THEN NoClone ELSE repo
    /\ Goto("bundle")
    /\ UNCHANGED <<latest, manifests, tarball, extracted, artifacts, output, failed, failures>>

ReadableFile(f) == IF f \in DOMAIN extracted THEN Readable(extracted[f].of) ELSE FALSE

\* The releases listed to getBundle, and the version it looks for.
listed == IF ~cmd.o.tarball THEN latest
          ELSE IF ReleasesManifest \in DOMAIN extracted THEN extracted[ReleasesManifest].of ELSE Cut
wanted == IF cmd.o.release # 0 THEN cmd.o.release ELSE listed

\* The first release in the list whose version contains the wanted one.
found == LET exact == {r \in 1..listed : r = wanted}
             near  == {r \in 1..listed : <<wanted, r>> \in Contained}
         IN  IF exact # {} THEN exact ELSE {r \in near : \A s \in near : r <= s}

\* With a tarball the bundle is read from the file of the version as it was asked for.
getBundle ==
    LET file == BundlesManifest(wanted)
        bundle == IF ~cmd.o.tarball THEN CHOOSE r \in found : TRUE ELSE extracted[file].of
    IN  /\ At(All, "bundle")
        /\ IF ~Readable(listed) THEN Break
           ELSE IF found = {} THEN Refuse
           ELSE IF cmd.o.tarball /\ ~ReadableFile(file) THEN Break
           ELSE /\ cmd' = [cmd EXCEPT !.pc = "clone", !.version = wanted, !.bundle = bundle]
                /\ UNCHANGED <<failed, failures>>
        /\ UNCHANGED <<latest, repo, manifests, tarball, extracted, artifacts, output>>

\* An existing clone is good enough.
cloneUnlessPresent ==
    /\ At(All, "clone")
    /\ repo' = IF repo.present THEN repo ELSE [NoClone EXCEPT !.present = TRUE, !.by = cmd.id]
    /\ Goto("checkout")
    /\ UNCHANGED <<latest, manifests, tarball, extracted, artifacts, output, failed, failures>>

\* git clone refuses a directory that is not empty.
cloneRepo ==
    /\ At(All, "clone")
    /\ IF repo.present
       THEN Break /\ UNCHANGED repo
       ELSE /\ repo' = [NoClone EXCEPT !.present = TRUE, !.by = cmd.id]
            /\ Goto("checkout") /\ UNCHANGED <<failed, failures>>
    /\ UNCHANGED <<latest, manifests, tarball, extracted, artifacts, output>>

checkoutRepo ==
    /\ At(All, "checkout")
    /\ repo' = [repo EXCEPT !.commit = cmd.bundle]
    /\ Goto(IF cmd.o.kind = "manifests" THEN "eksd" ELSE "channel")
    /\ UNCHANGED <<latest, manifests, tarball, extracted, artifacts, output, failed, failures>>

supportedChannel == cmd.o.channel \in SupportedChannels[repo.commit]

\* The command is refused and its clone stays.
checkChannelKeepsClone ==
    /\ At({"build", "artifacts"}, "channel")
    /\ IF supportedChannel
       THEN /\ Goto(IF cmd.o.kind = "build" THEN "make" ELSE "eksa")
            /\ UNCHANGED <<failed, failures>>
       ELSE Refuse
    /\ UNCHANGED <<latest, repo, manifests, tarball, extracted, artifacts, output>>

\* Every command goes on to make.
checkChannelAndMake ==
    /\ At({"build", "artifacts"}, "channel")
    /\ IF supportedChannel
       THEN Goto("make") /\ UNCHANGED <<repo, failed, failures>>
       ELSE Refuse /\ repo' = NoClone
    /\ UNCHANGED <<latest, manifests, tarball, extracted, artifacts, output>>

\* An unreadable SUPPORTED_RELEASE_BRANCHES counts as an empty one, so that any
\* channel may be refused.
checkChannel ==
    /\ At({"build", "artifacts"}, "channel")
    /\ \/ /\ supportedChannel
          /\ Goto(IF cmd.o.kind = "build" THEN "make" ELSE "eksa")
          /\ UNCHANGED <<repo, failed, failures>>
       \/ Refuse /\ repo' = NoClone
    /\ UNCHANGED <<latest, manifests, tarball, extracted, artifacts, output>>

-----------------------------------------------------------------------------
(***************************************************************************)
(* build: make writes an image into the clone, which is then moved.        *)
(***************************************************************************)
\* The manifests that an air-gapped make reads.
airGapManifests == {BundlesManifest(cmd.version), EksDManifest(cmd.o.channel)}

canMake ==
    /\ ~setRhsmProxyFails(cmd.o)
    /\ validate_supported_image(hypervisorBuild(cmd.o).target)
    /\ upstreamTargetExists(hypervisorBuild(cmd.o).target)
    /\ cmd.o.airGapped => \A f \in airGapManifests : ReadableFile(f)

hasOutput(o) == hypervisorBuild(o).output

make ==
    /\ At({"build"}, "make")
    /\ IF canMake
       THEN /\ repo' = [repo EXCEPT !.images = @ \cup {[by |-> cmd.id, commit |-> repo.commit]}]
            /\ Goto(IF hasOutput(cmd.o) THEN "move" ELSE "cleanup")
            /\ UNCHANGED <<failed, failures>>
       ELSE Break /\ UNCHANGED repo
    /\ UNCHANGED <<latest, manifests, tarball, extracted, artifacts, output>>

outputArtifact(o) == <<o.hypervisor, o.os, undotted(defaultOsVersion(o)), o.channel>>

\* The first match of the glob, whichever that is.
moveOutput ==
    /\ At({"build"}, "move")
    /\ \E image \in repo.images :
         /\ output' = [a \in DOMAIN output \cup {outputArtifact(cmd.o)} |->
                          IF a = outputArtifact(cmd.o) THEN image ELSE output[a]]
         /\ repo' = [repo EXCEPT !.images = @ \ {image}]
    /\ Goto("cleanup")
    /\ UNCHANGED <<latest, manifests, tarball, extracted, artifacts, failed, failures>>

cleanup ==
    /\ At(All, "cleanup")
    /\ repo' = NoClone
    /\ Exit
    /\ UNCHANGED <<latest, manifests, tarball, extracted, artifacts, output, failed, failures>>

-----------------------------------------------------------------------------
(***************************************************************************)
(* download manifests.                                                     *)
(***************************************************************************)
\* Files are downloaded over what is there.  The status of an answer is not
\* looked at, so that an error page is saved like a file.
downloadManifests(new, next) ==
    /\ \/ /\ manifests' = saveOver(manifests, new)
          /\ Goto(next) /\ UNCHANGED <<failed, failures>>
       \/ /\ failures < MaxFailures
          /\ failures' = failures + 1
          /\ \E f \in DOMAIN new : manifests' = saveOver(manifests, [new EXCEPT ![f] = ErrorPage])
          /\ Goto(next) /\ UNCHANGED failed
       \/ /\ \E S \in SUBSET DOMAIN new : \E f \in DOMAIN new \ S :
               \E cut \in SUBSET {f} :
                 manifests' = saveOver(saveOver(manifests, [g \in cut |-> Cut]), Restrict(new, S))
          /\ Fail
    /\ UNCHANGED <<latest, repo, tarball, extracted, artifacts, output>>

eksDManifests(commit) == {EksDManifest(c) : c \in EksDChannels[commit]}

\* Files that are already there are not downloaded again.
downloadMissing ==
    /\ At({"manifests"}, "eksd")
    /\ downloadManifests([f \in eksDManifests(repo.commit) \ DOMAIN manifests |-> repo.commit],
                         "releases")

\* An unreadable EKSD_LATEST_RELEASES counts as an empty one.
downloadEKSDManifests ==
    /\ At({"manifests"}, "eksd")
    /\ \/ downloadManifests([f \in eksDManifests(repo.commit) |-> repo.commit], "releases")
       \/ /\ Ignore("channels", "releases")
          /\ UNCHANGED <<latest, repo, manifests, tarball, extracted, artifacts, output>>

\* An error page is not a releases manifest, or it is one without releases.
downloadReleasesManifest ==
    /\ At({"manifests"}, "releases")
    /\ \/ /\ manifests' = saveOver(manifests, [f \in {ReleasesManifest} |-> latest])
          /\ Goto("bundles") /\ UNCHANGED <<failed, failures>>
       \/ /\ manifests' = saveOver(manifests, [f \in {ReleasesManifest} |-> ErrorPage])
          /\ Fail \/ Ignore("page", "bundles")
    /\ UNCHANGED <<latest, repo, tarball, extracted, artifacts, output>>

downloadBundlesManifests ==
    LET bundles == {BundlesManifest(r) : r \in 1..manifests[ReleasesManifest]}
    IN  /\ At({"manifests"}, "bundles")
        /\ downloadManifests([f \in bundles |-> f[2]], "tar")

\* The error of the walk is dropped: a walk that stops at a file ends well, with
\* the files before it.
createTarball ==
    /\ At({"manifests"}, "tar")
    /\ \/ /\ tarball' = [number |-> tarball.number + 1, files |-> manifests]
          /\ Goto("rmdir") /\ UNCHANGED <<failed, failures>>
       \/ /\ \E S \in SUBSET DOMAIN manifests :
               tarball' = [number |-> tarball.number + 1, files |-> Restrict(manifests, S)]
          /\ Fail \/ Ignore("walk", "rmdir")
    /\ UNCHANGED <<latest, repo, manifests, extracted, artifacts, output>>

removeManifests ==
    /\ At({"manifests"}, "rmdir")
    /\ manifests' = NoFiles
    /\ Goto("cleanup")
    /\ UNCHANGED <<latest, repo, tarball, extracted, artifacts, output, failed, failures>>

-----------------------------------------------------------------------------
(***************************************************************************)
(* download artifacts.                                                     *)
(***************************************************************************)
artifact(name, state) ==
    [name |-> name, release |-> cmd.bundle, channel |-> cmd.o.channel, state |-> state]

\* old with the artifacts of S in the given state.
withArtifacts(old, S, state) ==
    (old \ {artifact(a, st) : a \in S, st \in {"whole", "page", "cut"}})
       \cup {artifact(a, state) : a \in S}

downloadArtifacts(old, names, next) ==
    /\ \/ /\ artifacts' = withArtifacts(old, names, "whole")
          /\ Goto(next) /\ UNCHANGED <<failed, failures>>
       \/ /\ failures < MaxFailures
          /\ failures' = failures + 1
          /\ \E a \in names :
               artifacts' = withArtifacts(withArtifacts(old, names \ {a}, "whole"), {a}, "page")
          /\ Goto(next) /\ UNCHANGED failed
       \/ /\ \E S \in SUBSET names : \E a \in names \ S : \E cut \in SUBSET {a} :
               artifacts' = withArtifacts(withArtifacts(old, S, "whole"), cut, "cut")
          /\ Fail
    /\ UNCHANGED <<latest, repo, manifests, tarball, extracted, output>>

\* Artifacts that are already there are not downloaded again.
downloadMissingArtifacts ==
    /\ At({"artifacts"}, "eksa")
    /\ downloadArtifacts(artifacts,
           {a \in Artifacts.eksa : \A st \in {"whole", "page", "cut"} : artifact(a, st) \notin artifacts},
           "eksd")

\* --force removes both artifact directories first.
downloadEKSAArtifacts ==
    /\ At({"artifacts"}, "eksa")
    /\ downloadArtifacts(IF cmd.o.force THEN {} ELSE artifacts, Artifacts.eksa, "eksd")

\* etcd and cni-plugins are skipped if the manifest has no asset of their name.
downloadEKSDArtifacts ==
    /\ At({"artifacts"}, "eksd")
    /\ \E skipped \in SUBSET Artifacts.byName :
         downloadArtifacts(artifacts, Artifacts.eksd \ skipped, "cleanup")

-----------------------------------------------------------------------------
(***************************************************************************)
(* The surroundings.                                                       *)
(***************************************************************************)
\* A command is killed, or a call of it fails that has written nothing.
Kill ==
    /\ cmd.pc # "idle"
    /\ Fail
    /\ UNCHANGED <<latest, repo, manifests, tarball, extracted, artifacts, output>>

PublishRelease ==
    /\ latest < MaxRelease
    /\ latest' = latest + 1
    /\ UNCHANGED <<repo, manifests, tarball, extracted, artifacts, output, cmd, failed, failures>>

\* What download manifests puts into a tarball when releases 1 to n are published.
wholeManifests(commit, n) ==
    [f \in {ReleasesManifest} \cup {BundlesManifest(r) : r \in 1..n}
             \cup eksDManifests(commit)
        |-> CASE f[1] = "releases" -> n [] f[1] = "bundles" -> f[2] [] f[1] = "eksd" -> commit]

\* A tarball is copied from another machine; the copy may be cut short.
BringTarball ==
    /\ cmd.pc = "idle"
    /\ tarball.number < MaxTarballs
    /\ \E n \in 1..latest :
         \E S \in {DOMAIN wholeManifests(n, n) \ {f} : f \in DOMAIN wholeManifests(n, n)}
                    \cup {DOMAIN wholeManifests(n, n)} :
           tarball' = [number |-> tarball.number + 1, files |-> Restrict(wholeManifests(n, n), S)]
    /\ UNCHANGED <<latest, repo, manifests, extracted, artifacts, output, cmd, failed, failures>>

Next ==
    \/ Start \/ extractTarball \/ replaceDomains \/ forceCleanup \/ getBundle
    \/ cloneRepo \/ checkoutRepo \/ checkChannel
    \/ make \/ moveOutput \/ cleanup
    \/ downloadEKSDManifests \/ downloadReleasesManifest \/ downloadBundlesManifests
    \/ createTarball \/ removeManifests
    \/ downloadEKSAArtifacts \/ downloadEKSDArtifacts
    \/ Kill \/ PublishRelease \/ BringTarball

Spec == Init /\ [][Next]_vars

-----------------------------------------------------------------------------
(***************************************************************************)
(* Properties.                                                             *)
(***************************************************************************)
\* The steps of a command, in order.
steps(kind) ==
    CASE kind = "build" -> {"extract", "rewrite", "force", "bundle", "clone", "checkout",
                            "channel", "make", "move", "cleanup"}
      [] kind = "manifests" -> {"force", "bundle", "clone", "checkout", "eksd", "releases",
                                "bundles", "tar", "rmdir", "cleanup"}
      [] kind = "artifacts" -> {"force", "bundle", "clone", "checkout", "channel", "eksa",
                                "eksd", "cleanup"}
      [] kind = "none" -> {"idle"}

Images == [by : 1..MaxCommands, commit : 1..MaxRelease]

\* Every variable has its type: in particular a command only ever is at a step of
\* its own, and every image was made from a commit that had been checked out.
TypeOK ==
    /\ latest \in 1..MaxRelease
    /\ repo.present \in BOOLEAN /\ repo.by \in 0..MaxCommands
    /\ repo.commit \in 0..MaxRelease /\ repo.images \subseteq Images
    /\ \A f \in DOMAIN manifests : manifests[f] \in -1..MaxRelease
    /\ tarball.number \in Nat
    /\ \A f \in DOMAIN extracted : extracted[f] \in
            [of : -1..MaxRelease, rewritten : BOOLEAN, from : 1..tarball.number]
    /\ artifacts \subseteq [name : Artifacts.eksa \cup Artifacts.eksd, release : 1..MaxRelease,
                             channel : UNION {SupportedChannels[r] : r \in 1..MaxRelease},
                             state : {"whole", "page", "cut"}]
    /\ \A n \in DOMAIN output : output[n] \in Images
    /\ cmd.o \in Requests \cup {NoOptions} /\ cmd.pc \in steps(cmd.o.kind)
    /\ cmd.ignored \subseteq {"channels", "page", "walk"}
    /\ failed \subseteq 1..cmd.id
    /\ failures \in 0..MaxFailures

\* The image that a successful build hands over is the one that this build has
\* made, from the commit of the bundle it looked up: never one that an earlier
\* build, which died before its image was moved, has left in the clone
\* (BuildImage moves the first match of a glob in the clone).
OutputIsThisBuild ==
    At({"build"}, "cleanup") /\ hasOutput(cmd.o) =>
        /\ outputArtifact(cmd.o) \in DOMAIN output
        /\ output[outputArtifact(cmd.o)] = [by |-> cmd.id, commit |-> cmd.bundle]

\* A clone that stays in the working directory between two commands was made by a
\* command that failed or was killed: a command that ends well, or that refuses its
\* release channel after it has cloned, leaves nothing that would block the next
\* one, which runs git clone into the same directory.
LeftoverOnlyFromFailure == cmd.pc = "idle" /\ repo.present => repo.by \in failed

\* An air-gapped make only reads manifests of the tarball that this build was
\* given, with the private domains in them, whatever was extracted before and
\* wherever that build died (extractAndPrepManifestTarball).
AirGappedSources ==
    At({"build"}, "make") /\ cmd.o.airGapped =>
        \A f \in airGapManifests \cap DOMAIN extracted :
            extracted[f].rewritten /\ extracted[f].from = tarball.number

\* Is the manifest f of whole in files, neither cut short nor of another commit?
\* It can be an error page of the server.
Archived(f, files, whole) == f \in DOMAIN files /\ files[f] \in {whole[f], ErrorPage}

\* The tarball of a successful download manifests has the bundle of every release
\* in its own releases manifest and the EKS-D manifest of every channel that the
\* commit has releases of, also when an earlier command left the directory manifests
\* half filled or a release is published while the command runs.  It lacks files
\* only after one of the two errors that the code drops: an unreadable
\* EKSD_LATEST_RELEASES costs EKS-D manifests, and nothing else, and an aborted walk
\* any files.
TarballComplete ==
    At({"manifests"}, "cleanup") /\ "walk" \notin cmd.ignored =>
        LET files == tarball.files
            whole == wholeManifests(cmd.bundle, files[ReleasesManifest])
        IN  \A f \in DOMAIN whole :
                \/ Archived(f, files, whole)
                \/ f[1] = "eksd" /\ "channels" \in cmd.ignored

\* A successful download artifacts leaves every artifact of its release and
\* channel that it does not look up by name, and none of them as an earlier
\* command has cut it short.
ArtifactsComplete ==
    At({"artifacts"}, "cleanup") =>
        \A a \in (Artifacts.eksa \cup Artifacts.eksd) \ Artifacts.byName :
            /\ artifact(a, "cut") \notin artifacts
            /\ artifact(a, "whole") \in artifacts \/ artifact(a, "page") \in artifacts

\* The image that BuildImage asks for exists upstream and boots with the firmware
\* that was asked for or is the default.
firmwareBuilt(o) ==
    LET target == hypervisorBuild(o).target
    IN  upstreamTargetExists(target) /\ firmwareOf(target) = defaultFirmware(o)

\* Whatever combination of flags ValidateInputs lets through, BuildImage asks for an
\* image that the Makefile of image-builder supports and, raw RedHat 9 images
\* excepted, that exists upstream and boots with the firmware that was asked for or
\* is the default.
TargetSupported ==
    At({"build"}, "make") =>
        /\ validate_supported_image(hypervisorBuild(cmd.o).target)
        /\ \/ cmd.o.os = RedHat /\ cmd.o.hypervisor = Baremetal /\ defaultOsVersion(cmd.o) = "9"
           \/ firmwareBuilt(cmd.o)

\* A build with --manifest-tarball takes its bundle from that tarball
\* (the help of the flag, cmd/build.go).
BundleFromGivenTarball ==
    At({"build"}, "clone") /\ cmd.o.tarball =>
        extracted[BundlesManifest(cmd.version)].from = tarball.number

\* The additional files of --files-config reach Ansible, each with the source path
\* the user gave (the help of the flag, cmd/build.go).
AdditionalFilesCopied ==
    At({"build"}, "make") =>
        \A f \in Range(cmd.o.files) : [src |-> f, inClone |-> FALSE] \in additionalFileVars(cmd.o)

=============================================================================
