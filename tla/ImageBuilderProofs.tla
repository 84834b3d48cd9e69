------------------------- MODULE ImageBuilderProofs -------------------------
(***************************************************************************)
(* Proofs about the image-builder CLI, for every set of command lines, any *)
(* number of commands, failures, releases and tarballs: the options that   *)
(* are accepted, the clone in the working directory and the image that is  *)
(* taken from it, and the manifests of air-gapped builds.                  *)
(***************************************************************************)
EXTENDS ImageBuilder, TLAPS

\* What the Makefile makes of a target, field by field.
LEMMA TargetFields ==
  ASSUME NEW t, NEW format, NEW os, NEW version, NEW efi \in BOOLEAN,
         t = [format |-> format, os |-> os, version |-> version, efi |-> efi],
         os \in ALLOWED_OS(format), version \in ALLOWED_VERSIONS(os),
         efi => <<os, format>> \in ALLOWED_EFI_OS_FORMATS
  PROVE  validate_supported_image(t)
<1>1. t.format = format /\ t.os = os /\ t.version = version
  OBVIOUS
<1>2. t.efi = efi
  BY Zenon
<1>3. QED
  BY <1>1, <1>2, Zenon DEF validate_supported_image

\* The upstream target and its firmware: EFI if the target says so, or for a raw
\* Ubuntu image.  Raw RedHat 9 images are not among these.
LEMMA TargetFirmware ==
  ASSUME NEW t, NEW format, NEW os, NEW version, NEW efi \in BOOLEAN, NEW firmware,
         t = [format |-> format, os |-> os, version |-> version, efi |-> efi],
         efi => os # RedHat /\ format # "raw",
         ~(format = "raw" /\ os = RedHat /\ version = "9"),
         Ubuntu # RedHat,
         efi \/ (os = Ubuntu /\ format = "raw") => firmware = EFI,
         ~(efi \/ (os = Ubuntu /\ format = "raw")) => firmware = BIOS
  PROVE  upstreamTargetExists(t) /\ firmwareOf(t) = firmware
<1>1. t.format = format /\ t.os = os /\ t.version = version
  OBVIOUS
<1>2. t.efi = efi
  BY Zenon
<1> DEFINE suffix(c) == IF c THEN 1 ELSE 0
<1>3. suffix(t.efi) = suffix(efi)
  BY <1>2, Zenon
<1>4. CONVERT_TO_UPSTREAM_TARGET(t) = suffix(efi) + suffix(format = "raw" /\ os = Ubuntu)
                                        + suffix(format = "raw" /\ os = RedHat /\ version = "9")
  BY <1>1, <1>3, Zenon DEF CONVERT_TO_UPSTREAM_TARGET
<1>5. CASE efi \/ (os = Ubuntu /\ format = "raw")
  <2>1. CONVERT_TO_UPSTREAM_TARGET(t) = 1 /\ t.os # RedHat
    BY <1>1, <1>4, <1>5
  <2>2. QED
    BY <1>5, <2>1 DEF upstreamTargetExists, firmwareOf
<1>6. CASE ~(efi \/ (os = Ubuntu /\ format = "raw"))
  <2>1. CONVERT_TO_UPSTREAM_TARGET(t) = 0
    BY <1>4, <1>6
  <2>2. QED
    BY <1>6, <2>1 DEF upstreamTargetExists, firmwareOf
<1>7. QED
  BY <1>5, <1>6

\* A raw RedHat 9 image, for which the Makefile decides the firmware.
RawRedHat9(o) == o.os = RedHat /\ o.hypervisor = Baremetal /\ defaultOsVersion(o) = "9"

\* Whatever the options are: if ValidateInputs accepts them, the target that
\* BuildImage derives from them is one the Makefile supports and, raw RedHat 9 images
\* excepted, one that exists upstream with the firmware that was asked for or is the
\* default.
LEMMA AcceptedIsSupported ==
  ASSUME NEW o, ValidateInputs(o)
  PROVE  /\ validate_supported_image(hypervisorBuild(o).target)
         /\ RawRedHat9(o) \/ firmwareBuilt(o)
<1> USE DEF Ubuntu, RedHat, VSphere, Baremetal, Nutanix, CloudStack, AMI, EFI, BIOS
<1> DEFINE v == undotted(defaultOsVersion(o))
           t(format, efi) == [format |-> format, os |-> o.os, version |-> v, efi |-> efi]
           firmware == defaultFirmware(o)
<1>1. /\ o.os \in {Ubuntu, RedHat}
      /\ o.hypervisor \in SupportedHypervisors
      /\ validateOSHypervisorCombinations(o.os, o.hypervisor)
      /\ validateOSVersion(o.os, defaultOsVersion(o))
      /\ validateFirmware(o.firmware, o.os, defaultOsVersion(o), o.hypervisor)
  BY DEF ValidateInputs, validateSupportedHypervisors
<1>2. v \in ALLOWED_VERSIONS(o.os)
  BY <1>1 DEF validateOSVersion, undotted, ALLOWED_VERSIONS, SupportedUbuntuVersions,
              SupportedRedHatVersions
<1>3. /\ firmware \in {EFI, BIOS}
      /\ firmware = EFI => \/ o.os = Ubuntu /\ o.hypervisor \in {VSphere, Baremetal}
                           \/ o.os = RedHat /\ o.hypervisor = Baremetal /\ defaultOsVersion(o) = "9"
      /\ firmware = BIOS => ~(o.os = Ubuntu /\ o.hypervisor = Baremetal)
  BY <1>1 DEF defaultFirmware, validateFirmware, SupportedRedHatEfiVersions
<1>4. /\ <<Ubuntu, "ova">> \in ALLOWED_EFI_OS_FORMATS
      /\ <<RedHat, "raw">> \in ALLOWED_EFI_OS_FORMATS
  BY DEF ALLOWED_EFI_OS_FORMATS
<1>5. Ubuntu # RedHat
  OBVIOUS
<1>6. v = "9" => defaultOsVersion(o) = "9"
  BY DEF undotted
<1>7. ASSUME NEW format, NEW efi \in BOOLEAN, hypervisorBuild(o).target = t(format, efi),
             o.os \in ALLOWED_OS(format),
             efi => <<o.os, format>> \in ALLOWED_EFI_OS_FORMATS,
             efi => RawRedHat9(o) \/ (o.os # RedHat /\ format # "raw"),
             format = "raw" => o.hypervisor = Baremetal,
             efi \/ (o.os = Ubuntu /\ format = "raw") => firmware = EFI,
             ~(efi \/ (o.os = Ubuntu /\ format = "raw")) => firmware = BIOS
      PROVE  /\ validate_supported_image(hypervisorBuild(o).target)
             /\ RawRedHat9(o) \/ firmwareBuilt(o)
  <2> HIDE DEF v, Ubuntu, RedHat, Baremetal, EFI, BIOS
  <2>1. validate_supported_image(hypervisorBuild(o).target)
    BY <1>2, <1>7, TargetFields
  <2>2. ASSUME ~RawRedHat9(o) PROVE firmwareBuilt(o)
    <3>1. ~(format = "raw" /\ o.os = RedHat /\ v = "9")
      BY <1>6, <1>7, <2>2 DEF RawRedHat9
    <3>2. efi => o.os # RedHat /\ format # "raw"
      BY <1>7, <2>2
    <3>3. upstreamTargetExists(hypervisorBuild(o).target) /\ firmwareOf(hypervisorBuild(o).target) = firmware
      BY <1>5, <1>7, <3>1, <3>2, TargetFirmware
    <3>4. QED
      BY <3>3 DEF firmwareBuilt
  <2>3. QED
    BY <2>1, <2>2
<1>8. CASE o.hypervisor = VSphere
  <2> DEFINE efi == o.os = Ubuntu /\ firmware = EFI
  <2>1. hypervisorBuild(o).target = t("ova", efi)
    BY <1>8 DEF hypervisorBuild, vSphereBuild, makeTarget
  <2>2. o.os \in ALLOWED_OS("ova")
    BY <1>1 DEF ALLOWED_OS
  <2>3. efi \in BOOLEAN /\ (efi => <<o.os, "ova">> \in ALLOWED_EFI_OS_FORMATS)
    BY <1>4
  <2>4. /\ efi => firmware = EFI /\ o.os # RedHat
        /\ ~efi => firmware = BIOS
    BY <1>3, <1>8
  <2> HIDE DEF efi, v
  <2> HIDE DEF Ubuntu, RedHat, EFI, BIOS
  <2>5. QED
    BY <1>7, <2>1, <2>2, <2>3, <2>4
<1>9. CASE o.hypervisor = Baremetal
  <2> DEFINE efi == o.os = RedHat /\ firmware = EFI
  <2>1. hypervisorBuild(o).target = t("raw", efi)
    BY <1>9 DEF hypervisorBuild, baremetalBuild, makeTarget
  <2>2. o.os \in ALLOWED_OS("raw")
    BY <1>1 DEF ALLOWED_OS
  <2>3. efi \in BOOLEAN /\ (efi => <<o.os, "raw">> \in ALLOWED_EFI_OS_FORMATS)
    BY <1>4
  <2>4. /\ efi \/ o.os = Ubuntu => firmware = EFI
        /\ ~efi /\ o.os # Ubuntu => firmware = BIOS
        /\ efi => RawRedHat9(o)
    BY <1>1, <1>3, <1>9 DEF RawRedHat9
  <2> HIDE DEF efi, v
  <2> HIDE DEF Ubuntu, RedHat, EFI, BIOS
  <2>5. QED
    BY <1>7, <1>9, <2>1, <2>2, <2>3, <2>4
<1>10. CASE o.hypervisor \in {Nutanix, CloudStack, AMI}
  <2> DEFINE format == IF o.hypervisor = Nutanix THEN "nutanix"
                       ELSE IF o.hypervisor = CloudStack THEN "cloudstack" ELSE "ami"
  <2>1. hypervisorBuild(o).target = t(format, FALSE)
    <3>1. CASE o.hypervisor = Nutanix
      BY <3>1 DEF hypervisorBuild, nutanixBuild, makeTarget
    <3>2. CASE o.hypervisor = CloudStack
      BY <3>2 DEF hypervisorBuild, cloudStackBuild, makeTarget
    <3>3. CASE o.hypervisor = AMI
      BY <1>1, <3>3 DEF hypervisorBuild, amiBuild, makeTarget, validateOSHypervisorCombinations
    <3>4. QED
      BY <1>10, <3>1, <3>2, <3>3
  <2>2. o.os \in ALLOWED_OS(format)
    BY <1>1, <1>10 DEF ALLOWED_OS, validateOSHypervisorCombinations
  <2>3. firmware = BIOS /\ format # "raw"
    BY <1>3, <1>10
  <2> HIDE DEF v, format
  <2> HIDE DEF Ubuntu, RedHat, EFI, BIOS
  <2>4. QED
    BY <1>7, <2>1, <2>2, <2>3
<1>11. QED
  BY <1>1, <1>8, <1>9, <1>10 DEF SupportedHypervisors

-----------------------------------------------------------------------------
\* The steps before a command has a clone of its own, and the ones after.
Early   == {"idle", "extract", "rewrite", "force", "bundle", "clone"}
Holding == {"checkout", "channel", "make", "move", "cleanup", "eksd", "releases", "bundles",
            "tar", "rmdir", "eksa"}

CmdShape == cmd = [pc |-> cmd.pc, id |-> cmd.id, o |-> cmd.o, version |-> cmd.version,
                   bundle |-> cmd.bundle, ignored |-> cmd.ignored]
RepoShape == repo = [present |-> repo.present, by |-> repo.by, commit |-> repo.commit,
                     images |-> repo.images]

\* The options of a build were accepted.
Accepted == cmd.o.kind = "build" => ValidateInputs(cmd.o)

\* Whose the clone is: a command that holds one made it, any other clone is left
\* over from a failure.
Owner ==
  /\ cmd.pc \in Early \cup Holding
  /\ cmd.pc \in Early /\ repo.present => repo.by \in failed
  /\ cmd.pc \in Holding => repo.by = cmd.id

\* The images in the clone at each step of a build.
InClone ==
  /\ At({"build"}, "checkout") => repo.images = {}
  /\ \A s \in {"channel", "make"} :
       At({"build"}, s) => repo.images = {} /\ repo.commit = cmd.bundle
  /\ At({"build"}, "move") => repo.images = {[by |-> cmd.id, commit |-> cmd.bundle]}

CloneInv == CmdShape /\ RepoShape /\ Accepted /\ Owner /\ InClone /\ OutputIsThisBuild

\* A jump changes only where the command stands.
LEMMA GotoFields ==
  ASSUME CmdShape, NEW s, Goto(s)
  PROVE  /\ CmdShape' /\ cmd'.pc = s /\ cmd'.id = cmd.id /\ cmd'.o = cmd.o
         /\ cmd'.version = cmd.version /\ cmd'.bundle = cmd.bundle /\ cmd'.ignored = cmd.ignored
BY DEF CmdShape, Goto

\* A command that drops an error stands at its next step and knows of the error.
LEMMA IgnoreFields ==
  ASSUME CmdShape, NEW e, NEW s, Ignore(e, s)
  PROVE  /\ CmdShape' /\ cmd'.pc = s /\ cmd'.id = cmd.id /\ cmd'.o = cmd.o
         /\ cmd'.version = cmd.version /\ cmd'.bundle = cmd.bundle
         /\ cmd'.ignored = cmd.ignored \cup {e}
BY DEF CmdShape, Ignore

\* An exit leaves the number of the command and none of its options.
LEMMA ExitFields ==
  ASSUME CmdShape, Exit
  PROVE  /\ CmdShape' /\ cmd'.pc = "idle" /\ cmd'.id = cmd.id /\ cmd'.o = NoOptions /\ cmd'.o.kind = "none"
         /\ cmd'.bundle = 0 /\ cmd'.ignored = {}
BY DEF CmdShape, Exit, NoOptions

\* A command ends: its clone is gone, or it has failed, or it had none.
LEMMA EndStep ==
  ASSUME CloneInv, Exit, repo' \in {repo, NoClone}, failed \subseteq failed',
         cmd.pc \in Early \/ repo' = NoClone \/ cmd.id \in failed'
  PROVE  CloneInv'
<1>1. CmdShape' /\ cmd'.pc = "idle" /\ cmd'.id = cmd.id /\ cmd'.o.kind = "none"
  BY ExitFields DEF CloneInv
<1>2. RepoShape'
  BY DEF CloneInv, RepoShape, NoClone
<1>3. Owner'
  BY <1>1 DEF CloneInv, Owner, Early, Holding, NoClone
<1>4. Accepted' /\ InClone' /\ OutputIsThisBuild'
  BY <1>1 DEF Accepted, InClone, OutputIsThisBuild, At
<1>5. QED
  BY <1>1, <1>2, <1>3, <1>4 DEF CloneInv

\* A step before the clone is made.
LEMMA EarlyStep ==
  ASSUME CloneInv, CmdShape', cmd.pc \in Early, cmd'.pc \in Early, Accepted',
         repo' \in {repo, NoClone}, failed' = failed
  PROVE  CloneInv'
<1>1. RepoShape'
  BY DEF CloneInv, RepoShape, NoClone
<1>2. Owner'
  BY DEF CloneInv, Owner, Early, Holding, NoClone
<1>3. InClone' /\ OutputIsThisBuild'
  BY DEF InClone, OutputIsThisBuild, At, Early
<1>4. QED
  BY <1>1, <1>2, <1>3 DEF CloneInv

\* A step of a download that has its clone.
LEMMA DownloadStep ==
  ASSUME CloneInv, cmd.pc \in Holding, cmd.o.kind # "build", NEW s \in Holding,
         Goto(s) \/ \E e : Ignore(e, s), repo' = repo
  PROVE  CloneInv'
<1>1. CmdShape' /\ cmd'.pc = s /\ cmd'.id = cmd.id /\ cmd'.o = cmd.o
  BY GotoFields, IgnoreFields DEF CloneInv
<1>2. RepoShape' /\ Accepted'
  BY <1>1 DEF CloneInv, RepoShape, Accepted
<1>3. Owner'
  BY <1>1 DEF CloneInv, Owner, Early, Holding
<1>4. InClone' /\ OutputIsThisBuild'
  BY <1>1 DEF InClone, OutputIsThisBuild, At
<1>5. QED
  BY <1>1, <1>2, <1>3, <1>4 DEF CloneInv

\* A failure, of whatever call, is the end of the command.
LEMMA FailStep ==
  ASSUME CloneInv, Fail \/ Break, repo' = repo
  PROVE  CloneInv'
<1>1. Exit /\ failed \subseteq failed' /\ cmd.id \in failed'
  BY DEF Fail, Break
<1>2. QED
  BY <1>1, EndStep

\* make, the move of its image and the cleanup preserve the invariant of the clones.
LEMMA BuildSteps ==
  ASSUME CloneInv, make \/ moveOutput \/ cleanup
  PROVE  CloneInv'
<1>1. CASE make
  <2>1. cmd.pc = "make" /\ cmd.o.kind = "build"
    BY <1>1 DEF make, At
  <2>2. CASE canMake
    <3>1. /\ repo' = [repo EXCEPT !.images = @ \cup {[by |-> cmd.id, commit |-> repo.commit]}]
          /\ Goto(IF hasOutput(cmd.o) THEN "move" ELSE "cleanup")
      BY <1>1, <2>2 DEF make
    <3>2. /\ CmdShape' /\ cmd'.id = cmd.id /\ cmd'.o = cmd.o /\ cmd'.bundle = cmd.bundle
          /\ cmd'.pc = IF hasOutput(cmd.o) THEN "move" ELSE "cleanup"
      BY <3>1, GotoFields DEF CloneInv
    <3>3. repo.images = {} /\ repo.commit = cmd.bundle
      BY <2>1 DEF CloneInv, InClone, At
    <3>4. RepoShape' /\ repo'.by = repo.by /\ repo'.images = {[by |-> cmd.id, commit |-> cmd.bundle]}
      BY <3>1, <3>3 DEF CloneInv, RepoShape
    <3>5. Owner'
      BY <2>1, <3>2, <3>4 DEF CloneInv, Owner, Early, Holding
    <3>6. Accepted' /\ InClone' /\ OutputIsThisBuild'
      BY <3>2, <3>4 DEF CloneInv, Accepted, InClone, OutputIsThisBuild, At
    <3>7. QED
      BY <3>2, <3>4, <3>5, <3>6 DEF CloneInv
  <2>3. CASE ~canMake
    BY <1>1, <2>3, FailStep DEF make
  <2>4. QED
    BY <2>2, <2>3
<1>2. CASE moveOutput
  <2>1. cmd.pc = "move" /\ cmd.o.kind = "build" /\ Goto("cleanup")
    BY <1>2 DEF moveOutput, At
  <2>2. CmdShape' /\ cmd'.id = cmd.id /\ cmd'.o = cmd.o /\ cmd'.bundle = cmd.bundle /\ cmd'.pc = "cleanup"
    BY <2>1, GotoFields DEF CloneInv
  <2>3. PICK image \in repo.images :
          /\ output' = [a \in DOMAIN output \cup {outputArtifact(cmd.o)} |->
                           IF a = outputArtifact(cmd.o) THEN image ELSE output[a]]
          /\ repo' = [repo EXCEPT !.images = @ \ {image}]
    BY <1>2 DEF moveOutput
  <2>4. image = [by |-> cmd.id, commit |-> cmd.bundle]
    BY <2>1, <2>3 DEF CloneInv, InClone, At
  <2>5. RepoShape' /\ repo'.by = repo.by
    BY <2>3 DEF CloneInv, RepoShape
  <2>6. outputArtifact(cmd.o) \in DOMAIN output' /\ output'[outputArtifact(cmd.o)] = image
    BY <2>3
  <2>7. outputArtifact(cmd'.o) = outputArtifact(cmd.o)
    BY <2>2
  <2>8. Owner'
    BY <2>1, <2>2, <2>5 DEF CloneInv, Owner, Early, Holding
  <2>9. Accepted' /\ InClone'
    BY <2>2 DEF CloneInv, Accepted, InClone, At
  <2>10. OutputIsThisBuild'
    BY <2>2, <2>4, <2>6, <2>7 DEF OutputIsThisBuild
  <2>11. QED
    BY <2>2, <2>5, <2>8, <2>9, <2>10 DEF CloneInv
<1>3. CASE cleanup
  BY <1>3, EndStep DEF cleanup
<1>4. QED
  BY <1>1, <1>2, <1>3

\* The steps of a download that has its clone preserve the invariant of the clones.
LEMMA DownloadSteps ==
  ASSUME CloneInv,
         \/ downloadEKSDManifests \/ downloadReleasesManifest \/ downloadBundlesManifests
         \/ createTarball \/ removeManifests
         \/ downloadEKSAArtifacts \/ downloadEKSDArtifacts
  PROVE  CloneInv'
<1>1. /\ cmd.pc \in Holding /\ cmd.o.kind # "build" /\ repo' = repo
      /\ Fail \/ \E s \in Holding : Goto(s) \/ \E e : Ignore(e, s)
  BY DEF downloadEKSDManifests, downloadReleasesManifest, downloadBundlesManifests,
         createTarball, removeManifests, downloadEKSAArtifacts, downloadEKSDArtifacts,
         downloadManifests, downloadArtifacts, At, Holding
<1>2. QED
  BY <1>1, FailStep, DownloadStep

\* The steps that both commands share, up to the checkout, preserve the invariant
\* of the clones.
LEMMA CommandSteps ==
  ASSUME CloneInv, forceCleanup \/ getBundle \/ cloneRepo \/ checkoutRepo \/ checkChannel
  PROVE  CloneInv'
<1>1. CASE forceCleanup
  <2>1. cmd.pc = "force" /\ Goto("bundle") /\ repo' \in {repo, NoClone} /\ failed' = failed
    BY <1>1 DEF forceCleanup, At
  <2>2. CmdShape' /\ cmd'.pc = "bundle" /\ cmd'.o = cmd.o
    BY <2>1, GotoFields DEF CloneInv
  <2>3. QED
    BY <2>1, <2>2, EarlyStep DEF CloneInv, Accepted, Early
<1>2. CASE getBundle
  <2>1. cmd.pc = "bundle" /\ repo' = repo
    BY <1>2 DEF getBundle, At
  <2>2. CASE Break
    BY <2>1, <2>2, FailStep
  <2>3. CASE Refuse
    BY <2>1, <2>3, EndStep DEF Refuse, Early
  <2>4. CASE \E v, b : cmd' = [cmd EXCEPT !.pc = "clone", !.version = v, !.bundle = b] /\ failed' = failed
    <3>1. CmdShape' /\ cmd'.pc = "clone" /\ cmd'.o = cmd.o
      BY <2>4 DEF CloneInv, CmdShape
    <3>2. QED
      BY <2>1, <2>4, <3>1, EarlyStep DEF CloneInv, Accepted, Early
  <2>5. QED
    BY <1>2, <2>2, <2>3, <2>4 DEF getBundle
<1>3. CASE cloneRepo
  <2>1. cmd.pc = "clone"
    BY <1>3 DEF cloneRepo, At
  <2>2. CASE repo.present
    BY <1>3, <2>2, FailStep DEF cloneRepo
  <2>3. CASE ~repo.present
    <3>1. repo' = [NoClone EXCEPT !.present = TRUE, !.by = cmd.id] /\ Goto("checkout")
      BY <1>3, <2>3 DEF cloneRepo
    <3>2. CmdShape' /\ cmd'.pc = "checkout" /\ cmd'.o = cmd.o /\ cmd'.id = cmd.id
      BY <3>1, GotoFields DEF CloneInv
    <3>3. RepoShape' /\ repo'.by = cmd.id /\ repo'.images = {}
      BY <3>1 DEF RepoShape, NoClone
    <3>4. Owner'
      BY <3>2, <3>3 DEF Owner, Early, Holding
    <3>5. Accepted' /\ InClone' /\ OutputIsThisBuild'
      BY <3>2, <3>3 DEF CloneInv, Accepted, InClone, OutputIsThisBuild, At
    <3>6. QED
      BY <3>2, <3>3, <3>4, <3>5 DEF CloneInv
  <2>4. QED
    BY <2>2, <2>3
<1>4. CASE checkoutRepo
  <2> DEFINE s == IF cmd.o.kind = "manifests" THEN "eksd" ELSE "channel"
  <2>1. cmd.pc = "checkout" /\ repo' = [repo EXCEPT !.commit = cmd.bundle] /\ Goto(s)
    BY <1>4 DEF checkoutRepo, At
  <2>2. CmdShape' /\ cmd'.pc = s /\ cmd'.o = cmd.o /\ cmd'.id = cmd.id /\ cmd'.bundle = cmd.bundle
    BY <2>1, GotoFields DEF CloneInv
  <2>3. RepoShape' /\ repo'.by = repo.by /\ repo'.images = repo.images /\ repo'.commit = cmd.bundle
    BY <2>1 DEF CloneInv, RepoShape
  <2>4. Owner'
    BY <2>1, <2>2, <2>3 DEF CloneInv, Owner, Early, Holding
  <2>5. Accepted' /\ InClone' /\ OutputIsThisBuild'
    BY <2>1, <2>2, <2>3 DEF CloneInv, Accepted, InClone, OutputIsThisBuild, At
  <2>6. QED
    BY <2>2, <2>3, <2>4, <2>5 DEF CloneInv
<1>5. CASE checkChannel
  <2> DEFINE s == IF cmd.o.kind = "build" THEN "make" ELSE "eksa"
  <2>1. cmd.pc = "channel"
    BY <1>5 DEF checkChannel, At
  <2>2. CASE Goto(s) /\ repo' = repo
    <3>1. Goto(s) /\ repo' = repo
      BY <2>2
    <3>2. CmdShape' /\ cmd'.pc = s /\ cmd'.o = cmd.o /\ cmd'.id = cmd.id /\ cmd'.bundle = cmd.bundle
      BY <3>1, GotoFields DEF CloneInv
    <3>3. RepoShape' /\ Owner'
      BY <2>1, <3>1, <3>2 DEF CloneInv, RepoShape, Owner, Early, Holding
    <3>4. Accepted' /\ InClone' /\ OutputIsThisBuild'
      BY <2>1, <3>1, <3>2 DEF CloneInv, Accepted, InClone, OutputIsThisBuild, At
    <3>5. QED
      BY <3>2, <3>3, <3>4 DEF CloneInv
  <2>3. CASE Refuse /\ repo' = NoClone
    BY <2>3, EndStep DEF Refuse
  <2>4. QED
    BY <1>5, <2>2, <2>3 DEF checkChannel
<1>6. QED
  BY <1>1, <1>2, <1>3, <1>4, <1>5

\* The start and the death of a command, the preparation of an air-gapped build, and
\* what happens around the commands preserve the invariant of the clones.
LEMMA OtherSteps ==
  ASSUME CloneInv,
         Start \/ extractTarball \/ replaceDomains \/ Kill \/ PublishRelease \/ BringTarball
         \/ UNCHANGED vars
  PROVE  CloneInv'
<1>1. CASE Start
  <2>1. PICK o \in Requests, first \in {"refused", "extract", "force"} :
          /\ o.kind = "build" /\ first # "refused" => ValidateInputs(o)
          /\ cmd' = IF first = "refused" THEN [cmd EXCEPT !.id = @ + 1]
                     ELSE [cmd EXCEPT !.pc = first, !.id = @ + 1, !.o = o]
    BY <1>1 DEF Start
  <2>2. cmd.pc = "idle" /\ repo' = repo /\ failed' = failed
    BY <1>1 DEF Start
  <2>3. CASE first = "refused"
    <3>1. CmdShape' /\ cmd'.pc = "idle" /\ cmd'.o = cmd.o
      BY <2>1, <2>2, <2>3 DEF CloneInv, CmdShape
    <3>2. QED
      BY <2>2, <3>1, EarlyStep DEF CloneInv, Accepted, Early
  <2>4. CASE first # "refused"
    <3>1. CmdShape' /\ cmd'.pc = first /\ cmd'.o = o
      BY <2>1, <2>4 DEF CloneInv, CmdShape
    <3>2. QED
      BY <2>1, <2>2, <2>4, <3>1, EarlyStep DEF Accepted, Early
  <2>5. QED
    BY <2>3, <2>4
<1>2. CASE extractTarball \/ replaceDomains
  <2>1. /\ cmd.pc \in Early /\ repo' = repo
        /\ \/ Fail \/ Break
           \/ Goto("rewrite") /\ failed' = failed
           \/ Goto("force") /\ failed' = failed
    BY <1>2 DEF extractTarball, replaceDomains, At, Early
  <2>2. ASSUME NEW s \in {"rewrite", "force"}, Goto(s), failed' = failed
        PROVE  CloneInv'
    <3>1. CmdShape' /\ cmd'.pc = s /\ cmd'.o = cmd.o
      BY <2>2, GotoFields DEF CloneInv
    <3>2. QED
      BY <2>1, <2>2, <3>1, EarlyStep DEF CloneInv, Accepted, Early
  <2>3. QED
    BY <2>1, <2>2, FailStep
<1>3. CASE Kill
  BY <1>3, FailStep DEF Kill
<1>4. CASE PublishRelease \/ BringTarball \/ UNCHANGED vars
  <2>1. cmd' = cmd /\ repo' = repo /\ failed' = failed /\ output' = output
    BY <1>4 DEF PublishRelease, BringTarball, vars
  <2>2. CmdShape' /\ RepoShape' /\ Accepted' /\ Owner'
    BY <2>1 DEF CloneInv, CmdShape, RepoShape, Accepted, Owner
  <2>3. InClone' /\ OutputIsThisBuild'
    BY <2>1 DEF CloneInv, InClone, OutputIsThisBuild, At, hasOutput, outputArtifact
  <2>4. QED
    BY <2>2, <2>3 DEF CloneInv
<1>5. QED
  BY <1>1, <1>2, <1>3, <1>4

\* Every command keeps track of its clone: the inductive invariant of the CLI.
THEOREM CloneInvariant == Spec => []CloneInv
<1>1. Init => CloneInv
  <2> SUFFICES ASSUME Init PROVE CloneInv
    OBVIOUS
  <2>1. CmdShape /\ RepoShape /\ cmd.pc = "idle" /\ cmd.o.kind = "none" /\ repo = NoClone
    BY DEF Init, CmdShape, RepoShape, NoClone, NoOptions
  <2>2. ~repo.present
    BY <2>1 DEF NoClone
  <2>3. QED
    BY <2>1, <2>2 DEF CloneInv, Accepted, Owner, InClone, OutputIsThisBuild, At, Early, Holding
<1>2. CloneInv /\ [Next]_vars => CloneInv'
  BY BuildSteps, DownloadSteps, CommandSteps, OtherSteps DEF Next
<1>3. QED
  BY <1>1, <1>2, PTL DEF Spec

\* A clone that is there between two commands is that of a command that failed.
THEOREM LeftoversAreFailures == Spec => []LeftoverOnlyFromFailure
<1>1. CloneInv => LeftoverOnlyFromFailure
  BY DEF CloneInv, Owner, LeftoverOnlyFromFailure, Early
<1>2. QED
  BY <1>1, CloneInvariant, PTL

\* A successful build hands over its own image, made from the commit of its bundle.
THEOREM OutputIsOwn == Spec => []OutputIsThisBuild
<1>1. CloneInv => OutputIsThisBuild
  BY DEF CloneInv
<1>2. QED
  BY <1>1, CloneInvariant, PTL

\* Every build that reaches make asks for a supported image and, raw RedHat 9 images
\* excepted, for one that exists and has the right firmware.
THEOREM TargetsAreSupported == Spec => []TargetSupported
<1>1. CloneInv => TargetSupported
  BY AcceptedIsSupported, Zenon DEF CloneInv, Accepted, TargetSupported, At, RawRedHat9
<1>2. QED
  BY <1>1, CloneInvariant, PTL

-----------------------------------------------------------------------------
\* The extracted manifests are records.
Entry(e) == /\ e = [of |-> e.of, rewritten |-> e.rewritten, from |-> e.from]
            /\ e.rewritten \in BOOLEAN
Entries == \A f \in DOMAIN extracted : Entry(extracted[f])

\* What an air-gapped build knows about them: from the extraction on they are those
\* of its tarball, from the rewriting on they have the private domains.
Private ==
  cmd.o.kind = "build" /\ cmd.o.airGapped =>
    /\ cmd.pc # "idle"
    /\ cmd.pc # "extract" =>
         \A f \in DOMAIN extracted : extracted[f].from = tarball.number
    /\ cmd.pc \notin {"extract", "rewrite"} =>
         \A f \in DOMAIN extracted \ {ReleasesManifest} : extracted[f].rewritten

AirInv == CmdShape /\ Entries /\ Private

\* Once no build is running there is nothing to know.
LEMMA AirExit ==
  ASSUME CmdShape, Exit, Entries'
  PROVE  AirInv'
BY ExitFields DEF AirInv, Private

\* The steps after the rewriting leave the manifests and the tarball of a build alone.
LEMMA AirLater ==
  ASSUME AirInv, extracted' = extracted, CmdShape', cmd'.o = cmd.o,
         tarball' = tarball \/ cmd.o.kind # "build",
         cmd.pc \notin {"idle", "extract", "rewrite"},
         cmd'.pc \notin {"idle", "extract", "rewrite"}
  PROVE  AirInv'
BY DEF AirInv, Entries, Private

\* The fields of an extracted file, its Boolean one included.
LEMMA EntryFields ==
  ASSUME NEW e, NEW x, NEW n, NEW b \in BOOLEAN, e = [of |-> x, rewritten |-> b, from |-> n]
  PROVE  Entry(e) /\ e.from = n /\ (b => e.rewritten)
<1>1. e.of = x /\ e.from = n
  OBVIOUS
<1>2. e.rewritten = b
  BY Zenon
<1>3. QED
  BY <1>1, <1>2, Zenon DEF Entry

\* The files of the tarball, extracted.
LEMMA FromTarball ==
  ASSUME NEW S, extracted' = fromTarball(S), tarball' = tarball
  PROVE  Entries' /\ \A f \in DOMAIN extracted' : extracted'[f].from = tarball'.number
<1>1. ASSUME NEW f \in DOMAIN extracted'
      PROVE  Entry(extracted'[f]) /\ extracted'[f].from = tarball'.number
  <2>1. extracted'[f] = [of |-> tarball.files[f], rewritten |-> FALSE, from |-> tarball.number]
    BY DEF fromTarball
  <2>2. QED
    BY <2>1, EntryFields
<1>2. QED
  BY <1>1 DEF Entries

\* Extracting the tarball establishes what an air-gapped build knows of its files.
LEMMA AirExtract ==
  ASSUME AirInv, extractTarball
  PROVE  AirInv'
<1>1. CASE Break /\ UNCHANGED extracted
  BY <1>1, AirExit DEF Break, AirInv, Entries
<1>2. CASE (\E S \in SUBSET DOMAIN tarball.files : extracted' = fromTarball(S)) /\ Fail
  BY <1>2, AirExit, FromTarball DEF extractTarball, Fail, AirInv
<1>3. CASE extracted' = fromTarball(DOMAIN tarball.files) /\ Goto("rewrite")
  <2>1. Entries' /\ \A f \in DOMAIN extracted' : extracted'[f].from = tarball'.number
    BY <1>3, FromTarball DEF extractTarball
  <2>2. CmdShape' /\ cmd'.pc = "rewrite"
    BY <1>3, GotoFields DEF AirInv
  <2>3. QED
    BY <2>1, <2>2 DEF AirInv, Private
<1>4. QED
  BY <1>1, <1>2, <1>3 DEF extractTarball

\* Rewriting the domains keeps what an air-gapped build knows of its files.
LEMMA AirRewrite ==
  ASSUME AirInv, replaceDomains
  PROVE  AirInv'
<1> DEFINE rewritable == DOMAIN extracted \ {ReleasesManifest}
           entry(f, S) == [extracted[f] EXCEPT !.rewritten = @ \/ f \in S]
           rewrite(S) == [f \in DOMAIN extracted |-> entry(f, S)]
<1>1. ASSUME NEW S, NEW f \in DOMAIN extracted
      PROVE  /\ Entry(entry(f, S)) /\ entry(f, S).from = extracted[f].from
             /\ f \in S => entry(f, S).rewritten
  <2>1. Entry(extracted[f])
    BY DEF AirInv, Entries
  <2>2. entry(f, S) = [of |-> extracted[f].of, rewritten |-> (extracted[f].rewritten \/ f \in S),
                       from |-> extracted[f].from]
    BY <2>1 DEF Entry
  <2>3. QED
    BY <2>2, Zenon DEF Entry
<1> DEFINE Done == extracted' = rewrite(rewritable) /\ Goto("force")
           Died == /\ \E S \in SUBSET rewritable : \E f \in rewritable \ S :
                        \/ extracted' \in {rewrite(S), Restrict(rewrite(S), DOMAIN extracted \ {f})}
                        \/ extracted' = [rewrite(S) EXCEPT ![f].of = Cut]
                   /\ Fail
<1>2. Done \/ Died
  BY Zenon DEF replaceDomains
<1> HIDE DEF entry
<1>3. tarball' = tarball /\ cmd.pc = "rewrite" /\ cmd.o.kind = "build"
  BY DEF replaceDomains, At
<1>4. CASE Done
  <2>1. CmdShape' /\ cmd'.pc = "force" /\ cmd'.o = cmd.o
    BY <1>4, GotoFields DEF AirInv
  <2>2. Entries'
    BY <1>1, <1>4 DEF Entries
  <2>3. Private'
    BY <1>1, <1>3, <1>4, <2>1 DEF AirInv, Private
  <2>4. QED
    BY <2>1, <2>2, <2>3 DEF AirInv
<1>5. CASE Died
  <2>1. PICK S \in SUBSET rewritable, f \in rewritable :
          \/ extracted' \in {rewrite(S), Restrict(rewrite(S), DOMAIN extracted \ {f})}
          \/ extracted' = [rewrite(S) EXCEPT ![f].of = Cut]
    BY <1>5
  <2>2. ASSUME extracted' \in {rewrite(S), Restrict(rewrite(S), DOMAIN extracted \ {f})}
        PROVE  Entries'
    BY <1>1, <2>2 DEF Entries, Restrict
  <2>3. ASSUME extracted' = [rewrite(S) EXCEPT ![f].of = Cut]
        PROVE  Entries'
    <3>1. Entry([entry(f, S) EXCEPT !.of = Cut])
      <4>1. Entry(entry(f, S))
        BY <1>1, <2>1
      <4> DEFINE e == entry(f, S)
      <4>2. [e EXCEPT !.of = Cut] = [of |-> Cut, rewritten |-> e.rewritten, from |-> e.from]
        BY <4>1 DEF Entry
      <4>3. e.rewritten \in BOOLEAN
        BY <4>1, Zenon DEF Entry
      <4> HIDE DEF e
      <4>4. Entry([e EXCEPT !.of = Cut])
        BY <4>2, <4>3, EntryFields, Zenon
      <4>5. QED
        BY <4>4, Zenon DEF e
    <3>2. /\ DOMAIN extracted' = DOMAIN extracted
          /\ extracted'[f] = [entry(f, S) EXCEPT !.of = Cut]
          /\ \A g \in DOMAIN extracted \ {f} : extracted'[g] = entry(g, S)
      BY <2>1, <2>3
    <3>3. ASSUME NEW g \in DOMAIN extracted PROVE Entry(extracted'[g])
      <4>1. CASE g = f
        BY <3>1, <3>2, <4>1, Zenon
      <4>2. CASE g # f
        BY <1>1, <3>2, <4>2
      <4>3. QED
        BY <4>1, <4>2
    <3>4. QED
      BY <3>2, <3>3 DEF Entries
  <2>4. Entries'
    BY <2>1, <2>2, <2>3
  <2>5. QED
    BY <1>5, <2>4, AirExit DEF Fail, AirInv
<1>6. QED
  BY <1>2, <1>4, <1>5

\* What an air-gapped build knows about its manifests: the inductive invariant.
THEOREM AirInvariant == Spec => []AirInv
<1>1. Init => AirInv
  BY DEF Init, AirInv, CmdShape, Entries, Private, NoFiles, NoOptions
<1>2. AirInv /\ [Next]_vars => AirInv'
  <2> SUFFICES ASSUME AirInv, [Next]_vars PROVE AirInv'
    OBVIOUS
  <2>1. CASE Start
    <3>1. PICK o \in Requests, first \in {"refused", "extract", "force"} :
            /\ o.kind = "build" /\ o.airGapped => first \in {"refused", "extract"}
            /\ cmd' = IF first = "refused" THEN [cmd EXCEPT !.id = @ + 1]
                       ELSE [cmd EXCEPT !.pc = first, !.id = @ + 1, !.o = o]
      BY <2>1 DEF Start
    <3>2. cmd.pc = "idle" /\ extracted' = extracted /\ tarball' = tarball
      BY <2>1 DEF Start
    <3>3. CASE first = "refused"
      BY <3>1, <3>2, <3>3 DEF AirInv, CmdShape, Entries, Private
    <3>4. CASE first # "refused"
      <4>1. CmdShape' /\ cmd'.pc = first /\ cmd'.o = o
        <5>1. cmd' = [cmd EXCEPT !.pc = first, !.id = @ + 1, !.o = o]
          BY <3>1, <3>4
        <5>2. QED
          BY <5>1 DEF AirInv, CmdShape
      <4>2. QED
        BY <3>1, <3>2, <3>4, <4>1 DEF AirInv, Entries, Private
    <3>5. QED
      BY <3>3, <3>4
  <2>2. CASE Kill
    BY <2>2, AirExit DEF Kill, Fail, AirInv, Entries
  <2>3. CASE BringTarball
    <3>1. cmd' = cmd /\ extracted' = extracted /\ cmd.pc = "idle"
      BY <2>3 DEF BringTarball
    <3>2. QED
      BY <3>1 DEF AirInv, CmdShape, Entries, Private
  <2>4. CASE PublishRelease \/ UNCHANGED vars
    <3>1. cmd' = cmd /\ extracted' = extracted /\ tarball' = tarball
      BY <2>4 DEF PublishRelease, vars
    <3>2. QED
      BY <3>1 DEF AirInv, CmdShape, Entries, Private
  <2>5. CASE \/ forceCleanup \/ getBundle \/ cloneRepo \/ checkoutRepo \/ checkChannel
             \/ make \/ moveOutput \/ cleanup
             \/ downloadEKSDManifests \/ downloadReleasesManifest \/ downloadBundlesManifests
             \/ createTarball \/ removeManifests
             \/ downloadEKSAArtifacts \/ downloadEKSDArtifacts
    <3>1. cmd.pc \notin {"idle", "extract", "rewrite"} /\ extracted' = extracted
      BY <2>5 DEF forceCleanup, getBundle, cloneRepo, checkoutRepo, checkChannel, make,
           moveOutput, cleanup, downloadEKSDManifests, downloadReleasesManifest,
           downloadBundlesManifests, createTarball, removeManifests, downloadEKSAArtifacts,
           downloadEKSDArtifacts, downloadManifests, downloadArtifacts, At
    <3>2. tarball' = tarball \/ cmd.o.kind # "build"
      BY <2>5 DEF forceCleanup, getBundle, cloneRepo, checkoutRepo, checkChannel, make,
           moveOutput, cleanup, downloadEKSDManifests, downloadReleasesManifest,
           downloadBundlesManifests, createTarball, removeManifests, downloadEKSAArtifacts,
           downloadEKSDArtifacts, downloadManifests, downloadArtifacts, At
    <3>3. \/ Exit
          \/ \E s \in Holding \cup {"bundle"} : Goto(s) \/ \E e : Ignore(e, s)
          \/ \E v, b : cmd' = [cmd EXCEPT !.pc = "clone", !.version = v, !.bundle = b]
      BY <2>5 DEF forceCleanup, getBundle, cloneRepo, checkoutRepo, checkChannel, make,
           moveOutput, cleanup, downloadEKSDManifests, downloadReleasesManifest,
           downloadBundlesManifests, createTarball, removeManifests, downloadEKSAArtifacts,
           downloadEKSDArtifacts, downloadManifests, downloadArtifacts, Fail, Break, Refuse, Holding
    <3>4. CASE Exit
      BY <3>1, <3>4, AirExit DEF AirInv, Entries
    <3>5. CASE \E s \in Holding \cup {"bundle"} : Goto(s) \/ \E e : Ignore(e, s)
      <4>1. PICK s \in Holding \cup {"bundle"} : Goto(s) \/ \E e : Ignore(e, s)
        BY <3>5
      <4>2. CmdShape' /\ cmd'.o = cmd.o /\ cmd'.pc \notin {"idle", "extract", "rewrite"}
        BY <4>1, GotoFields, IgnoreFields DEF AirInv, Holding
      <4>3. QED
        BY <3>1, <3>2, <4>2, AirLater
    <3>6. CASE \E v, b : cmd' = [cmd EXCEPT !.pc = "clone", !.version = v, !.bundle = b]
      <4>1. CmdShape' /\ cmd'.o = cmd.o /\ cmd'.pc = "clone"
        BY <3>6 DEF AirInv, CmdShape
      <4>2. QED
        BY <3>1, <3>2, <4>1, AirLater
    <3>7. QED
      BY <3>3, <3>4, <3>5, <3>6
  <2>6. QED
    BY <2>1, <2>2, <2>3, <2>4, <2>5, AirExtract, AirRewrite DEF Next
<1>3. QED
  BY <1>1, <1>2, PTL DEF Spec

\* An air-gapped make reads manifests of its own tarball only, with the private
\* domains in them.
THEOREM AirGappedReadsItsTarball == Spec => []AirGappedSources
<1>1. AirInv => AirGappedSources
  <2> SUFFICES ASSUME AirInv, At({"build"}, "make"), cmd.o.airGapped,
                      NEW f \in airGapManifests \cap DOMAIN extracted
               PROVE  extracted[f].rewritten /\ extracted[f].from = tarball.number
    BY DEF AirGappedSources
  <2>1. f # ReleasesManifest
    BY DEF airGapManifests, ReleasesManifest, BundlesManifest, EksDManifest
  <2>2. QED
    BY <2>1 DEF AirInv, Private, At
<1>2. QED
  BY <1>1, AirInvariant, PTL

=============================================================================
