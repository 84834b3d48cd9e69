---------------------------- MODULE BuildOptions ----------------------------
(***************************************************************************)
(* The options of image-builder build: what ValidateInputs of cmd/build.go *)
(* accepts, the make target that BuildImage derives from it, and the list  *)
(* of additional files.  Options are a record.  The config file of the     *)
(* hypervisor is the set of those of its fields that are not empty; the    *)
(* field "iso_checksum_type" counts when it is sha256 or sha512.           *)
(***************************************************************************)
EXTENDS Integers, Sequences, FiniteSets, Functions

Ubuntu == "ubuntu"
RedHat == "redhat"
VSphere == "vsphere"
Baremetal == "baremetal"
Nutanix == "nutanix"
CloudStack == "cloudstack"
AMI == "ami"
EFI == "efi"
BIOS == "bios"

SupportedHypervisors == {VSphere, Baremetal, Nutanix, CloudStack, AMI}
SupportedUbuntuVersions == {"20.04", "22.04"}
SupportedRedHatVersions == {"8", "9"}
SupportedRedHatEfiVersions == {"9"}
SupportedFirmwares == {BIOS, EFI}

-----------------------------------------------------------------------------
validateSupportedHypervisors(hypervisor) == hypervisor \in SupportedHypervisors

\* Every operating system goes with every hypervisor.
anyCombination(os, hypervisor) == TRUE

validateOSHypervisorCombinations(os, hypervisor) ==
    /\ hypervisor = CloudStack => os = RedHat
    /\ hypervisor = AMI => os = Ubuntu

validateOSVersion(os, osVersion) ==
    \/ os = Ubuntu /\ osVersion \in SupportedUbuntuVersions
    \/ os = RedHat /\ osVersion \in SupportedRedHatVersions

validateFirmware(firmware, os, osVersion, hypervisor) ==
    \/ firmware = ""
    \/ /\ firmware = EFI
       /\ \/ os = Ubuntu /\ hypervisor \in {VSphere, Baremetal}
          \/ os = RedHat /\ hypervisor = Baremetal /\ osVersion \in SupportedRedHatEfiVersions
    \/ /\ firmware = BIOS
       /\ ~(os = Ubuntu /\ hypervisor = Baremetal)

validateRHSM(os, config) ==
    "rhsm_server_hostname" \in config =>
        os = RedHat /\ {"rhsm_server_release_version", "rhsm_activation_key", "rhsm_org_id"} \subseteq config

validateRedhat(config, iso) ==
    /\ "rhsm_server_hostname" \in config \/ {"rhel_username", "rhel_password"} \subseteq config
    /\ iso

validateCustomIso(config) == {"iso_checksum", "iso_checksum_type"} \subseteq config

validateAirGapped(config, iso) ==
    /\ {"eksa_build_tooling_repo_url", "image_builder_repo_url", "extra_repos",
        "private_artifacts_eksd_fqdn", "private_artifacts_eksa_fqdn"} \subseteq config
    /\ iso

\* The config file of the hypervisor; an AMI build takes any.  A Nutanix image
\* is not installed from an ISO and its RHSM fields are not looked at.
validateConfig(o) ==
    CASE ~o.hasConfig ->
           /\ o.hypervisor \notin {VSphere, Nutanix, CloudStack}
           /\ ~(o.hypervisor = Baremetal /\ o.os = RedHat)
      [] o.hasConfig /\ o.hypervisor \in {VSphere, Baremetal, CloudStack} ->
           LET iso == "iso_url" \in o.config
           IN  /\ o.os = RedHat => validateRedhat(o.config, iso)
               /\ iso => validateCustomIso(o.config)
               /\ validateRHSM(o.os, o.config)
               /\ o.airGapped => validateAirGapped(o.config, iso)
      [] o.hasConfig /\ o.hypervisor = Nutanix ->
           /\ o.os = RedHat => validateRedhat(o.config, TRUE)
           /\ {"nutanix_username", "nutanix_password"} \subseteq o.config
           /\ o.airGapped => validateAirGapped(o.config, "image_name" \in o.config)
      [] OTHER -> TRUE

\* The options with the defaults filled in.
defaultOsVersion(o) ==
    IF o.osVersion # "" THEN o.osVersion ELSE IF o.os = Ubuntu THEN "20.04" ELSE "8"

defaultFirmware(o) ==
    IF o.firmware # "" THEN o.firmware
    ELSE IF o.os = Ubuntu /\ o.hypervisor = Baremetal THEN EFI ELSE BIOS

ValidateInputs(o) ==
    LET osVersion == defaultOsVersion(o)
    IN  /\ o.os \in {Ubuntu, RedHat}
        /\ validateSupportedHypervisors(o.hypervisor)
        /\ validateOSHypervisorCombinations(o.os, o.hypervisor)
        /\ o.verbosity \in 0..6
        /\ o.os = RedHat /\ o.hypervisor \in {VSphere, AMI} => osVersion = "8"
        /\ validateOSVersion(o.os, osVersion)
        /\ validateFirmware(o.firmware, o.os, osVersion, o.hypervisor)
        /\ o.airGapped => o.tarball /\ o.os = Ubuntu /\ o.hypervisor # AMI
        /\ validateConfig(o)

-----------------------------------------------------------------------------
\* strings.ReplaceAll(OsVersion, ".", "")
undotted(osVersion) ==
    CASE osVersion = "20.04" -> "2004" [] osVersion = "22.04" -> "2204" [] OTHER -> osVersion

\* local-build-<format>-<os>-<version>[-efi]
makeTarget(o, format, efi) ==
    [format |-> format, os |-> o.os, version |-> undotted(defaultOsVersion(o)), efi |-> efi]

\* What BuildImage does for each hypervisor: the target it makes, and whether an
\* image is then moved to the working directory.
vSphereBuild(o) ==
    [target |-> makeTarget(o, "ova", o.os = Ubuntu /\ defaultFirmware(o) = EFI), output |-> TRUE]

baremetalBuild(o) ==
    [target |-> makeTarget(o, "raw", o.os = RedHat /\ defaultFirmware(o) = EFI), output |-> TRUE]

nutanixBuild(o) ==
    [target |-> makeTarget(o, "nutanix", FALSE), output |-> "image_export" \in o.config]

cloudStackBuild(o) == [target |-> makeTarget(o, "cloudstack", FALSE), output |-> TRUE]

amiBuild(o) ==
    [target |-> [makeTarget(o, "ami", FALSE) EXCEPT !.os = Ubuntu], output |-> FALSE]

hypervisorBuild(o) ==
    CASE o.hypervisor = VSphere    -> vSphereBuild(o)
      [] o.hypervisor = Baremetal  -> baremetalBuild(o)
      [] o.hypervisor = Nutanix    -> nutanixBuild(o)
      [] o.hypervisor = CloudStack -> cloudStackBuild(o)
      [] o.hypervisor = AMI        -> amiBuild(o)

\* What the image-builder Makefile builds (validate-supported-image).
ALLOWED_OS(format) ==
    CASE format \in {"ova", "raw"}  -> {Ubuntu, RedHat, "bottlerocket"}
      [] format = "cloudstack"      -> {RedHat}
      [] format = "ami"             -> {Ubuntu, "bottlerocket"}
      [] format = "nutanix"         -> {Ubuntu, RedHat}

ALLOWED_VERSIONS(os) ==
    CASE os = Ubuntu -> {"2004", "2204"} [] os = RedHat -> {"8", "9"} [] OTHER -> {"1"}

ALLOWED_EFI_OS_FORMATS == {<<Ubuntu, "ova">>, <<RedHat, "raw">>}

validate_supported_image(t) ==
    /\ t.os \in ALLOWED_OS(t.format)
    /\ t.version \in ALLOWED_VERSIONS(t.os)
    /\ t.efi => <<t.os, t.format>> \in ALLOWED_EFI_OS_FORMATS

\* The "-efi" suffixes of the upstream target that local-build makes: the one of t
\* itself, one for every raw Ubuntu image and one for every raw RedHat 9 image.
CONVERT_TO_UPSTREAM_TARGET(t) ==
    LET suffix(c) == IF c THEN 1 ELSE 0
    IN  suffix(t.efi) + suffix(t.format = "raw" /\ t.os = Ubuntu)
          + suffix(t.format = "raw" /\ t.os = RedHat /\ t.version = "9")

\* Upstream has EFI targets for Ubuntu and RedHat 9, with one suffix.
upstreamTargetExists(t) ==
    \/ CONVERT_TO_UPSTREAM_TARGET(t) = 0
    \/ CONVERT_TO_UPSTREAM_TARGET(t) = 1 /\ ~(t.os = RedHat /\ t.version = "8")

firmwareOf(t) == IF CONVERT_TO_UPSTREAM_TARGET(t) = 0 THEN BIOS ELSE EFI

\* setRhsmProxy: the proxy needs a port, unless no_proxy lists the satellite.
setRhsmProxyFails(o) ==
    /\ o.os = RedHat
    /\ "http_proxy" \in o.config
    /\ ~{"no_proxy", "rhsm_server_hostname"} \subseteq o.config
    /\ "http_proxy_port" \notin o.config

-----------------------------------------------------------------------------
\* Additional files.  DefaultAMIAdditionalFiles is an array that the files config
\* of an AMI build with a config file is decoded into, element by element.
DefaultAMIAdditionalFiles == <<"bootstrap.sh", "logging.sh">>

amiConfig(o) == o.hypervisor = AMI /\ o.hasConfig

\* The array after the decoding.
decodedArray(o) ==
    [i \in DOMAIN DefaultAMIAdditionalFiles |->
        IF amiConfig(o) /\ i <= Len(o.files) THEN o.files[i] ELSE DefaultAMIAdditionalFiles[i]]

SameFilesProvided(a, b) ==
    \A f \in Range(a) \cup Range(b) :
        Cardinality({i \in DOMAIN a : a[i] = f}) = Cardinality({i \in DOMAIN b : b[i] = f})

\* AdditionalFilesList after ValidateInputs.
AdditionalFilesList(o) ==
    IF ~o.hasFiles THEN (IF amiConfig(o) THEN DefaultAMIAdditionalFiles ELSE <<>>)
    ELSE IF amiConfig(o) /\ ~SameFilesProvided(o.files, decodedArray(o))
    THEN o.files \o decodedArray(o)
    ELSE o.files

\* additional_files.yaml: the files found in the array are looked for in the clone.
additionalFileVars(o) ==
    {[src |-> f, inClone |-> amiConfig(o) /\ f \in Range(decodedArray(o))] :
        f \in Range(AdditionalFilesList(o))}

=============================================================================
