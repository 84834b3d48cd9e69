------------------------------ MODULE MCImage ------------------------------
(***************************************************************************)
(* Instances of ImageBuilder for TLC.  Two releases are published; the     *)
(* second one adds a release channel, and drops the EKS-D releases of an   *)
(* old channel that the first one has but does not support any more.       *)
(***************************************************************************)
EXTENDS ImageBuilder

MCSupportedChannels == <<{27}, {27, 28}>>
MCEksDChannels == <<{26, 27}, {27, 28}>>
\* Version 3 is not published; its string occurs in that of release 2.
MCContained == {<<3, 2>>}
MCArtifacts == [eksa |-> {"containerd", "etcdadm"}, eksd |-> {"kubelet", "etcd"}, byName |-> {"etcd"}]

config == {"iso_url", "iso_checksum", "iso_checksum_type", "rhel_username", "rhel_password",
           "nutanix_username", "nutanix_password", "image_export"}
airGappedConfig ==
    config \cup {"eksa_build_tooling_repo_url", "image_builder_repo_url", "extra_repos",
                 "private_artifacts_eksd_fqdn", "private_artifacts_eksa_fqdn", "image_name"}
satellite == {"rhsm_server_hostname", "rhsm_server_release_version", "rhsm_activation_key", "rhsm_org_id"}

aBuild == [kind |-> "build", os |-> Ubuntu, osVersion |-> "", hypervisor |-> VSphere, firmware |-> "",
           verbosity |-> 0, airGapped |-> FALSE, tarball |-> FALSE, hasConfig |-> TRUE,
           config |-> config, hasFiles |-> FALSE, files |-> <<>>,
           channel |-> 27, release |-> 0, force |-> FALSE]
anAirGappedBuild == [aBuild EXCEPT !.airGapped = TRUE, !.tarball = TRUE, !.config = airGappedConfig]
aRedHatBuild == [aBuild EXCEPT !.os = RedHat, !.hypervisor = CloudStack]

Downloads ==
    {[aBuild EXCEPT !.kind = k, !.force = f, !.release = IF k = "artifacts" THEN 1 ELSE 0] :
        k \in {"manifests", "artifacts"}, f \in BOOLEAN}

Builds ==
    {[aBuild EXCEPT !.force = f, !.channel = c] : f \in BOOLEAN, c \in {27, 28}}
    \cup {[aBuild EXCEPT !.release = 3], [aBuild EXCEPT !.release = 4],
          anAirGappedBuild, [anAirGappedBuild EXCEPT !.force = TRUE, !.release = 1],
          [anAirGappedBuild EXCEPT !.hypervisor = Baremetal, !.hasConfig = FALSE, !.config = {}]}

\* Combinations of system, hypervisor, version and firmware.
Matrix ==
    {[aBuild EXCEPT !.os = os, !.hypervisor = h, !.osVersion = v, !.firmware = f] :
        os \in {Ubuntu, RedHat, "rocky"}, h \in SupportedHypervisors \cup {"qemu"},
        v \in {"", "9"}, f \in {"", EFI, "uefi"}}

\* Configs that lack a field, and the proxies of RedHat builds.
Configs ==
    {[aRedHatBuild EXCEPT !.config = @ \ {x}] :
        x \in {"iso_url", "iso_checksum", "iso_checksum_type", "rhel_username", "rhel_password"}}
    \cup {[aRedHatBuild EXCEPT !.config = @ \cup x] :
        x \in {{"http_proxy"}, satellite \cup {"http_proxy", "no_proxy"}, satellite \ {"rhsm_org_id"}}}
    \cup {[aBuild EXCEPT !.hypervisor = Nutanix, !.config = @ \ {x}] : x \in {"nutanix_username", "image_export"}}
    \cup {[anAirGappedBuild EXCEPT !.config = @ \ {x}] : x \in airGappedConfig \ (config \cup {"image_name"})}
    \cup {[aBuild EXCEPT !.hypervisor = h, !.hasConfig = FALSE, !.config = {}] : h \in SupportedHypervisors}

MCRequests == Builds \cup Downloads \cup Matrix \cup Configs

\* Builds with a tarball, air-gapped or not.
TarballRequests == {anAirGappedBuild, [aBuild EXCEPT !.tarball = TRUE]}

\* AMI builds with and without a config of additional files.
FilesRequests ==
    {[aBuild EXCEPT !.hypervisor = AMI, !.hasConfig = c, !.config = {}, !.hasFiles = TRUE, !.files = f] :
        c \in BOOLEAN, f \in {<<"u1">>, <<"u1", "u2">>, <<"u1", "u2", "u3">>}}
=============================================================================
