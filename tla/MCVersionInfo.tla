---------------------------- MODULE MCVersionInfo ----------------------------
(* Two KubeBlocks deployment names (an upgrade briefly has both), two      *)
(* KubeBlocks versions and an empty version label, two Kubernetes          *)
(* versions.                                                               *)
EXTENDS VersionInfo

CONSTANTS d1, d2

MCDeploys    == {d1, d2}
MCKBVersions == {"0.7.0", "0.8.0", ""}
MCK8sVersions == {"v1.25.0", "v1.26.0-eks"}
=============================================================================
