---------------------------- MODULE MCBackupQuery ----------------------------
(* Two clusters, two backups, two policies; annotation values "true",      *)
(* "false" and absent; every kind of command line over them.               *)
EXTENDS BackupQuery

CONSTANTS c1, c2, b1, b2, bp1, bp2

MCClusters    == {c1, c2}
MCBackups     == {b1, b2}
MCPolicies    == {bp1, bp2}
MCAnnValues   == {"true", "false", Missing}
MCListCmds    == [args : {<< >>, << c1 >>, << c1, c2 >>}, name : {"", b1}]
MCPolicyCmds  == [args : {<< >>, << c1 >>}, names : {{}, {bp1}}]
=============================================================================
