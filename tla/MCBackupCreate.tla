--------------------------- MODULE MCBackupCreate ---------------------------
(* Two concurrent invocations, two clusters, two policies, one named       *)
(* backup, a clock of two seconds.                                         *)
EXTENDS BackupCreate

CONSTANTS i1, i2, c1, c2, bp1, bp2, b1

MCInvocations == {i1, i2}
MCClusters    == {c1, c2}
MCPolicies    == {bp1, bp2}
MCBackups     == {b1}
\* the default-policy annotation: "true" or absent (""); backup treats every
\* other value as absent
MCAnnValues   == {"true", ""}

Cmd(c, n, p, m, r, pb) ==
  [cluster |-> c, name |-> n, policy |-> p, method |-> m, retention |-> r, parent |-> pb]

\* the command lines: default policy; explicit policy and parent; default
\* policy and parent; no cluster; explicit name without --method; another
\* cluster with an invalid retention period
MCFlagChoices ==
  { Cmd(c1, NoName, NoName, TRUE, "none", NoName),
    Cmd(c1, NoName, bp1, TRUE, "valid", b1),
    Cmd(c1, NoName, NoName, TRUE, "none", b1),
    Cmd(NoName, NoName, NoName, TRUE, "none", NoName),
    Cmd(c1, b1, bp2, FALSE, "none", NoName),
    Cmd(c2, NoName, NoName, TRUE, "invalid", NoName) }
=============================================================================
