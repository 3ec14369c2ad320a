------------------------ MODULE MCBackupPolicyEdit -------------------------
(* Instantiates BackupPolicyEdit for TLC: two concurrent invocations on   *)
(* one policy, one repo, texts of at most two rows.                        *)
EXTENDS BackupPolicyEdit

CONSTANTS e1, e2, p1, r1

MCEditors  == {e1, e2}
MCPolicies == {p1}
MCRepos    == {r1}

\* rows a user types: a comment, an unknown key, backupRepoName=r1,
\* backupRepoName="r1" and backupRepoName= (clears the field)
MCRowChoices ==
  {Comment, UnknownKey,
   [val |-> r1, quoted |-> FALSE], [val |-> r1, quoted |-> TRUE],
   [val |-> "", quoted |-> FALSE]}
=============================================================================
