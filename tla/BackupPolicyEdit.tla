-------------------------- MODULE BackupPolicyEdit --------------------------
(***************************************************************************)
(* `kbcli cluster edit-backup-policy NAME [--set k=v ...]`                *)
(* (src/unnamed/part_001, editBackupPolicyOptions, lines 659-897).         *)
(*                                                                         *)
(* Each invocation in Editors is one process running                       *)
(*   complete -> Get policy -> [editor] -> applyChanges row by row         *)
(*            -> compare original/target -> Update                         *)
(* Every network round trip is its own step, so other invocations and     *)
(* other API clients (the environment actions at the bottom) interleave   *)
(* between them.  The API server keeps each policy with a resource        *)
(* version and rejects an Update whose version is stale, as Kubernetes    *)
(* does for an object sent back with its metadata.                         *)
(*                                                                         *)
(* Data abstraction: the policy has the one editable field of the code,   *)
(* backupRepoName (a repo or None), plus `other`, standing for every      *)
(* field written by someone else (a counter that only other writers       *)
(* increase).  A text row is a record [val, quoted] for                    *)
(* `backupRepoName=<val>` (quoted: the value was written in quotes) or    *)
(* one of the model values Comment, Malformed, UnknownKey.  Row texts are *)
(* concatenated in the code; for well-formed rows concatenation is        *)
(* injective, so original/target are kept as sequences of rows.           *)
(***************************************************************************)
EXTENDS Naturals, Sequences, SequencesExt, FiniteSets

CONSTANTS
  Editors,      \* concurrent kbcli edit-backup-policy invocations
  Policies,     \* backup policy names
  Repos,        \* backup repo names
  None,         \* BackupRepoName == nil
  Comment,      \* a row starting with '#' or blank
  Malformed,    \* a row that does not split into exactly key=value
  UnknownKey,   \* key=value with a key not in editContentKeyMap
  MaxRows,      \* longest --set list / edited text
  MaxWrites,    \* bound on writes of other clients per policy
  RowChoices    \* the rows a user may type (subset of Row)

ASSUME None \notin Repos

VARIABLES
  pc,         \* pc[e]: step of invocation e
  name,       \* name[e]: o.name, the policy being edited
  values,     \* values[e]: o.values, --set rows or the edited text
  obj,        \* obj[e]: the fetched policy as edited in memory
  fetched,    \* fetched[e]: the policy as returned by the Get (history)
  original,   \* original[e]: o.original (rows rendered from the fetched policy)
  target,     \* target[e]: o.target (non-comment rows applied)
  cursor,     \* cursor[e]: index of the next row applyChanges looks at
  applied,    \* applied[e]: indices of rows whose updateFunc ran (history)
  wrote,      \* wrote[e]: the Update request of e was sent (history)
  policy,     \* API server: policy[p] = [exists, repo, other, rv]
  repoExists  \* API server: repoExists[r]

vars == <<pc, name, values, obj, fetched, original, target, cursor, applied, wrote,
          policy, repoExists>>

KeyRow == [val : Repos \cup {""}, quoted : BOOLEAN]
Row    == KeyRow \cup {Comment, Malformed, UnknownKey}

ASSUME RowChoices \subseteq Row

\* other writers are bounded by MaxWrites, each invocation writes at most once
MaxRV == MaxWrites + Cardinality(Editors)

PolicyObj == [repo : Repos \cup {None}, other : 0..MaxWrites, rv : 0..MaxRV]

Pcs == {"init", "get", "editor", "apply", "done", "failed"}

\* buildEditorContent: one row `backupRepoName=<repo>` when the field is set
\* (getValueWithJsonpath returns nil for a nil pointer and the row is skipped).
buildEditorContent(o) ==
  IF o.repo = None THEN << >> ELSE << [val |-> o.repo, quoted |-> FALSE] >>

\* Mutant: "" is stored as the repo name instead of clearing the pointer.
updateRepoNameKeepEmpty(o, v) == [o EXCEPT !.repo = v]

\* updateRepoName: "" clears the field, any other value must name an
\* existing repo (checked with a Get at the moment the row is applied).
updateRepoName(o, v) == [o EXCEPT !.repo = IF v = "" THEN None ELSE v]

RepoCheckPasses(v) == v = "" \/ repoExists[v]

-----------------------------------------------------------------------------
(* complete(args): exactly one positional argument names the policy.      *)
complete(e) ==
  /\ pc[e] = "init"
  /\ \E nargs \in 0..2 :
       IF nargs = 1
       THEN \E p \in Policies : /\ name' = [name EXCEPT ![e] = p]
                                /\ pc' = [pc EXCEPT ![e] = "get"]
       ELSE /\ pc' = [pc EXCEPT ![e] = "failed"]
            /\ UNCHANGED name
  /\ UNCHANGED <<values, obj, fetched, original, target, cursor, applied, wrote,
                 policy, repoExists>>

(* runEditBackupPolicy: GetResourceObjectFromGVR, then the editor when no  *)
(* --set values were given, else applyChanges directly.                    *)
runEditBackupPolicy(e) ==
  LET p == policy[name[e]] IN
  /\ pc[e] = "get"
  /\ IF p.exists
     THEN /\ obj' = [obj EXCEPT ![e] = [repo |-> p.repo, other |-> p.other, rv |-> p.rv]]
          /\ fetched' = [fetched EXCEPT ![e] = obj'[e]]
          /\ pc' = [pc EXCEPT ![e] = IF values[e] = << >> THEN "editor" ELSE "apply"]
     ELSE /\ pc' = [pc EXCEPT ![e] = "failed"]
          /\ UNCHANGED <<obj, fetched>>
  /\ UNCHANGED <<name, values, original, target, cursor, applied, wrote,
                 policy, repoExists>>

(* runWithEditor: buildEditorContent fills o.original, then the editor     *)
(* returns the user's text (split into rows) or fails.                     *)
runWithEditor(e) ==
  /\ pc[e] = "editor"
  /\ original' = [original EXCEPT ![e] = buildEditorContent(obj[e])]
  /\ \/ /\ pc' = [pc EXCEPT ![e] = "failed"]
        /\ UNCHANGED values
     \/ \E edited \in BoundedSeq(RowChoices, MaxRows) :
          /\ values' = [values EXCEPT ![e] = edited]
          /\ pc' = [pc EXCEPT ![e] = "apply"]
  /\ UNCHANGED <<name, obj, fetched, target, cursor, applied, wrote, policy, repoExists>>

(* Mutant: a bad row is skipped (`continue`) instead of ending the edit.  *)
applyRowSkipBad(e) ==
  LET row == values[e][cursor[e]] IN
  /\ pc[e] = "apply"
  /\ cursor[e] <= Len(values[e])
  /\ cursor' = [cursor EXCEPT ![e] = @ + 1]
  /\ IF row \in KeyRow /\ RepoCheckPasses(row.val)
     THEN /\ obj' = [obj EXCEPT ![e] = updateRepoName(@, row.val)]
          /\ applied' = [applied EXCEPT ![e] = @ \cup {cursor[e]}]
          /\ target' = [target EXCEPT ![e] = Append(@, row)]
     ELSE UNCHANGED <<obj, applied, target>>
  /\ UNCHANGED <<pc, name, values, fetched, original, wrote, policy, repoExists>>

(* One iteration of the loop of applyChanges: skip comments, append the   *)
(* row to o.target, reject a malformed row or an unknown key, run the      *)
(* row's updateFunc (which Gets the repo) and fail on its error.           *)
applyRow(e) ==
  LET row == values[e][cursor[e]] IN
  /\ pc[e] = "apply"
  /\ cursor[e] <= Len(values[e])
  /\ cursor' = [cursor EXCEPT ![e] = @ + 1]
  /\ IF row = Comment
     THEN UNCHANGED <<pc, obj, target, applied>>
     ELSE /\ target' = [target EXCEPT ![e] = Append(@, row)]
          /\ IF row \in KeyRow /\ RepoCheckPasses(row.val)
             THEN /\ obj' = [obj EXCEPT ![e] = updateRepoName(@, row.val)]
                  /\ applied' = [applied EXCEPT ![e] = @ \cup {cursor[e]}]
                  /\ UNCHANGED pc
             ELSE /\ pc' = [pc EXCEPT ![e] = "failed"]
                  /\ UNCHANGED <<obj, applied>>
  /\ UNCHANGED <<name, values, fetched, original, wrote, policy, repoExists>>

(* Mutant: the request carries no resource version (an unconditional     *)
(* update, as when a fresh object is built instead of the fetched one).  *)
UpdateRequestUnversioned(e) == [obj[e] EXCEPT !.rv = policy[name[e]].rv]

(* The request applyChanges sends: the whole fetched object, metadata     *)
(* (and so its resource version) included.                                 *)
UpdateRequest(e) == obj[e]

(* End of applyChanges: "updated (no change)" when o.original equals      *)
(* o.target, else Update.  The API server rejects a missing policy or a   *)
(* stale resource version; a no-op update keeps the resource version.     *)
applyChanges(e) ==
  LET req == UpdateRequest(e)
      cur == policy[name[e]]
      new == [exists |-> TRUE, repo |-> req.repo, other |-> req.other,
              rv |-> IF req.repo = cur.repo /\ req.other = cur.other
                     THEN cur.rv ELSE cur.rv + 1]
  IN
  /\ pc[e] = "apply"
  /\ cursor[e] > Len(values[e])
  /\ IF original[e] = target[e]
     THEN /\ pc' = [pc EXCEPT ![e] = "done"]
          /\ UNCHANGED <<wrote, policy>>
     ELSE /\ wrote' = [wrote EXCEPT ![e] = TRUE]
          /\ IF cur.exists /\ req.rv = cur.rv
             THEN /\ policy' = [policy EXCEPT ![name[e]] = new]
                  /\ pc' = [pc EXCEPT ![e] = "done"]
             ELSE /\ pc' = [pc EXCEPT ![e] = "failed"]
                  /\ UNCHANGED policy
  /\ UNCHANGED <<name, values, obj, fetched, original, target, cursor, applied,
                 repoExists>>

-----------------------------------------------------------------------------
(* Other API clients: another tool writes a field of the policy, deletes   *)
(* it, or creates/deletes a backup repo.                                   *)
OtherWrite(p) ==
  /\ policy[p].exists
  /\ policy[p].other < MaxWrites
  /\ policy' = [policy EXCEPT ![p].other = @ + 1, ![p].rv = @ + 1]
  /\ UNCHANGED <<pc, name, values, obj, fetched, original, target, cursor, applied,
                 wrote, repoExists>>

DeletePolicy(p) ==
  /\ policy[p].exists
  /\ policy' = [policy EXCEPT ![p].exists = FALSE]
  /\ UNCHANGED <<pc, name, values, obj, fetched, original, target, cursor, applied,
                 wrote, repoExists>>

ToggleRepo(r) ==
  /\ repoExists' = [repoExists EXCEPT ![r] = ~@]
  /\ UNCHANGED <<pc, name, values, obj, fetched, original, target, cursor, applied,
                 wrote, policy>>

-----------------------------------------------------------------------------
Init ==
  /\ pc = [e \in Editors |-> "init"]
  /\ name \in [Editors -> Policies]
  /\ values \in [Editors -> BoundedSeq(RowChoices, MaxRows)]
  /\ obj = [e \in Editors |-> [repo |-> None, other |-> 0, rv |-> 0]]
  /\ fetched = obj
  /\ original = [e \in Editors |-> << >>]
  /\ target = [e \in Editors |-> << >>]
  /\ cursor = [e \in Editors |-> 1]
  /\ applied = [e \in Editors |-> {}]
  /\ wrote = [e \in Editors |-> FALSE]
  /\ \E r0 \in Repos \cup {None} :
       policy = [p \in Policies |-> [exists |-> TRUE, repo |-> r0, other |-> 0, rv |-> 0]]
  /\ repoExists \in [Repos -> BOOLEAN]

Next ==
  \/ \E e \in Editors :
       \/ complete(e)
       \/ runEditBackupPolicy(e)
       \/ runWithEditor(e)
       \/ applyRow(e)
       \/ applyChanges(e)
  \/ \E p \in Policies : OtherWrite(p) \/ DeletePolicy(p)
  \/ \E r \in Repos : ToggleRepo(r)

Spec == Init /\ [][Next]_vars

-----------------------------------------------------------------------------
TypeOK ==
  /\ pc \in [Editors -> Pcs]
  /\ name \in [Editors -> Policies]
  /\ values \in [Editors -> BoundedSeq(Row, MaxRows)]
  /\ obj \in [Editors -> PolicyObj]
  /\ fetched \in [Editors -> PolicyObj]
  /\ original \in [Editors -> BoundedSeq(KeyRow, 1)]
  /\ target \in [Editors -> BoundedSeq(Row, MaxRows)]
  /\ cursor \in [Editors -> 1..MaxRows + 1]
  /\ applied \in [Editors -> SUBSET (1..MaxRows)]
  /\ wrote \in [Editors -> BOOLEAN]
  /\ policy \in [Policies -> [exists : BOOLEAN, repo : Repos \cup {None},
                              other : 0..MaxWrites, rv : 0..MaxRV]]
  /\ repoExists \in [Repos -> BOOLEAN]

(* No lost update.  Fields of a policy written by another client are never *)
(* reverted by an edit: the edit sends the object it fetched before the    *)
(* editor session, so between its Get and its Update another writer may    *)
(* have changed the policy; the resource version sent with the object is   *)
(* what makes that Update fail instead of restoring the old fields.        *)
NoLostUpdate ==
  [][\A p \in Policies : policy'[p].other >= policy[p].other]_policy

(* Fail fast (spec section 8): applyChanges runs no updateFunc for a row   *)
(* after a malformed row or an unknown key, and an edit whose text holds  *)
(* such a row sends no Update at all, so nothing is partially written.    *)
BadRow(r) == r \in {Malformed, UnknownKey}

FailFastNoPartialWrite ==
  \A e \in Editors :
    /\ \A i \in applied[e] : \A j \in 1..i - 1 : ~BadRow(values[e][j])
    /\ wrote[e] => \A j \in 1..Len(values[e]) : ~BadRow(values[e][j])

(* Spec 4.5/8: when the rows applied are exactly the rows that render the  *)
(* policy as fetched (the before and after texts are the same) the edit    *)
(* makes no write call and reports "no change".                            *)
NoWriteWhenUnchanged ==
  \A e \in Editors : wrote[e] => target[e] # buildEditorContent(fetched[e])

(* Refinement.  An edit, however its Get, editor session and row-by-row   *)
(* applyChanges interleave with other invocations and other writers, is   *)
(* one atomic write of the repo its text asks for (the last key row wins, *)
(* "" clears the field) over the policy as it then is, or no write at all. *)
(* It is the resource version of the fetched object that makes the        *)
(* Update atomic: without it the write would carry stale other fields.    *)
\* the intent of a row: its repo, None for "", Malformed for a bad row
RowIntent(r) ==
  IF r \in KeyRow THEN IF r.val = "" THEN None ELSE r.val ELSE Malformed

TextIntents(rows) ==
  LET kept == SelectSeq(rows, LAMBDA r : r # Comment)
  IN [k \in 1..Len(kept) |-> RowIntent(kept[k])]

Register == INSTANCE PolicyRegister WITH
  Bad <- Malformed,
  policy <- [p \in Policies |->
               [exists |-> policy[p].exists, repo |-> policy[p].repo,
                other |-> policy[p].other]],
  status <- [e \in Editors |-> IF pc[e] \in {"done", "failed"} THEN pc[e] ELSE "editing"],
  req <- [e \in Editors |-> [policy |-> name[e], text |-> TextIntents(values[e])]]

ImplementsPolicyRegister == Register!Spec
=============================================================================
