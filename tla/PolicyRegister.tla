--------------------------- MODULE PolicyRegister ---------------------------
(***************************************************************************)
(* What `kbcli cluster edit-backup-policy` promises, with its steps,       *)
(* resource versions and editor session hidden: each invocation first      *)
(* prepares a request (the policy and the rows of its text), then ends     *)
(* either without touching the server or with one atomic write that sets   *)
(* backupRepoName to what the text asks for and keeps every other field as *)
(* the server has it at that moment.  Other clients write other fields and *)
(* delete policies at any time.                                            *)
(*                                                                         *)
(* A row of the text is its intent: a repo, None (the row clears the       *)
(* field) or Bad (a row applyChanges refuses).  Comment rows are dropped.  *)
(***************************************************************************)
EXTENDS Naturals, Sequences

CONSTANTS Editors, Policies, Repos, None, Bad

Intents == Repos \cup {None, Bad}

Request == [policy : Policies, text : Seq(Intents)]

VARIABLES
  policy,   \* policy[p] = [exists, repo, other]
  status,   \* status[e]: "editing", "done" or "failed"
  req       \* req[e]: the request invocation e is preparing

vars == <<policy, status, req>>

Init ==
  /\ policy \in [Policies -> [exists : BOOLEAN, repo : Repos \cup {None}, other : Nat]]
  /\ status = [e \in Editors |-> "editing"]
  /\ req \in [Editors -> Request]

\* the user picks the policy and writes the text
Prepare(e) ==
  /\ status[e] = "editing"
  /\ req' \in [Editors -> Request]
  /\ \A f \in Editors \ {e} : req'[f] = req[f]
  /\ UNCHANGED <<policy, status>>

\* the repo a text asks for: its last row, or the current one if it has none
Intended(t, cur) == IF t = << >> THEN cur ELSE t[Len(t)]

\* the one write of an edit, atomic, only of a text without a bad row
Commit(e) ==
  LET p == req[e].policy
      t == req[e].text
  IN /\ status[e] = "editing"
     /\ policy[p].exists
     /\ \A k \in 1..Len(t) : t[k] # Bad
     /\ policy' = [policy EXCEPT ![p].repo = Intended(t, @)]
     /\ status' = [status EXCEPT ![e] = "done"]
     /\ UNCHANGED req

\* an edit that ends without a write
Finish(e) ==
  /\ status[e] = "editing"
  /\ status' \in {[status EXCEPT ![e] = s] : s \in {"done", "failed"}}
  /\ UNCHANGED <<policy, req>>

OtherWrite(p) ==
  /\ policy[p].exists
  /\ policy' = [policy EXCEPT ![p].other = @ + 1]
  /\ UNCHANGED <<status, req>>

Delete(p) ==
  /\ policy[p].exists
  /\ policy' = [policy EXCEPT ![p].exists = FALSE]
  /\ UNCHANGED <<status, req>>

Next ==
  \/ \E e \in Editors : Prepare(e) \/ Commit(e) \/ Finish(e)
  \/ \E p \in Policies : OtherWrite(p) \/ Delete(p)

Spec == Init /\ [][Next]_vars
=============================================================================
