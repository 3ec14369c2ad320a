----------------------------- MODULE ClassList -----------------------------
(***************************************************************************)
(* `kbcli class list --cluster-definition D`                               *)
(* (src/pkg/cmd/class/list.go 53-95).                                      *)
(*                                                                         *)
(* The command needs its one flag, gets a dynamic client, then GetManager  *)
(* reads the component classes of D from the API server (one call); run   *)
(* then prints one table per component, ranging over a Go map (in an      *)
(* order that differs from run to run), each table sorted with             *)
(* class.ByClassResource and its MEMORY column printed by normalizeMemory. *)
(* GetManager and ByClassResource are outside the repository: the first    *)
(* returns the classes of each component or fails, the second orders by   *)
(* CPU, then memory, and is not stable (sort.Sort).                        *)
(*                                                                         *)
(* A class is [name, cpu, mem] with cpu in millicores and mem a            *)
(* MilliValue; a row is [comp, name, cpu, mem] with mem a text of          *)
(* NormalizeMemory.                                                        *)
(***************************************************************************)
EXTENDS NormalizeMemory, FiniteSets, Functions

CONSTANTS
  ClusterDefs,   \* cluster definition names
  Components,    \* component names
  ClassChoices,  \* the classes a component may define
  Probe,         \* [name, cpu] of one more class, of any memory in Inputs
  NoName         \* the flag left out

VARIABLES
  pc,        \* step of the command
  defRef,    \* o.ClusterDefRef, from --cluster-definition
  classes,   \* API server: classes[d][c], the classes of component c of d
  out        \* the tables printed: a sequence of [comp, rows]

vars == <<pc, defRef, classes, out>>

\* NewListCommand: cobra refuses the command when the required flag is
\* missing, before Run.
Start ==
  /\ pc = "start"
  /\ pc' = IF defRef = NoName THEN "failed" ELSE "complete"
  /\ UNCHANGED <<defRef, classes, out>>

\* complete: f.DynamicClient() may fail
complete ==
  /\ pc = "complete"
  /\ pc' \in {"run", "failed"}
  /\ UNCHANGED <<defRef, classes, out>>

\* ByClassResource: CPU first, then memory
ResourceLeq(a, b) == a.cpu < b.cpu \/ (a.cpu = b.cpu /\ a.mem <= b.mem)

\* the orders sort.Sort may leave the classes in
SortedOrders(S) ==
  {s \in [1..Cardinality(S) -> S] :
     IsInjective(s) /\ \A k \in 1..Cardinality(S) - 1 : ResourceLeq(s[k], s[k + 1])}

\* the texts the MEMORY column may show for the classes s, row by row
MemoryTexts(s) ==
  {t \in [DOMAIN s -> UNION {normalizeMemory(s[k].mem) : k \in DOMAIN s}] :
     \A k \in DOMAIN s : t[k] \in normalizeMemory(s[k].mem)}

Table(c, s, t) ==
  [comp |-> c, rows |-> [k \in DOMAIN s |-> [name |-> s[k].name, cpu |-> s[k].cpu, mem |-> t[k]]]]

\* printClass: the tables it may print for component c with classes S
printClass(c, S) ==
  UNION {{Table(c, s, t) : t \in MemoryTexts(s)} : s \in SortedOrders(S)}

\* the keys of the map GetClasses returns
Keys(d) == {c \in Components : classes[d][c] # {}}

\* run: GetManager fails, or one table per key of the map, in any order
run ==
  /\ pc = "run"
  /\ \/ pc' = "failed" /\ UNCHANGED out
     \/ \E ord \in {f \in [1..Cardinality(Keys(defRef)) -> Keys(defRef)] : IsInjective(f)} :
        \E tabs \in [DOMAIN ord -> UNION {printClass(c, classes[defRef][c]) : c \in Keys(defRef)}] :
          /\ \A k \in DOMAIN ord : tabs[k] \in printClass(ord[k], classes[defRef][ord[k]])
          /\ out' = tabs
          /\ pc' = "done"
  /\ UNCHANGED <<defRef, classes>>

Init ==
  /\ pc = "start"
  /\ defRef \in ClusterDefs \cup {NoName}
  /\ \E base \in [ClusterDefs -> [Components -> SUBSET ClassChoices]],
       c0 \in Components, m \in Inputs :
       classes = [d \in ClusterDefs |-> [base[d] EXCEPT ![c0] =
                    @ \cup {[name |-> Probe.name, cpu |-> Probe.cpu, mem |-> m]}]]
  /\ out = << >>

Next == Start \/ complete \/ run

Spec == Init /\ [][Next]_vars

-----------------------------------------------------------------------------
\* Every MEMORY text a listing prints, read back with its unit, is within
\* half a unit in the last place of its class's memory: the case, the
\* divisor and the suffix normalizeMemory picks agree.
PrintedWithinRounding ==
  \A k \in DOMAIN out : \A j \in DOMAIN out[k].rows :
    \A x \in classes[defRef][out[k].comp] :
      x.name = out[k].rows[j].name => WithinRounding(out[k].rows[j].mem, x.mem)
=============================================================================
