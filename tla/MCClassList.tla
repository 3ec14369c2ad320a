---------------------------- MODULE MCClassList ----------------------------
(* The MEMORY column is checked over MilliValues around every place where  *)
(* the text changes shape: fractions of a byte, the whole-byte values      *)
(* printed unchanged, the Ki/Mi and Mi/Gi boundaries where the rounded     *)
(* value reaches 1.000, and exact decimals such as 0.1Mi.  The command is  *)
(* run on one cluster definition with two components, whose classes are   *)
(* any subset of two (one with more CPU), plus one class with the CPU of *)
(* the first and any memory of MCInputs: ties with it, either memory      *)
(* order and the CPU order all occur.                                      *)
EXTENDS ClassList

Near(c, r) == (c - r)..(c + r)

MCInputs ==
  0..2100
  \cup Near(1023488, 40) \cup Near(1024000, 20)
  \cup Near(104857600, 20)
  \cup Near(1048051712, 20) \cup Near(1048576000, 20)
  \cup {1073741823}

Cls(n, c, m) == [name |-> n, cpu |-> c, mem |-> m]

MCClassChoices ==
  { Cls("general", 1000, 1024000), Cls("large", 2000, 1024000) }

MCProbe == [name |-> "custom", cpu |-> 1000]
=============================================================================
