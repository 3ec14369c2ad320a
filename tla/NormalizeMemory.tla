--------------------------- MODULE NormalizeMemory ---------------------------
(***************************************************************************)
(* The MEMORY column of `kbcli class list`: printClass prints one row per  *)
(* class, its memory through normalizeMemory                               *)
(* (src/pkg/cmd/class/list.go 86-120).                                     *)
(*                                                                         *)
(* A quantity is its MilliValue M, an integer.  Its canonical text ends in *)
(* "m" exactly when M is not a whole number of bytes; otherwise the text   *)
(* is printed unchanged.  For the "m" case the code computes               *)
(*   bytes = M/1000, value = bytes / 1024^k (k = 1..4 by the size of bytes)*)
(* and prints TrimRight(Sprintf("%.3f", value), "0") + suffix.  In         *)
(* integers the %.3f digits are round(M / 1024^k) thousandths of the unit. *)
(* A quotient exactly halfway between two thousandths is not exact in      *)
(* float64, so which way it rounds depends on the representation error:    *)
(* both outcomes are allowed.                                              *)
(*                                                                         *)
(* A text is [int, dot, frac, suffix]: the integer digits as a number,     *)
(* whether a '.' follows, the digits after it, and the unit suffix.        *)
(* The module has operators only; ClassList prints them, and checks the    *)
(* texts it prints with WithinRounding, the reference definition.         *)
(***************************************************************************)
EXTENDS Naturals, Sequences, FiniteSets

CONSTANT Inputs   \* MilliValues of the classes' memory (below 2^30, so that
                  \* every product below fits TLC's 32-bit integers)

ASSUME Inputs \subseteq 0..(2^30 - 1)

Suffixes == <<"Ki", "Mi", "Gi", "Ti">>

Pow1024(k) == 1024 ^ k

\* the case of the switch: the first k with bytes < 1024^k, else 4
\* (m/1000 < 1024^k iff m \div 1000 < 1024^k, the bound being whole)
UnitIndex(m) ==
  LET ks == {k \in 1..3 : m \div 1000 < Pow1024(k)}
  IN IF ks = {} THEN 4 ELSE CHOOSE k \in ks : \A j \in ks : k <= j

\* Sprintf("%.3f", m / 1000 / d) in thousandths: rounded to nearest, a
\* tie either way
Thousandths(m, d) ==
  IF 2 * (m % d) = d THEN {m \div d, m \div d + 1}
  ELSE {m \div d + (IF 2 * (m % d) > d THEN 1 ELSE 0)}

\* strings.TrimRight(s, "0") on the digits after the point: it stops at
\* the '.', which stays
RECURSIVE TrimZeros(_)
TrimZeros(ds) ==
  IF ds # << >> /\ ds[Len(ds)] = 0 THEN TrimZeros(SubSeq(ds, 1, Len(ds) - 1)) ELSE ds

FormatFixed3(t, suffix) ==
  [int |-> t \div 1000, dot |-> TRUE,
   frac |-> TrimZeros(<< (t % 1000) \div 100, (t % 100) \div 10, t % 10 >>),
   suffix |-> suffix]

\* Mutant: the Mi case keeps the suffix of the Ki case.
normalizeMemorySuffixKi(m) ==
  IF m % 1000 = 0
  THEN {[int |-> m \div 1000, dot |-> FALSE, frac |-> << >>, suffix |-> ""]}
  ELSE LET k == UnitIndex(m)
       IN {FormatFixed3(t, Suffixes[IF k = 2 THEN 1 ELSE k]) : t \in Thousandths(m, Pow1024(k))}

\* normalizeMemory: the texts the function may return for MilliValue m
normalizeMemory(m) ==
  IF m % 1000 = 0
  THEN {[int |-> m \div 1000, dot |-> FALSE, frac |-> << >>, suffix |-> ""]}
  ELSE LET k == UnitIndex(m)
       IN {FormatFixed3(t, Suffixes[k]) : t \in Thousandths(m, Pow1024(k))}

-----------------------------------------------------------------------------
\* the value a text stands for, in thousandths of its unit
TextThousandths(t) ==
  t.int * 1000 + (IF Len(t.frac) >= 1 THEN t.frac[1] * 100 ELSE 0)
               + (IF Len(t.frac) >= 2 THEN t.frac[2] * 10 ELSE 0)
               + (IF Len(t.frac) >= 3 THEN t.frac[3] ELSE 0)

UnitOf(t) == CHOOSE k \in 1..4 : Suffixes[k] = t.suffix

\* a text read back with its unit differs from the MilliValue m by at most
\* half a unit in the last printed place
WithinRounding(t, m) ==
  t.suffix # "" =>
    LET d == Pow1024(UnitOf(t))
        p == TextThousandths(t) * d
    IN 2 * (IF p >= m THEN p - m ELSE m - p) <= d
=============================================================================
