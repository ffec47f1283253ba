------------------------------ MODULE Volumes ------------------------------
(***************************************************************************)
(* The geometry of the DSS: unions of S2 cells and time intervals.         *)
(*                                                                         *)
(* Every area the DSS receives is covered by cells of level 13 (Leaf).     *)
(* The S2 library may replace a full set of sibling cells by their parent  *)
(* (Coarse), and the stores compare cells by identifier, so the model has  *)
(* both levels.  A level-13 cell has three siblings in S2; how many        *)
(* Children a coarse cell has here is a parameter.                         *)
(***************************************************************************)
EXTENDS Integers

CONSTANTS Leaf,      \* cells of the level requests are covered with
          Coarse,    \* cells one level up
          Children   \* Children[p]: the leaf cells a coarse cell consists of

ASSUME CellsAssumption ==
  /\ Leaf \cap Coarse = {}
  /\ Children \in [Coarse -> SUBSET Leaf]
  /\ \A p, q \in Coarse : p # q => Children[p] \cap Children[q] = {}

CellUnions == SUBSET (Leaf \cup Coarse)

\* geo.Levelify: back to leaf cells.
Levelify(cu) == (cu \cap Leaf) \cup UNION {Children[p] : p \in cu \cap Coarse}

\* s2.CellUnionFromUnion: the union, full sets of siblings replaced by their parent.
CellUnionFromUnion(cu1, cu2) ==
  LET leaves == Levelify(cu1 \cup cu2)
      full   == {p \in Coarse : Children[p] \subseteq leaves}
  IN  full \cup {c \in leaves : \A p \in full : c \notin Children[p]}

\* s2.CellUnion.Contains, which sees through the levels.
Contains(cu1, cu2) == Levelify(cu2) \subseteq Levelify(cu1)

\* The stores' overlap test (SQL "cells && $1"): identifiers in common.
Overlaps(cu1, cu2) == cu1 \cap cu2 # {}

\* Closed time intervals; both arguments are records with start and end.
OverlapsTime(r1, r2) == r1.start <= r2.end /\ r1.end >= r2.start

Earlier(t1, t2) == IF t1 <= t2 THEN t1 ELSE t2
Later(t1, t2)   == IF t1 >= t2 THEN t1 ELSE t2

\* UnionCellsVolumes4D of two bounded volumes, as far as subscriptions see it.
UnionVolume(v1, v2) ==
  [cells |-> Levelify(CellUnionFromUnion(v1.cells, v2.cells)),
   start |-> Earlier(v1.start, v2.start),
   end   |-> Later(v1.end, v2.end)]
=============================================================================
