--------------------------- MODULE MCSqlTransact ---------------------------
(* Instances of SqlTransact for TLC.  Time unit: five minutes.             *)
EXTENDS SqlTransact, TLC

Symmetry == Permutations(Handlers)
=============================================================================
