--------------------------- MODULE MCEnsureBroker ---------------------------
(***************************************************************************)
(* EnsureBroker for TLC.                                                   *)
(***************************************************************************)
EXTENDS EnsureBroker, TLC

SymmetryOfProcs == Permutations(Procs) \cup Permutations(Brokers)
=============================================================================
