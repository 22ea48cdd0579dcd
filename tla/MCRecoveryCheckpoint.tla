------------------------ MODULE MCRecoveryCheckpoint ------------------------
(* Small instances of RecoveryCheckpoint for TLC. *)
EXTENDS RecoveryCheckpoint, TLC

\* Symbols differ in nothing the safety properties can tell apart.
SymbolSymmetry == Permutations(Symbols)
=============================================================================
