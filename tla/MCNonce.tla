------------------------------ MODULE MCNonce ------------------------------
(* Model values and symmetry for the TLC runs of NonceManager.            *)
EXTENDS NonceManager, TLC

CallerSymmetry == Permutations(Callers)
=============================================================================
