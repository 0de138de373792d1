----------------------------- MODULE MCPairing -----------------------------
(* The instances of Pairing that TLC checks. *)
EXTENDS Pairing, TLC

\* Client keys are interchangeable: no definition of Pairing names one.
KeySymmetry == Permutations(Key)
=============================================================================
