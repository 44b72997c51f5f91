---------------------------- MODULE MCMeasurement ----------------------------
(***************************************************************************)
(* getUser and updateUserName of the examples, over two processes.         *)
(***************************************************************************)
EXTENDS Measurement, TLC

Symmetry == Permutations(Request)
=============================================================================
