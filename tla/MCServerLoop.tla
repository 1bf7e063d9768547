---------------------------- MODULE MCServerLoop ----------------------------
(***************************************************************************)
(* Instances of ServerLoop for TLC.                                        *)
(***************************************************************************)
EXTENDS ServerLoop, TLC

CONSTANTS w1, w2

WorkerSymmetry == Permutations(Worker)
=============================================================================
