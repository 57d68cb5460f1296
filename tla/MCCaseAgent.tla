---------------------------- MODULE MCCaseAgent ----------------------------
(***************************************************************************)
(* Instances of CaseAgent for TLC.                                         *)
(***************************************************************************)
EXTENDS CaseAgent, TLC

AnyWorker == Permutations(Workers)
=============================================================================
