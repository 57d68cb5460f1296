---------------------------- MODULE MCCaseStore ----------------------------
(***************************************************************************)
(* Instances of CaseStore for TLC.                                         *)
(***************************************************************************)
EXTENDS CaseStore, TLC

AnyName == Permutations(Names)
=============================================================================
