---------------------------- MODULE MCDocPipeline ----------------------------
(***************************************************************************)
(* Instances of DocPipeline for TLC.                                       *)
(***************************************************************************)
EXTENDS DocPipeline

\* The user interface offers a replacement or a skip for an unsupported document.
OfferedFor == {CLASSIFICATION_FAILED}

==============================================================================
