---------------------------- MODULE MCUploadRunner ----------------------------
(* Instances of UploadRunner for TLC; the constants are numbers. *)
EXTENDS UploadRunner
=============================================================================
