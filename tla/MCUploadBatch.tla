---------------------------- MODULE MCUploadBatch ----------------------------
(* Instances of UploadBatch for TLC. *)
EXTENDS UploadBatch

(* Attempts 1 and 3 are of files with the same name and size.              *)
TwoLooks == [a \in Attempts |-> IF a = 2 THEN 2 ELSE 1]
=============================================================================
