--------------------------- MODULE MCUploadSession ---------------------------
(***************************************************************************)
(* Instances of UploadSession for TLC.                                     *)
(***************************************************************************)
EXTENDS UploadSession, TLC

CONSTANTS u1, u2, r1, r2, w1, w2

OneUpload == {u1}
TwoUploads == {u1, u2}
OneRequest == {r1}
TwoRequests == {r1, r2}
OneWorker == {w1}
TwoWorkers == {w1, w2}

Symmetry == Permutations(TwoUploads) \union Permutations(TwoRequests) \union Permutations(TwoWorkers)
=============================================================================
