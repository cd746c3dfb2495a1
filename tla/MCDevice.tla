------------------------------ MODULE MCDevice ------------------------------
(* Instances for TLC of the two modules about the state the mini program    *)
(* keeps around its uploads: the batches and the upload page.  They share   *)
(* no variable, so one run explores them side by side: a behaviour is that  *)
(* of one of them, the other staying where it begins.  The properties are   *)
(* those of the modules.                                                    *)
EXTENDS MCUploadBatch, UploadPage, TLC

VARIABLE side

Symmetry == Permutations(Files)

vars == <<side, batchVars, pageVars>>

Init == side \in {"batch", "page"} /\ BatchInit /\ PageInit

Next ==
  \/ side = "batch" /\ BatchNext /\ UNCHANGED <<side, pageVars>>
  \/ side = "page" /\ PageNext /\ UNCHANGED <<side, batchVars>>

Spec == Init /\ [][Next]_vars

(* The variables of both modules have their types.                         *)
TypeOK == BatchTypeOK /\ PageTypeOK
=============================================================================
