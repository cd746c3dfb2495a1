--------------------------- MODULE MCSpoolDelivery ---------------------------
(***************************************************************************)
(* Instances of SpoolDelivery for TLC: a client that may send two versions *)
(* of the first part, and one of the second.                               *)
(***************************************************************************)
EXTENDS SpoolDelivery, TLC

CONSTANTS a, b, c, r1, r2a, w1, w2

Contents == {a, b, c}
Versions == <<{a, b}, {c}>>
FirstPart == {1}
SecondPart == {2}
OneRequest == {r1}
TwoRequests == {r1, r2a}
OneWorker == {w1}
TwoWorkers == {w1, w2}
=============================================================================
