---------------------------- MODULE MCAcoustic ----------------------------
(* Two people, one of them with two signals, in one cluster. *)
EXTENDS Acoustic

CONSTANTS a, b, c, p1, p2, f1, f2, x, r1, r2, k1

PubkeyOf == [s \in Signal |-> IF s = a THEN p1 ELSE p2]
FingerprintOf == [s \in Signal |-> IF s = b THEN f2 ELSE f1]
ClusterOf == [s \in Signal |-> x]
ConfidenceOf == [s \in Signal |-> IF s = c THEN 60 ELSE IF s = b THEN 85 ELSE 90]
VarianceOf == [s \in Signal |-> IF s = c THEN 10 ELSE 0]
=============================================================================
