----------------------------- MODULE MCCircles -----------------------------
(* The circle model on small instances. *)
EXTENDS Circles, TLC

MemberSymmetry == Permutations(Member)
=============================================================================
