---------------------------- MODULE MCVoteLocks ----------------------------
(* Users 1, 2 and 4 have a report each; 3 is new and votes twice.  1 and 2   *)
(* vote on each other's reports, 4 on both, and 3 files a report meanwhile.  *)
EXTENDS VoteLocks

CONSTANTS r1, r2, r4, v12, v21, v41, v32, v34, c3

Authors == [r \in Report |-> CASE r = r1 -> 1 [] r = r2 -> 2 [] r = r4 -> 4]
Callers == [t \in Tx |-> CASE t = v12 -> 1 [] t = v21 -> 2 [] t = v41 -> 4
                           [] t \in {v32, v34, c3} -> 3]
Targets == [t \in Vote |-> CASE t \in {v12, v32} -> r2 [] t \in {v21, v41} -> r1
                             [] t = v34 -> r4]
=============================================================================
