----------------------------- MODULE MCReports -----------------------------
(* Reports with one report by a, three users s1..s3 of standing and five    *)
(* newcomers.  Within states where everything may happen at once the run    *)
(* covers four slices: everybody votes, with and without earned standing;   *)
(* s1 and n1 vouch; the standing of a decays.                               *)
EXTENDS Reports, TLC

CONSTANTS a, s1, s2, s3, n1, n2, n3, n4, n5

Senior == {s1, s2, s3}
ByA == [r \in Report |-> a]
SentinelVoters == [u \in User |-> IF u \in Senior THEN 50 ELSE 0]
FreshKeys == [u \in User |-> 0]
\* a's standing decays; the voters are at the floor and stay there.
DecayingAuthor == [u \in User |-> IF u = a THEN 55 ELSE IF u \in Senior THEN 20 ELSE 0]
Starts == {SentinelVoters, FreshKeys, DecayingAuthor}

Pairs == {<<s1, n1>>, <<s1, n2>>, <<n1, n2>>}

VotersAmong(S) == \A r \in Report : \A u \in User \ S : vote[r][u] = "NONE"
NoTime == \A u \in User : days[u] = 0
NoVouch == vouches \cup issuing = {}

Slices ==
  \/ earned0 # DecayingAuthor /\ NoTime /\ NoVouch
  \/ earned0 = SentinelVoters /\ NoTime /\ VotersAmong({s1, s2, n1, n2})
  \/ earned0 = DecayingAuthor /\ NoVouch /\ VotersAmong(Senior)

Peers == Permutations({s2, s3}) \cup Permutations({n3, n4, n5})
=============================================================================
