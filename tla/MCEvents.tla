------------------------------ MODULE MCEvents ------------------------------
(* Three readable entries: the first two are two sources on one channel, the *)
(* last brings the first source again on another channel.                    *)
EXTENDS Events

CONSTANTS bbc, kbc, rss, radio

Sources == [e \in Entry |-> IF e = 3 THEN kbc ELSE bbc]
Channels == [e \in Entry |-> IF e = 4 THEN radio ELSE rss]
=============================================================================
