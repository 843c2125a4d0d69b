------------------------------- MODULE MCChat -------------------------------
(* An instance of Chat for TLC: one direct room, the room of one circle, and  *)
(* one channel with three events, the third the newest and the second the     *)
(* oldest; one of them fails its checks.                                      *)
EXTENDS Chat, TLC

CONSTANTS dm, c1, general, w1, w3

MCRoom == (w1 :> dm) @@ (w3 :> c1)
MCFirstPeer == [c \in CircleRoom |-> dm]
MCChannelOf == [e \in 1..3 |-> general]
MCCreatedAt == <<3, 2, 4>>
=============================================================================
