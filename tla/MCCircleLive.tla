---------------------------- MODULE MCCircleLive ----------------------------
(* Model checking CircleLive from an established circle: every member was
   invited and has accepted, and the owner has committed one epoch. *)
EXTENDS CircleLive

Established ==
  /\ exists = TRUE
  /\ key_epoch = 2
  /\ protocol = 1
  /\ rekey_required = FALSE
  /\ revision = 2 * Cardinality(Member)
  /\ mstate = [m \in Member |-> "ACTIVE"]
  /\ wrap = [m \in Member |-> 2]
  /\ blob = [s \in Sender |-> 0]
  /\ pushes = [s \in Sender |-> 0]
  /\ reads = {}
  /\ commits = {}
  /\ unsent = {}
  /\ granted = [m \in Member |-> {1, 2}]
  /\ InitLive

SpecEstablished == Established /\ [][NextLive]_<<vars, live>> /\ Fairness
=============================================================================
