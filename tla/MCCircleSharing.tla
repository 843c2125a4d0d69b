-------------------------- MODULE MCCircleSharing ---------------------------
(* What a circle's members see of one another, in one run: a behaviour is one  *)
(* of CircleLive (the established circle of MCCircleLive) or one of            *)
(* LocationShare (one other member, one event, one change of membership or     *)
(* epoch; two inputs, a fault and three ticks, or three inputs and two ticks).  *)
EXTENDS MCCircleLive, LocationShare

PlansOfAMember == {[inputs |-> 2, now |-> 3, faults |-> 1], [inputs |-> 3, now |-> 2, faults |-> 0]}

AlertPlaces == {2, 3} \X {"fire"}

VARIABLE part  \* which of the parts the behaviour is about

all == <<part, <<vars, live>>, sharingVars>>

ASSUME SharingParameters == Parameters

InitAll ==
  /\ part \in {"live", "sharing"}
  /\ Established
  /\ SharingInit /\ (part # "sharing" => plan.inputs = 2)

LiveSteps == part = "live" /\ NextLive /\ UNCHANGED <<part, sharingVars>>
SharingSteps == part = "sharing" /\ SharingNext /\ UNCHANGED <<part, <<vars, live>>>>

NextAll == LiveSteps \/ SharingSteps

SpecAll == InitAll /\ [][NextAll]_all
           /\ ([]<>(part # "live") \/ Fairness)
           /\ ([]<>(part # "sharing") \/ SharingFairness)
=============================================================================
