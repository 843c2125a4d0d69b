------------------------- MODULE MCAcousticSignals -------------------------
(* The acoustic side, client and gateway, in one run: a behaviour is one of   *)
(* the gateway's synthesis (MCAcoustic's instance) or one of the overlay that *)
(* listens (two openings, two windows, the page hidden twice).                *)
EXTENDS MCAcoustic, Listening

SoundsHeard == {<<0, 1>>, <<2, 3>>, <<2, 2>>}

VARIABLE part  \* which of the two the behaviour is about

all == <<part, vars, listenVars>>

InitAll == part \in {"synthesis", "listening"} /\ Init /\ ListenInit

SynthesisSteps == part = "synthesis" /\ Next /\ UNCHANGED <<part, listenVars>>
ListeningSteps == part = "listening" /\ ListenNext /\ UNCHANGED <<part, vars>>
\* The overlay may be left alone for good; the gateway must always go on.
Rest == part = "listening" /\ UNCHANGED all

NextAll == SynthesisSteps \/ ListeningSteps \/ Rest

SpecAll == InitAll /\ [][NextAll]_all /\ ([]<>(part = "listening") \/ Fairness)
=============================================================================
