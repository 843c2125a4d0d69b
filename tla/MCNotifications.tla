-------------------------- MODULE MCNotifications ---------------------------
(* Push notifications on both sides, in one run: a behaviour is one of           *)
(* PushOutbox (MCPushOutbox' instance) or of PushClient (two perimeters, four    *)
(* runs, one reload).                                                            *)
EXTENDS MCPushOutbox, PushClient

VARIABLE part  \* which of the parts the behaviour is about

all == <<part, vars, browserVars>>

InitAll ==
  /\ part \in {"outbox", "browser"}
  /\ Init
  /\ BrowserInit

OutboxSteps == part = "outbox" /\ Next /\ UNCHANGED <<part, browserVars>>
BrowserSteps == part = "browser" /\ BrowserNext /\ UNCHANGED <<part, vars>>
\* A page may be left alone for good; the workers of the outbox go on.
Rest == part = "browser" /\ UNCHANGED all

NextAll == OutboxSteps \/ BrowserSteps \/ Rest

SpecAll == InitAll /\ [][NextAll]_all
           /\ ([]<>(part # "outbox") \/ Fairness)
=============================================================================
