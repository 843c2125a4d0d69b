--------------------------- MODULE MCCommunityMap ---------------------------
(* Community reports and what a page shows of them and of events, in one run:      *)
(* a behaviour is one of Reports (MCReports' instance and slices), of              *)
(* FieldReports (a list of two, up to three reports), of FieldMap (two places),    *)
(* of LiveMap (two events, a channel of one message) or of EventFeed (two events). *)
EXTENDS MCReports, FieldReports, FieldMap, LiveMap, EventFeed

Plan(p, f, v, b, r, o) ==
  [presses |-> p, forms |-> f, votes |-> v, breaks |-> b, reports |-> r, others |-> o]
PlansOfAPage ==
  {Plan(2, 2, 0, 0, 2, FALSE), Plan(1, 1, 0, 0, 2, TRUE), Plan(0, 1, 1, 1, 2, TRUE), Plan(0, 0, 0, 0, 3, TRUE)}
VisitOf(q, r, s) == [queries |-> q, requests |-> r, starts |-> s]
VisitsOfAMap == {VisitOf(3, 0, 0), VisitOf(2, 2, 1), VisitOf(0, 0, 2)}

MCRank == [e \in {"e1", "e2"} |-> IF e = "e1" THEN 0 ELSE 2]

VARIABLE part  \* which of the parts the behaviour is about

all == <<part, vars, formVars, mapVars, viewVars, feedVars>>

InitAll ==
  /\ part \in {"reports", "form", "map", "viewport", "feed"}
  /\ Init /\ (part # "reports" => earned0 = FreshKeys)
  /\ FormInit /\ (part # "form" => plan = Plan(1, 1, 0, 0, 2, TRUE) /\ form.open)
  /\ MapInit /\ (part # "map" => visit = VisitOf(0, 0, 2) /\ box.kind = "map" /\ disk = None /\ gps.supported)
  /\ ViewInit
  /\ FeedInit /\ (part # "feed" => \A e \in Alert : feed_rows[e] = Nowhere)

ReportsSteps == part = "reports" /\ Next /\ UNCHANGED <<part, formVars, mapVars, viewVars, feedVars>>
FormSteps == part = "form" /\ FormNext /\ UNCHANGED <<part, vars, mapVars, viewVars, feedVars>>
MapSteps == part = "map" /\ MapNext /\ UNCHANGED <<part, vars, formVars, viewVars, feedVars>>
ViewportSteps == part = "viewport" /\ ViewNext /\ UNCHANGED <<part, vars, formVars, mapVars, feedVars>>
FeedSteps == part = "feed" /\ FeedNext /\ UNCHANGED <<part, vars, formVars, mapVars, viewVars>>

NextAll == ReportsSteps \/ FormSteps \/ MapSteps \/ ViewportSteps \/ FeedSteps

SpecAll == InitAll /\ [][NextAll]_all
=============================================================================
