----------------------------- MODULE EventFeed -----------------------------
(***************************************************************************)
(* The events a client knows (items of store/eventsSlice.ts) under its     *)
(* three feeds: the initial request (hooks/useSafetyDataSync.ts,           *)
(* services/safetyDataApi.ts), NEW_EVENT on the county socket              *)
(* (services/websocket.ts) and the batches of the viewport socket          *)
(* (hooks/useViewportWs.ts); and what the map page selects and centres     *)
(* (pages/LiveMapPage.tsx).                                                *)
(*                                                                         *)
(* An event is a function of field names; 0 is a field that is undefined.  *)
(* Fields the payloads treat alike are one: "trust" stands for what every  *)
(* feed carries, "summary" for what only whole rows carry.                 *)
(***************************************************************************)
EXTENDS Naturals, Sequences, FiniteSets

CONSTANTS
  Alert,       \* event ids
  NoAlert,
  MaxEdits,    \* bound: writes to safety_events
  MaxBatches,  \* bound: viewport batches sent
  MaxClicks    \* bound: what the user does

VARIABLES
  feed_rows,    \* safety_events
  county,       \* NEW_EVENT messages on their way
  batches,      \* viewport batches on their way
  hydration,    \* the initial request
  feed_items,   \* eventsSlice.items
  feed_status,  \* eventsSlice.initialized and error
  eventParam, selectedId, deepLinkFocused,
  camera,      \* target of the last cameraCommand
  used         \* edits, batches and clicks so far

feedServer == <<feed_rows, county>>
mapPage == <<eventParam, selectedId, deepLinkFocused, camera>>
feedVars == <<feedServer, batches, hydration, feed_items, feed_status, mapPage, used>>

Field == {"trust", "updated_at", "summary"}
Nowhere == [f \in Field |-> 0]
Hydrated == [ph |-> "done", events |-> [e \in Alert |-> Nowhere]]

\* A row's trust grows from heuristic (1) to confirmed (3); 0 is no active row.
SafetyEvent(trust, updated_at, summary) ==
  [f \in Field |-> CASE f = "trust" -> trust [] f = "updated_at" -> updated_at
                     [] f = "summary" -> summary]

-----------------------------------------------------------------------------
(* The slice *)

mergeEvent(current, incoming) ==
  [f \in Field |-> IF incoming[f] # 0 THEN incoming[f] ELSE current[f]]

upsertEvent(current, event) ==
  IF /\ current["updated_at"] # 0 /\ event["updated_at"] # 0
     /\ event["updated_at"] < current["updated_at"]
  THEN current
  ELSE mergeEvent(current, event)

eventReceived(its, e, event) == [its EXCEPT ![e] = upsertEvent(@, event)]

FetchedWins(its, events) ==  \* mutant: the answer is upserted like any event
  [e \in Alert |-> IF events[e] = Nowhere THEN its[e] ELSE upsertEvent(its[e], events[e])]

eventsHydrated(its, events) ==
  [e \in Alert |-> IF events[e] = Nowhere THEN its[e]
                   ELSE upsertEvent(its[e], mergeEvent(events[e], its[e]))]

viewportEvents(its, events) ==
  [e \in Alert |-> IF events[e] = Nowhere THEN its[e] ELSE upsertEvent(its[e], events[e])]

eventsHydrationFailed == feed_status' = "error"

-----------------------------------------------------------------------------
(* The map page *)

\* The effect on allEvents and eventParam, after every change of either.
deepLink(its, param) ==
  IF param = NoAlert THEN UNCHANGED <<selectedId, deepLinkFocused, camera>>
  ELSE /\ selectedId' = param
       /\ IF its[param] # Nowhere /\ deepLinkFocused # param
          THEN /\ deepLinkFocused' = param
               /\ camera' = param
          ELSE UNCHANGED <<deepLinkFocused, camera>>

Dispatch(its) == feed_items' = its /\ deepLink(its, eventParam) /\ UNCHANGED eventParam

Click == used.clicks < MaxClicks /\ used' = [used EXCEPT !.clicks = @ + 1]

\* A notification or a shared link opens the page with ?event=e.
followLink(e) ==
  /\ Click
  /\ eventParam' = e
  /\ deepLink(feed_items, e)
  /\ UNCHANGED <<feedServer, batches, hydration, feed_items, feed_status>>

\* A marker or a row of the ledger; NoAlert closes the detail.
selectEvent(e) ==
  /\ Click
  /\ e # NoAlert => feed_items[e] # Nowhere
  /\ selectedId' = e /\ eventParam' = NoAlert
  /\ camera' = IF e # NoAlert THEN e ELSE camera
  /\ UNCHANGED <<feedServer, batches, hydration, feed_items, feed_status, deepLinkFocused>>

MovesTo(target) ==
  /\ Click
  /\ camera' = target
  /\ UNCHANGED <<feedServer, batches, hydration, feed_items, feed_status, eventParam, selectedId,
                 deepLinkFocused>>

focusCluster == MovesTo("cluster")
selectSearchResult == MovesTo("place")
fitRoutePreview == MovesTo("route")

-----------------------------------------------------------------------------
(* The gateway *)

Edit(e, row) ==
  /\ used.edits < MaxEdits
  /\ used' = [used EXCEPT !.edits = @ + 1]
  /\ feed_rows' = [feed_rows EXCEPT ![e] = row]
  /\ UNCHANGED <<batches, hydration, feed_items, feed_status, mapPage>>

Stamp == used.edits + 2

\* handle_message broadcasts the new event without updated_at and summary.
handle_message(e) ==
  /\ feed_rows[e] = Nowhere
  /\ Edit(e, SafetyEvent(1, Stamp, 1))
  /\ county' = Append(county, [id |-> e, event |-> SafetyEvent(1, 0, 0)])

\* create_event broadcasts the row it inserted.
create_event(e) ==
  /\ feed_rows[e] = Nowhere
  /\ Edit(e, SafetyEvent(1, Stamp, 1))
  /\ county' = Append(county, [id |-> e, event |-> SafetyEvent(1, Stamp, 1)])

\* Synthesis raises the trust; the county socket is not told.
promote(e) ==
  /\ feed_rows[e]["trust"] \in 1..2
  /\ Edit(e, [feed_rows[e] EXCEPT !["trust"] = @ + 1, !["updated_at"] = Stamp])
  /\ UNCHANGED county

list_events ==
  /\ hydration.ph = "asked"
  /\ hydration' = [ph |-> "answered", events |-> feed_rows]
  /\ UNCHANGED <<feedServer, batches, feed_items, feed_status, mapPage, used>>

toSafetyEvent(row) == SafetyEvent(row["trust"], 0, 0)

\* INITIAL_BATCH, SNAPSHOT or DIFF_PATCH: LiveMap says when, here any time.
sendBatch(es) ==
  /\ used.batches < MaxBatches
  /\ used' = [used EXCEPT !.batches = @ + 1]
  /\ batches' = Append(batches, [e \in Alert |-> IF e \in es /\ feed_rows[e] # Nowhere
                                                THEN feed_rows[e] ELSE Nowhere])
  /\ UNCHANGED <<feedServer, hydration, feed_items, feed_status, mapPage>>

-----------------------------------------------------------------------------
(* The feeds *)

parseEvent(event) == event["trust"] # 0

eventsOnmessage ==
  /\ county # <<>>
  /\ county' = Tail(county)
  /\ IF parseEvent(Head(county).event)
     THEN Dispatch(eventReceived(feed_items, Head(county).id, Head(county).event))
     ELSE UNCHANGED <<feed_items, mapPage>>
  /\ UNCHANGED <<feed_rows, batches, hydration, feed_status, used>>

\* The county socket breaks; what was on its way is not sent again.
eventsOnclose ==
  /\ county # <<>>
  /\ county' = <<>>
  /\ UNCHANGED <<feed_rows, batches, hydration, feed_items, feed_status, mapPage, used>>

onbatch ==
  /\ batches # <<>>
  /\ batches' = Tail(batches)
  /\ Dispatch(viewportEvents(feed_items, [e \in Alert |-> toSafetyEvent(Head(batches)[e])]))
  /\ UNCHANGED <<feedServer, hydration, feed_status, used>>

fetchInitialEvents ==
  /\ hydration.ph = "answered"
  /\ hydration' = Hydrated
  /\ Dispatch(eventsHydrated(feed_items, hydration.events))
  /\ feed_status' = "initialized"
  /\ UNCHANGED <<feedServer, batches, used>>

fetchFails ==
  /\ hydration # Hydrated
  /\ hydration' = Hydrated
  /\ eventsHydrationFailed
  /\ UNCHANGED <<feedServer, batches, feed_items, mapPage, used>>

-----------------------------------------------------------------------------
FeedInit ==
  /\ feed_rows \in [Alert -> {Nowhere, SafetyEvent(1, 1, 1)}]
  /\ county = <<>> /\ batches = <<>> /\ hydration = [ph |-> "asked", events |-> [e \in Alert |-> Nowhere]]
  /\ feed_items = [e \in Alert |-> Nowhere] /\ feed_status = "loading"
  /\ eventParam = NoAlert /\ selectedId = NoAlert /\ deepLinkFocused = NoAlert
  /\ camera = "saved"
  /\ used = [edits |-> 0, batches |-> 0, clicks |-> 0]

FeedNext ==
  \/ \E e \in Alert : handle_message(e) \/ create_event(e) \/ promote(e) \/ followLink(e)
  \/ \E e \in Alert \cup {NoAlert} : selectEvent(e)
  \/ \E es \in SUBSET Alert : sendBatch(es)
  \/ list_events \/ eventsOnmessage \/ eventsOnclose \/ onbatch \/ fetchInitialEvents \/ fetchFails
  \/ focusCluster \/ selectSearchResult \/ fitRoutePreview

FeedSpec == FeedInit /\ [][FeedNext]_feedVars

-----------------------------------------------------------------------------
(* The answer to the initial request fills in what is missing and takes    *)
(* nothing back: every field a socket delivered while the request was in   *)
(* flight is kept (eventsSlice.ts:48).                                     *)
HydrationKeepsLive ==
  [][hydration # hydration' /\ hydration' = Hydrated =>
       \A e \in Alert, f \in Field :
         feed_items[e][f] # 0 => feed_items'[e][f] = feed_items[e][f]]_feedVars
=============================================================================
