------------------------------ MODULE FieldMap ------------------------------
(***************************************************************************)
(* What a person does on the live map: looking for a place, in the search  *)
(* box of the map or in that of the home panel (components/map/            *)
(* MapSearch.tsx, components/HomeRoutePanel.tsx), saving a home on the     *)
(* device (services/homeLocationStore.ts), asking for the routes to it     *)
(* (services/routingService.ts) and following the position of the device   *)
(* (hooks/useCurrentLocation.ts).                                          *)
(*                                                                         *)
(* A place is known by the text that finds it; text of fewer than two      *)
(* characters is None.  A route is known by the home it leads to.          *)
(***************************************************************************)
EXTENDS Integers, FiniteSets, Sequences

CONSTANTS
  Place,          \* what may be typed
  None, Corrupt,  \* no text; a record of the device that is not a home
  Visits          \* bounds of a visit: changes of the text and moves of the map;
                \* saves, clears and route requests; starts of the position watch

VARIABLES
  box,    \* the search box
  asked,  \* requests on their way: the sequence number and the text
  disk,   \* the home saved on the device
  panel,  \* the home panel, and homeLocation and homeRoutes of the store
  calls,  \* loads, saves, clears and route requests on their way
  gps,    \* the position hook
  visit   \* the bounds of this visit

mapVars == <<box, asked, disk, panel, calls, gps, visit>>

Visit(queries, requests, starts) == [queries |-> queries, requests |-> requests, starts |-> starts]

Text == Place \cup {None}
LocateStatus == {"idle", "requesting", "following", "located-not-following", "denied", "unavailable"}

MapTypeOK ==
  /\ visit \in Visits
  /\ box \in [kind : {"map", "home"}, query : Text, sequence : Nat, timer : BOOLEAN,
              results : Text, loading : BOOLEAN, failed : BOOLEAN, typed : 0..visit.queries]
  /\ asked \subseteq [seq : Nat, query : Place]
  /\ disk \in Text \cup {Corrupt}
  /\ panel \in [open : BOOLEAN, home : Text, routes : Text, homeRoute : 0..1, selectedIndex : 0..1,
                pending : Text, state : {"idle", "searching", "saving", "routing"}, made : 0..visit.requests]
  /\ calls \subseteq [op : {"load", "save", "clear", "wipe", "route"}, home : Text \cup {Corrupt}, done : BOOLEAN]
  /\ gps \in [status : LocateStatus, watch : BOOLEAN, following : BOOLEAN, located : BOOLEAN,
              starts : 0..visit.starts, supported : BOOLEAN, there : BOOLEAN]

\* The page has just been opened: LiveMapPage loads the home.
MapInit ==
  /\ visit \in Visits
  /\ box \in {[kind |-> k, query |-> None, sequence |-> 0, timer |-> FALSE, results |-> None,
               loading |-> FALSE, failed |-> FALSE, typed |-> 0] : k \in {"map", "home"}}
  /\ asked = {} /\ disk \in Text \cup {Corrupt}
  /\ panel = [open |-> box.kind = "home", home |-> None, routes |-> None, homeRoute |-> 0,
              selectedIndex |-> 0, pending |-> None, state |-> "idle", made |-> 0]
  /\ calls = {[op |-> "load", home |-> None, done |-> FALSE]}
  /\ gps \in {[status |-> "idle", watch |-> FALSE, following |-> FALSE, located |-> FALSE,
               starts |-> 0, supported |-> s, there |-> TRUE] : s \in BOOLEAN}

-----------------------------------------------------------------------------
(* Search.  A new text, or a map that moves, runs the effect of the box: the timer
   is stopped, the request is aborted and a new sequence number is taken.  An abort
   that comes too late lets the request answer. *)

\* MapSearch.
mapEffect(q) ==
  /\ box' = [box EXCEPT !.query = q, !.sequence = @ + 1, !.timer = q # None, !.typed = @ + 1,
                        !.failed = FALSE, !.loading = @ /\ q # None,
                        !.results = IF q = None THEN None ELSE @]
  /\ UNCHANGED panel

\* HomeRoutePanel: the cleanup of a text takes a number too, and the one state of
\* the panel is set whatever it was.
homeEffect(q) ==
  /\ panel.open
  /\ box' = [box EXCEPT !.query = q, !.sequence = @ + (IF box.query = None THEN 1 ELSE 2),
                        !.timer = q # None, !.typed = @ + 1,
                        !.results = IF q = None THEN None ELSE @]
  /\ panel' = [panel EXCEPT !.state = IF q = None THEN "idle" ELSE "searching"]

effect(q) == IF box.kind = "map" THEN mapEffect(q) ELSE homeEffect(q)

\* The text is changed (or, when it stays the same, the map has moved).
typing(q) ==
  /\ gps.there /\ box.typed < visit.queries /\ effect(q)
  /\ UNCHANGED <<asked, disk, calls, gps>>

\* The debounce timer: searchAddress, with the number of the effect that set it.
searchAddress ==
  /\ box.timer
  /\ box' = [box EXCEPT !.timer = FALSE, !.loading = box.kind = "map"]
  /\ asked' = asked \cup {[seq |-> box.sequence, query |-> box.query]}
  /\ UNCHANGED <<disk, panel, calls, gps>>

\* The comparison of the sequence numbers after the await.
current(r) == r.seq = box.sequence

AnyAnswer(r) ==
  /\ box' = [box EXCEPT !.results = r.query, !.loading = @ /\ ~current(r)] /\ UNCHANGED panel

\* What is shown is known by the text that was asked for.
mapAnswered(r) ==
  /\ box' = IF current(r) THEN [box EXCEPT !.results = r.query, !.loading = FALSE] ELSE box
  /\ UNCHANGED panel

homeAnswered(r) ==
  /\ box' = IF current(r) THEN [box EXCEPT !.results = r.query] ELSE box
  /\ panel' = IF current(r) THEN [panel EXCEPT !.state = "idle"] ELSE panel

searchAnswered(r) ==
  /\ asked' = asked \ {r}
  /\ IF box.kind = "map" THEN mapAnswered(r) ELSE homeAnswered(r)
  /\ UNCHANGED <<disk, calls, gps>>

\* MapSearchError.
searchFailed(r) ==
  /\ current(r) /\ asked' = asked \ {r}
  /\ box' = [box EXCEPT !.results = None, !.loading = FALSE, !.failed = box.kind = "map"]
  /\ panel' = [panel EXCEPT !.state = IF box.kind = "home" THEN "idle" ELSE @]
  /\ UNCHANGED <<disk, calls, gps>>

\* AbortError, of a request that another effect has aborted.
isAbortError(r) ==
  /\ ~current(r) /\ asked' = asked \ {r}
  /\ UNCHANGED <<box, disk, panel, calls, gps>>

\* choose of the map: the text becomes the label, which is searched in turn.
choose(label) ==
  /\ gps.there /\ box.kind = "map" /\ box.results # None /\ box.typed < visit.queries
  /\ label # box.query /\ mapEffect(label)
  /\ UNCHANGED <<asked, disk, calls, gps>>

\* chooseSuggestion of the panel: to be confirmed, and the text is emptied.
chooseSuggestion ==
  /\ panel.open /\ box.results # None /\ box.typed < visit.queries
  /\ box' = [box EXCEPT !.query = None, !.results = None, !.timer = FALSE, !.typed = @ + 1,
                        !.sequence = @ + 2]
  /\ panel' = [panel EXCEPT !.pending = box.results, !.state = "idle"]
  /\ UNCHANGED <<asked, disk, calls, gps>>

-----------------------------------------------------------------------------
(* The home, and the routes to it.  A call changes the device first and the store
   when it returns, whether or not the panel is still open. *)

Begins(op, home) ==
  /\ panel.made < visit.requests
  /\ calls' = calls \cup {[op |-> op, home |-> home, done |-> FALSE]}
CallBecomes(c, d) == calls' = (calls \ {c}) \cup {d}

homeRoutesCleared(p) == [p EXCEPT !.routes = None, !.homeRoute = 0]
\* setState and setPendingHome of a panel that has been closed do nothing.
local(p, state, pending) ==
  IF p.open THEN [p EXCEPT !.state = state, !.pending = pending] ELSE p

\* A record of the device, decoded, is a home: its coordinates are in range and
\* its label is not empty.
isHomeLocation(record) == record \in Place

saveHomeLocation(home) == isHomeLocation(home) /\ Begins("save", home)

clearHomeLocation == Begins("clear", None)

\* The button is disabled while the state is saving.
confirmHome ==
  /\ panel.open /\ panel.pending # None /\ panel.state # "saving"
  /\ saveHomeLocation(panel.pending)
  /\ panel' = [panel EXCEPT !.state = "saving", !.made = @ + 1]
  /\ UNCHANGED <<box, asked, disk, gps>>

clearSavedHome ==
  /\ panel.open /\ panel.home # None /\ clearHomeLocation
  /\ panel' = [panel EXCEPT !.made = @ + 1]
  /\ UNCHANGED <<box, asked, disk, gps>>

\* The button is disabled without a position and while the state is routing.
requestRoute ==
  /\ panel.open /\ panel.home # None /\ gps.located /\ panel.state # "routing"
  /\ Begins("route", panel.home)
  /\ panel' = [homeRoutesCleared(panel) EXCEPT !.state = "routing", !.selectedIndex = 0, !.made = @ + 1]
  /\ UNCHANGED <<box, asked, disk, gps>>

\* The calls on the device's own records.  A save takes the lock of the vault for
\* its write; a load and a delete do not.
saveScopedDeviceRecord(c) ==
  /\ c.op = "save" /\ ~c.done
  /\ disk' = c.home /\ CallBecomes(c, [c EXCEPT !.done = TRUE])
  /\ UNCHANGED <<box, asked, panel, gps>>

clearScopedDeviceRecord(c) ==
  /\ c.op \in {"clear", "wipe"} /\ ~c.done
  /\ disk' = None
  /\ IF c.op = "wipe" THEN calls' = calls \ {c} ELSE CallBecomes(c, [c EXCEPT !.done = TRUE])
  /\ UNCHANGED <<box, asked, panel, gps>>

loadScopedDeviceRecord(c) ==
  /\ c.op = "load" /\ ~c.done
  /\ CallBecomes(c, [c EXCEPT !.home = disk, !.done = TRUE])
  /\ UNCHANGED <<box, asked, disk, panel, gps>>

\* A record that is not a home is cleared.
loadHomeLocation(c) ==
  /\ c.op = "load" /\ c.done /\ c.home # None /\ ~isHomeLocation(c.home)
  /\ CallBecomes(c, [op |-> "wipe", home |-> None, done |-> FALSE])
  /\ UNCHANGED <<box, asked, disk, panel, gps>>

\* getRoute answers.
getRoute(c) ==
  /\ c.op = "route" /\ ~c.done
  /\ CallBecomes(c, [c EXCEPT !.done = TRUE])
  /\ UNCHANGED <<box, asked, disk, panel, gps>>

\* The then of the page's effect, unless the page was left.
setHomeLocation(c) ==
  /\ c.op = "load" /\ c.home # Corrupt
  /\ panel' = IF c.home # None /\ gps.there THEN [panel EXCEPT !.home = c.home] ELSE panel
homeSaved(c) ==
  /\ c.op = "save"
  /\ panel' = local([homeRoutesCleared(panel) EXCEPT !.home = c.home], "idle", None)
homeCleared(c) ==
  /\ c.op = "clear"
  /\ panel' = local([homeRoutesCleared(panel) EXCEPT !.home = None], panel.state, None)
\* homeRoutesSet: the first alternative is selected.
homeRoutesSet(c) ==
  /\ c.op = "route"
  /\ panel' = local([panel EXCEPT !.routes = c.home, !.homeRoute = 0], "idle", panel.pending)

returns(c) ==
  /\ c.done /\ calls' = calls \ {c}
  /\ setHomeLocation(c) \/ homeSaved(c) \/ homeCleared(c) \/ homeRoutesSet(c)
  /\ UNCHANGED <<box, asked, disk, gps>>

\* The device or the provider fails, or there is no route.
fails(c) ==
  /\ ~c.done /\ calls' = calls \ {c}
  /\ panel' = IF c.op \in {"save", "route"} THEN local(panel, "idle", panel.pending) ELSE panel
  /\ UNCHANGED <<box, asked, disk, gps>>

\* An alternative is chosen.
selectRoute(i) ==
  /\ panel.open /\ panel.routes # None
  /\ panel' = [panel EXCEPT !.selectedIndex = i, !.homeRoute = i]
  /\ UNCHANGED <<box, asked, disk, calls, gps>>

\* Another travel mode: the routes are cleared.
setMode ==
  /\ panel.open /\ panel.home # None /\ panel' = homeRoutesCleared(panel)
  /\ UNCHANGED <<box, asked, disk, calls, gps>>

\* The panel is closed: its effect is cleaned up, its state is gone and an answer
\* to its search reaches nothing.
onClosePanel ==
  /\ panel.open
  /\ panel' = [homeRoutesCleared(panel) EXCEPT !.open = FALSE, !.state = "idle", !.pending = None,
                                               !.selectedIndex = 0]
  /\ box' = [box EXCEPT !.query = None, !.results = None, !.timer = FALSE, !.sequence = 0] /\ asked' = {}
  /\ UNCHANGED <<disk, calls, gps>>
reopen ==
  /\ gps.there /\ box.kind = "home" /\ ~panel.open /\ panel.made < visit.requests
  /\ panel' = [panel EXCEPT !.open = TRUE]
  /\ UNCHANGED <<box, asked, disk, calls, gps>>

-----------------------------------------------------------------------------
(* The position *)

Here == <<box, asked, disk, panel, calls>>

startFollowing ==
  /\ gps.there /\ gps.starts < visit.starts /\ gps.status \notin {"following", "requesting"}
  /\ gps.supported
  /\ gps' = [gps EXCEPT !.following = TRUE, !.watch = TRUE, !.starts = @ + 1,
                        !.status = IF gps.watch /\ gps.located THEN "following" ELSE "requesting"]
  /\ UNCHANGED Here

notSupported ==
  /\ gps.there /\ ~gps.supported /\ gps.status # "unavailable"
  /\ gps' = [gps EXCEPT !.status = "unavailable"]
  /\ UNCHANGED Here

\* The callbacks of watchPosition.
position ==
  /\ gps.watch
  /\ gps' = [gps EXCEPT !.located = TRUE,
                        !.status = IF gps.following THEN "following" ELSE "located-not-following"]
  /\ UNCHANGED Here

positionError(status) ==
  /\ gps.watch
  /\ gps' = [gps EXCEPT !.following = FALSE, !.watch = FALSE, !.status = status]
  /\ UNCHANGED Here

\* The map was dragged.
stopFollowing ==
  /\ gps.there
  /\ gps' = [gps EXCEPT !.following = FALSE,
                        !.status = IF @ = "following" THEN "located-not-following" ELSE @]
  /\ UNCHANGED Here

\* activateLocation while the position is followed or asked for.
disable ==
  /\ gps.there /\ gps.status \in {"following", "requesting"}
  /\ gps' = [gps EXCEPT !.following = FALSE, !.watch = FALSE, !.located = FALSE, !.status = "idle"]
  /\ UNCHANGED Here

\* The page is left: the cleanups of the hook, of the search and of the panel.
leave ==
  /\ gps.there /\ gps' = [gps EXCEPT !.there = FALSE, !.watch = FALSE]
  /\ box' = [box EXCEPT !.query = None, !.results = None, !.timer = FALSE] /\ asked' = {}
  /\ panel' = [panel EXCEPT !.open = FALSE, !.state = "idle", !.pending = None, !.selectedIndex = 0]
  /\ UNCHANGED <<disk, calls>>

-----------------------------------------------------------------------------
Search == searchAddress \/ chooseSuggestion
          \/ (\E q \in Text : typing(q)) \/ (\E q \in Place : choose(q))
          \/ \E r \in asked : searchAnswered(r) \/ searchFailed(r) \/ isAbortError(r)
HomePanel ==
  \/ confirmHome \/ clearSavedHome \/ requestRoute \/ setMode \/ onClosePanel \/ reopen
  \/ \E i \in 0..1 : selectRoute(i)
  \/ \E c \in calls : \/ saveScopedDeviceRecord(c) \/ clearScopedDeviceRecord(c)
                       \/ loadScopedDeviceRecord(c) \/ loadHomeLocation(c)
                       \/ getRoute(c) \/ returns(c) \/ fails(c)
Position == startFollowing \/ notSupported \/ position \/ stopFollowing \/ disable \/ leave
            \/ \E status \in {"denied", "unavailable"} : positionError(status)

MapNext == (Search \/ HomePanel \/ Position) /\ UNCHANGED visit

MapSpec == MapInit /\ [][MapNext]_mapVars

-----------------------------------------------------------------------------
(* Properties *)

\* Whatever the order in which timers fire and answers arrive, the results are
\* only ever replaced by those of the text that is in the box (MapSearch.tsx:38,
\* HomeRoutePanel.tsx:64).
AnswerIsForQuery == [][box'.results \in {None, box.results, box'.query}]_mapVars
=============================================================================
