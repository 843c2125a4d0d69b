------------------------------ MODULE LiveMap ------------------------------
(***************************************************************************)
(* The live map: the /ws/events handler of the gateway (ws/events_ws.rs),  *)
(* the hook of the page that talks to it (hooks/useViewportWs.ts) and the  *)
(* ids of the events on the map (viewportIds of store/eventsSlice.ts).     *)
(*                                                                         *)
(* Bounds are the set of events that lie inside them.  Of an active event  *)
(* only the digest of the handler is kept (severity, state, trust): 1 when *)
(* it is new, 2 once it is confirmed; 0 is an event that is not active.    *)
(* The page sends no filters, asks for no low bandwidth and never sends    *)
(* SNAPSHOT_REQUEST.                                                       *)
(***************************************************************************)
EXTENDS Integers, FiniteSets, Sequences, Functions

CONSTANTS
  Event,
  Areas,     \* the bounds the map may show, a set of sets of events
  Rank,      \* order of the severity of an event; CRITICAL is 0
  Limit,     \* viewport_event_limit
  rate_cap,  \* ws_events_rate_cap
  Capacity,  \* of the broadcast channel
  NoBounds,
  MaxWrites,  \* bound: writes to safety_events
  MaxQueue,   \* bound: messages on the socket, in each direction
  MaxMoves,   \* bound: movements of the map
  MaxBreaks   \* bound: failed queries and broken sockets

ASSUME ViewAssumption == Areas \subseteq SUBSET Event /\ NoBounds \notin Areas

VARIABLES
  row,       \* safety_events: the digest of each event
  tosend,    \* broadcasts of tasks that have committed
  srv,       \* the handler of the page's socket
  up, down,  \* the messages on that socket
  hook,      \* the hook of the page
  viewportIds,
  budget        \* writes, moves and faults left

socket == <<up, down>>
viewVars == <<row, tosend, srv, socket, hook, viewportIds, budget>>

Digest == 0..2
Digests == [Event -> Digest]
Nothing == [e \in Event |-> 0]
Keys(v) == {e \in Event : v[e] # 0}
Message == [id : Event, digest : Digest \ {0}]

Handler ==
  [pc : {"await", "sent", "loop", "resync", "closed"},
   known : Digests, bounds : Areas \cup {NoBounds}, pending : Areas \cup {NoBounds},
   rx : UNION {[1..n -> Message] : n \in 0..Capacity},
   lagged : BOOLEAN, rate_count : 0..rate_cap,
   sure : BOOLEAN,       \* history: subscribed before the last query
   cut : SUBSET Event]   \* history: left out by the limit, the cap or an error
Fresh == [pc |-> "await", known |-> Nothing, bounds |-> NoBounds, pending |-> NoBounds,
          rx |-> <<>>, lagged |-> FALSE, rate_count |-> 0, sure |-> FALSE, cut |-> {}]

Hook == [mounted : BOOLEAN, ws : {"none", "connecting", "open", "closing"},
         subscribed : BOOLEAN, bounds : Areas \cup {NoBounds}, timer : BOOLEAN]

\* The handler, the socket and the hook agree on the life of a connection.
ViewTypeOK ==
  /\ row \in Digests /\ tosend \subseteq Message /\ srv \in Handler
  /\ \A m \in Range(up) : m.type \in {"SUBSCRIBE", "VIEWPORT_CHANGED"} /\ m.bounds \in Areas
  /\ \A m \in Range(down) : m.type \in {"BATCH", "PATCH"} /\ m.events \in Digests
                            /\ m.removed \subseteq Event
  /\ Len(up) <= MaxQueue /\ Len(down) <= MaxQueue
  /\ hook \in Hook /\ viewportIds \subseteq Event
  /\ hook.subscribed => hook.ws = "open"
  /\ hook.ws = "connecting" => srv = Fresh /\ socket = <<<<>>, <<>>>>

ViewInit ==
  /\ row = Nothing /\ tosend = {}
  /\ srv = Fresh /\ up = <<>> /\ down = <<>>
  /\ hook = [mounted |-> TRUE, ws |-> "connecting", subscribed |-> FALSE,
             bounds |-> NoBounds, timer |-> FALSE]
  /\ viewportIds = {}
  /\ budget = [writes |-> MaxWrites, moves |-> MaxMoves, faults |-> MaxBreaks]

Spend(what) == budget[what] > 0 /\ budget' = [budget EXCEPT ![what] = @ - 1]

-----------------------------------------------------------------------------
(* Writers of safety_events.  The broadcast of a commit is a step of its own. *)

\* A worker stores a new event, another signal of an event, or its confirmation.
announced(e, d) ==
  /\ d \in {1, 2} /\ row[e] <= d /\ Spend("writes")
  /\ row' = [row EXCEPT ![e] = d]
  /\ tosend' = tosend \cup {[id |-> e, digest |-> d]}
  /\ UNCHANGED <<srv, socket, hook, viewportIds>>

\* expire_stale_events: announced to nobody.
expire_stale_events(e) ==
  /\ row[e] = 1 /\ Spend("writes")
  /\ row' = [row EXCEPT ![e] = 0]
  /\ UNCHANGED <<tosend, srv, socket, hook, viewportIds>>

\* event_tx.send: a receiver that is full loses its oldest message and learns of it.
Broadcast(m) ==
  LET q == Append(srv.rx, m)
  IN  /\ m \in tosend /\ tosend' = tosend \ {m}
      /\ srv' = IF srv.pc \notin {"loop", "resync"} THEN srv
                ELSE [srv EXCEPT !.rx = IF Len(q) > Capacity THEN Tail(q) ELSE q,
                                 !.lagged = @ \/ Len(q) > Capacity]
      /\ UNCHANGED <<row, socket, hook, viewportIds, budget>>

-----------------------------------------------------------------------------
(* The handler *)

\* Bounds::contains, of the active events.
Inside(b) == {e \in b : row[e] # 0}

\* query_viewport_events: the most severe ones, as many as the limit allows.
query_viewport_events(b) ==
  {R \in SUBSET Inside(b) :
     /\ Cardinality(R) = IF Cardinality(Inside(b)) < Limit THEN Cardinality(Inside(b)) ELSE Limit
     /\ \A x \in R, y \in Inside(b) \ R : Rank[x] <= Rank[y]}
Read(R) == [e \in Event |-> IF e \in R THEN row[e] ELSE 0]

Sends(m) == Len(down) < MaxQueue /\ down' = Append(down, m)
Batch(v) == [type |-> "BATCH", events |-> v, removed |-> {}]
Patch(v, gone) == [type |-> "PATCH", events |-> v, removed |-> gone]
Elsewhere == <<row, tosend, hook, viewportIds>>

\* SUBSCRIBE and the initial batch; the handler has no receiver yet.
Subscribe ==
  /\ srv.pc = "await" /\ up # <<>> /\ up' = Tail(up)
  /\ Head(up).type = "SUBSCRIBE"
  /\ \E R \in query_viewport_events(Head(up).bounds) :
       /\ Sends(Batch(Read(R)))
       /\ srv' = [srv EXCEPT !.pc = "sent", !.bounds = Head(up).bounds, !.known = Read(R)]
  /\ UNCHANGED <<Elsewhere, budget>>

\* The query of the initial batch fails: the handler is done.
SubscribeFails ==
  /\ srv.pc = "await" /\ up # <<>> /\ Head(up).type = "SUBSCRIBE" /\ Spend("faults")
  /\ srv' = [srv EXCEPT !.pc = "closed"] /\ up' = Tail(up)
  /\ UNCHANGED <<Elsewhere, down>>

\* event_tx.subscribe, once the batch is out.
Listen ==
  /\ srv.pc = "sent"
  /\ srv' = [srv EXCEPT !.pc = "loop"]
  /\ UNCHANGED <<Elsewhere, socket, budget>>

\* VIEWPORT_CHANGED starts the debounce timer again.
ViewportChanged ==
  /\ srv.pc = "loop" /\ up # <<>> /\ up' = Tail(up)
  /\ Head(up).type = "VIEWPORT_CHANGED"
  /\ srv' = [srv EXCEPT !.pending = Head(up).bounds]
  /\ UNCHANGED <<Elsewhere, down, budget>>

KeepsGone(known, new) ==
  Patch([e \in Event |-> IF new[e] # known[e] THEN new[e] ELSE 0], {})

\* compute_diff: added and updated together, for the page treats them alike.
compute_diff(known, new) ==
  Patch([e \in Event |-> IF new[e] # known[e] THEN new[e] ELSE 0], Keys(known) \ Keys(new))

Moved == [srv EXCEPT !.bounds = srv.pending, !.pending = NoBounds]

\* The debounce timer fires, and the query succeeds.
Debounced ==
  /\ srv.pc = "loop" /\ srv.pending # NoBounds
  /\ \E R \in query_viewport_events(srv.pending) :
       LET patch == compute_diff(srv.known, Read(R))
       IN  /\ IF Keys(patch.events) # {} \/ patch.removed # {} THEN Sends(patch) ELSE UNCHANGED down
           /\ srv' = [Moved EXCEPT !.known = Read(R), !.sure = TRUE,
                                   !.cut = Inside(srv.pending) \ R]
  /\ UNCHANGED <<Elsewhere, up, budget>>

\* ... or fails: the bounds change, what the page knows does not.
DebouncedFails ==
  /\ srv.pc = "loop" /\ srv.pending # NoBounds /\ Spend("faults")
  /\ srv' = [Moved EXCEPT !.cut = @ \cup Inside(srv.pending)]
  /\ UNCHANGED <<Elsewhere, socket>>

\* rx.recv, with the bounds and the cap; a window of the cap may be over.
Receive ==
  /\ srv.pc = "loop" /\ ~srv.lagged /\ srv.rx # <<>>
  /\ LET m == Head(srv.rx)
         s == [srv EXCEPT !.rx = Tail(@)]
     IN  IF m.id \notin srv.bounds THEN srv' = s /\ UNCHANGED down
         ELSE \E n \in {0, srv.rate_count} :
                IF n >= rate_cap
                THEN srv' = [s EXCEPT !.cut = @ \cup {m.id}] /\ UNCHANGED down
                ELSE /\ srv' = [s EXCEPT !.rate_count = n + 1, !.known[m.id] = m.digest]
                     /\ Sends(Patch([Nothing EXCEPT ![m.id] = m.digest], {}))
  /\ UNCHANGED <<Elsewhere, up, budget>>

IgnoresLag ==
  /\ srv.pc = "loop" /\ srv.lagged
  /\ srv' = [srv EXCEPT !.lagged = FALSE]
  /\ UNCHANGED <<Elsewhere, socket, budget>>

\* rx.recv returns Lagged: a new receiver first, the query after it.
Lagged ==
  /\ srv.pc = "loop" /\ srv.lagged
  /\ srv' = [srv EXCEPT !.pc = "resync", !.rx = <<>>, !.lagged = FALSE, !.sure = FALSE]
  /\ UNCHANGED <<Elsewhere, socket, budget>>

Resumed(s) == [s EXCEPT !.pc = "loop"]

Snapshot ==
  /\ srv.pc = "resync"
  /\ \E R \in query_viewport_events(srv.bounds) :
       /\ Sends(Batch(Read(R)))
       /\ srv' = [Resumed(srv) EXCEPT !.known = Read(R), !.sure = TRUE,
                                      !.cut = Inside(srv.bounds) \ R]
  /\ UNCHANGED <<Elsewhere, up, budget>>

SnapshotFails ==
  /\ srv.pc = "resync" /\ Spend("faults")
  /\ srv' = Resumed(srv)
  /\ UNCHANGED <<Elsewhere, socket>>

-----------------------------------------------------------------------------
(* The hook *)

Asks(t, b) == Len(up) < MaxQueue /\ up' = Append(up, [type |-> t, bounds |-> b])

\* The effect of new bounds.
boundsEffect(b) ==
  /\ hook.mounted /\ b # hook.bounds /\ Spend("moves")
  /\ hook' = [hook EXCEPT !.bounds = b, !.subscribed = hook.ws = "open"]
  /\ IF hook.ws # "open" THEN UNCHANGED up
     ELSE Asks(IF hook.subscribed THEN "VIEWPORT_CHANGED" ELSE "SUBSCRIBE", b)
  /\ UNCHANGED <<row, tosend, srv, down, viewportIds>>

onopen ==
  /\ hook.ws = "connecting"
  /\ hook' = [hook EXCEPT !.ws = "open", !.subscribed = hook.bounds # NoBounds]
  /\ IF hook.bounds = NoBounds THEN UNCHANGED up ELSE Asks("SUBSCRIBE", hook.bounds)
  /\ UNCHANGED <<row, tosend, srv, down, viewportIds, budget>>

\* The reducers of the two kinds of message.
viewportEventsSet(m) == Keys(m.events)
viewportEventsBatchApply(ids, m) == (ids \ m.removed) \cup Keys(m.events)

onmessageIds(ids, m) ==
  IF m.type = "BATCH" THEN viewportEventsSet(m) ELSE viewportEventsBatchApply(ids, m)

onmessage ==
  /\ hook.ws \in {"open", "closing"} /\ down # <<>> /\ down' = Tail(down)
  /\ viewportIds' = onmessageIds(viewportIds, Head(down))
  /\ UNCHANGED <<row, tosend, srv, up, hook, budget>>

\* The cleanup of the effect.
unmountView ==
  /\ hook.mounted
  /\ hook' = [hook EXCEPT !.mounted = FALSE, !.timer = FALSE, !.subscribed = FALSE,
                          !.ws = IF @ = "none" THEN @ ELSE "closing"]
  /\ UNCHANGED <<row, tosend, srv, socket, viewportIds, budget>>

\* onclose: only a close with code 1000 is the end.
onclose(code) ==
  /\ hook' = [hook EXCEPT !.ws = "none", !.subscribed = FALSE, !.timer = code # 1000]
  /\ srv' = Fresh /\ up' = <<>> /\ down' = <<>>
  /\ UNCHANGED <<row, tosend, viewportIds>>

\* The handler is gone and the page has read what it sent.
handlerGone ==
  /\ hook.ws = "open" /\ srv.pc = "closed" /\ down = <<>>
  /\ onclose(1006) /\ UNCHANGED budget

\* The answer to the page's own close: 1000, or 1006 when the socket was not open
\* yet or the gateway drops it without a closing frame.
closeAnswered(code) ==
  /\ hook.ws = "closing"
  /\ onclose(code) /\ UNCHANGED budget

\* The network breaks the socket; onerror closes it.
onerror ==
  /\ hook.ws \in {"connecting", "open"} /\ Spend("faults")
  /\ onclose(1006)

\* The reconnect timer.
connect ==
  /\ hook.timer
  /\ hook' = [hook EXCEPT !.timer = FALSE, !.ws = "connecting"]
  /\ UNCHANGED <<row, tosend, srv, socket, viewportIds, budget>>

-----------------------------------------------------------------------------
Writer == \E e \in Event : expire_stale_events(e) \/ \E d \in {1, 2} : announced(e, d)

Server == Subscribe \/ Listen \/ ViewportChanged \/ Debounced \/ Receive \/ Lagged \/ Snapshot
Faults == SubscribeFails \/ DebouncedFails \/ SnapshotFails \/ onerror
Page == onopen \/ onmessage \/ handlerGone \/ connect \/ \E code \in {1000, 1006} : closeAnswered(code)

ViewNext ==
  \/ Writer \/ (\E m \in tosend : Broadcast(m)) \/ Server \/ Faults
  \/ Page \/ unmountView \/ \E b \in Areas : boundsEffect(b)

\* The tasks of the gateway run, and so do the timers and handlers of the page.
ViewFairness == WF_viewVars(Server) /\ WF_viewVars(Page)

ViewSpec == ViewInit /\ [][ViewNext]_viewVars /\ ViewFairness

-----------------------------------------------------------------------------
(* Properties *)

\* What the handler believes the page shows is what it will show, once the page
\* has read what is on the socket: the diffs the handler computes are against
\* the right base, through batches, patches, caps, failed queries and reconnects.
SameView ==
  LET after[n \in 0..Len(down)] ==
        IF n = 0 THEN viewportIds ELSE onmessageIds(after[n - 1], down[n])
  IN  srv.pc \in {"sent", "loop", "resync"} => after[Len(down)] = Keys(srv.known)

\* Once the handler has queried with its receiver open, no active event inside
\* the bounds is overlooked: the page knows it, or its broadcast is still to
\* come, or the limit, the cap or a failed query left it out.
NothingMissed ==
  srv.pc = "loop" /\ srv.sure /\ ~srv.lagged =>
    Inside(srv.bounds) \subseteq
      Keys(srv.known) \cup srv.cut \cup {m.id : m \in Range(srv.rx)} \cup {m.id : m \in tosend}
=============================================================================
