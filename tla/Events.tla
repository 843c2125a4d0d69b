------------------------------- MODULE Events -------------------------------
(***************************************************************************)
(* Machine-detected events: the reader of the Redis stream that stages     *)
(* signals and opens events (subscribers/event_subscriber.rs), and the     *)
(* trust ladder that expires, promotes and alerts                          *)
(* (subscribers/nlp_synthesis_worker.rs, trust/contract.rs, migration      *)
(* 011_nlp_trust.sql), on several replicas of the gateway.                 *)
(*                                                                         *)
(* Signals cluster by cell and type; clusters share no row, so one cluster *)
(* is modelled; an event posted through routes/events.rs has no signals    *)
(* and can only expire, so none is created here.  handle_message takes no  *)
(* lock and is one step per statement up to its inserts, then one for the  *)
(* broadcast; promote_cluster holds the event row and is one step;         *)
(* expire_stale_events is two statements.  Time passes in steps that age a *)
(* signal or an event.                                                     *)
(***************************************************************************)
EXTENDS Integers, FiniteSets

CONSTANTS
  Entries,             \* how many entries sentinel:events:stream will get
  Source, Channel,     \* source_id and origin_channel per entry; NoSource: null
  NoSource,
  Valid,               \* entries whose payload parses and fits the schema
  Reader, Worker,      \* stream readers and synthesis workers of the replicas
  CONFIRM_MIN_SOURCES, CONFIRM_MIN_CHANNELS, CORROBORATE_MIN_SOURCES,
  MaxEvents,           \* bound: rows of safety_events
  MaxFaults            \* bound: failed statements, lost connections, restarts

ASSUME EventAssumption ==
  /\ Entries \in Nat /\ Valid \subseteq 1..Entries
  /\ CONFIRM_MIN_SOURCES \in Nat /\ CONFIRM_MIN_CHANNELS \in Nat
  /\ CORROBORATE_MIN_SOURCES \in Nat
  /\ MaxEvents \in Nat /\ MaxFaults \in Nat

Entry == 1..Entries
Event == 1..MaxEvents
Tier == 0..2   \* Heuristic, Corroborating, Confirmed

VARIABLES
  entry,    \* "queued" (or to come), "delivered" (not acknowledged), "acked"
  batch,    \* entries of a reader's last reply it has still to handle
  hand,     \* the entry a reader is handling and how far it is
  sig,      \* nlp_signals: the event of an entry's signal, 0 before it is staged
  expired,  \* entries whose signal has trust_state 'expired'
  open,     \* signals not expired and received within CLUSTER_WINDOW_SECS
  row,      \* safety_events: "none", "active" or "expired" (is_active false)
  age,      \* 1 past HEURISTIC_TTL_SECS, 2 past CORROBORATING_TTL_SECS;
            \* 0 again once the event cannot expire any more
  trust,    \* safety_events.trust_state
  shown,    \* the tier last broadcast for an event, -1 for none
  alerts,   \* how often push deliveries were enqueued for an event
  wpc,      \* where a worker is in its tick
  doomed,   \* the ids its first UPDATE returned
  todo,     \* clusters with their statistics, still to be promoted
  say,      \* a confirmation committed and not yet broadcast, 0 for none
  faults

readers == <<entry, batch, hand>>
signals == <<sig, expired, open>>
events == <<row, age, trust>>
workers == <<wpc, doomed, todo, say>>
vars == <<readers, signals, events, shown, alerts, workers, faults>>

Hand == [pc : {"idle", "looked", "tier", "staged"}, entry : 0..Entries,
         event : 0..MaxEvents, tier : Tier]
Idle == [pc |-> "idle", entry |-> 0, event |-> 0, tier |-> 0]
Stats == [event : Event, sources : Nat, channels : Nat]

TypeOK ==
  /\ entry \in [Entry -> {"queued", "delivered", "acked"}]
  /\ batch \in [Reader -> SUBSET Entry]
  /\ hand \in [Reader -> Hand]
  /\ sig \in [Entry -> 0..MaxEvents]
  /\ expired \subseteq Entry /\ open \subseteq Entry
  /\ row \in [Event -> {"none", "active", "expired"}]
  /\ age \in [Event -> 0..2]
  /\ trust \in [Event -> Tier]
  /\ shown \in [Event -> Tier \cup {-1}]
  /\ alerts \in [Event -> Nat]
  /\ wpc \in [Worker -> {"idle", "signals", "stats", "promote"}]
  /\ doomed \in [Worker -> SUBSET Event]
  /\ todo \in [Worker -> SUBSET Stats]
  /\ say \in [Worker -> 0..MaxEvents]
  /\ faults \in 0..MaxFaults
  /\ \A e \in Entry : sig[e] # 0 => row[sig[e]] # "none" /\ entry[e] # "queued"
  /\ \A g \in Reader : /\ hand[g].pc # "idle" => hand[g].entry \in batch[g]
                       /\ hand[g].pc \in {"tier", "staged"} => hand[g].event # 0

Init ==
  /\ entry = [e \in Entry |-> "queued"]
  /\ batch = [g \in Reader |-> {}]
  /\ hand = [g \in Reader |-> Idle]
  /\ sig = [e \in Entry |-> 0]
  /\ expired = {} /\ open = {}
  /\ row = [v \in Event |-> "none"]
  /\ age = [v \in Event |-> 0]
  /\ trust = [v \in Event |-> 0]
  /\ shown = [v \in Event |-> -1]
  /\ alerts = [v \in Event |-> 0]
  /\ wpc = [w \in Worker |-> "idle"]
  /\ doomed = [w \in Worker |-> {}]
  /\ todo = [w \in Worker |-> {}]
  /\ say = [w \in Worker |-> 0]
  /\ faults = 0

-----------------------------------------------------------------------------
(* The stream reader *)

\* XREADGROUP with ">": the entries that have arrived, up to some n, and were
\* never delivered to the group.
ReadBatch(g) ==
  /\ batch[g] = {} /\ hand[g].pc = "idle"
  /\ \E n \in Entry : LET new == {e \in 1..n : entry[e] = "queued"} IN
     /\ entry[n] = "queued"
     /\ batch' = [batch EXCEPT ![g] = new]
     /\ entry' = [e \in Entry |-> IF e \in new THEN "delivered" ELSE entry[e]]
  /\ UNCHANGED <<hand, signals, events, shown, alerts, workers, faults>>

NextUp(g, e) == e \in batch[g] /\ (\A f \in batch[g] : e <= f) /\ hand[g].pc = "idle"

\* read_loop acknowledges an entry it cannot read and goes on.
Skip(g, e) ==
  /\ NextUp(g, e) /\ e \notin Valid
  /\ entry' = [entry EXCEPT ![e] = "acked"]
  /\ batch' = [batch EXCEPT ![g] = @ \ {e}]
  /\ UNCHANGED <<hand, signals, events, shown, alerts, workers, faults>>

\* handle_message, the first SELECT; any of several open events may be the one
\* with the latest signal.
Lookup(g, e) ==
  /\ NextUp(g, e) /\ e \in Valid
  /\ \E v \in 0..MaxEvents :
       /\ IF open = {} THEN v = 0 ELSE v \in {sig[o] : o \in open}
       /\ hand' = [hand EXCEPT ![g] = [pc |-> "looked", entry |-> e, event |-> v,
                                      tier |-> 0]]
  /\ UNCHANGED <<entry, batch, signals, events, shown, alerts, workers, faults>>

StoredTier(v) == trust[v]

\* handle_message, the second SELECT, for an event that was found.
ReadTier(g) ==
  /\ hand[g].pc = "looked" /\ hand[g].event # 0
  /\ hand' = [hand EXCEPT ![g] = [pc |-> "tier", entry |-> @.entry, event |-> @.event,
                                 tier |-> StoredTier(@.event)]]
  /\ UNCHANGED <<entry, batch, signals, events, shown, alerts, workers, faults>>

LeastUnused(v) == \A x \in 1..v : row[x] = "none" <=> x = v

\* handle_message from there to its commit: the found event, or a new one;
\* then the staged signal.  A started_at in the past is an event that ages at
\* once.
Stage(g, v) ==
  /\ \/ hand[g].pc = "tier" /\ v = hand[g].event /\ UNCHANGED row
     \/ /\ hand[g].pc = "looked" /\ hand[g].event = 0
        /\ LeastUnused(v)
        /\ row' = [row EXCEPT ![v] = "active"]
  /\ sig' = [sig EXCEPT ![hand[g].entry] = v]
  /\ open' = open \cup {hand[g].entry}
  /\ hand' = [hand EXCEPT ![g] = [pc |-> "staged", entry |-> @.entry, event |-> v,
                                 tier |-> @.tier]]
  /\ UNCHANGED <<entry, batch, expired, age, trust, shown, alerts, workers, faults>>

\* The broadcast after the commit, and XACK.
Announce(g) ==
  /\ hand[g].pc = "staged"
  /\ shown' = [shown EXCEPT ![hand[g].event] = hand[g].tier]
  /\ entry' = [entry EXCEPT ![hand[g].entry] = "acked"]
  /\ batch' = [batch EXCEPT ![g] = @ \ {hand[g].entry}]
  /\ hand' = [hand EXCEPT ![g] = Idle]
  /\ UNCHANGED <<signals, events, alerts, workers, faults>>

Fault == faults < MaxFaults /\ faults' = faults + 1

\* handle_message fails: rolled back, not acknowledged, on to the next entry.
HandleFails(g) ==
  /\ Fault
  /\ hand[g].pc \in {"looked", "tier"}
  /\ batch' = [batch EXCEPT ![g] = @ \ {hand[g].entry}]
  /\ hand' = [hand EXCEPT ![g] = Idle]
  /\ UNCHANGED <<entry, signals, events, shown, alerts, workers>>

\* XACK fails after the broadcast: read_loop ends and is started again.
AckFails(g) ==
  /\ Fault
  /\ hand[g].pc = "staged"
  /\ shown' = [shown EXCEPT ![hand[g].event] = hand[g].tier]
  /\ batch' = [batch EXCEPT ![g] = {}]
  /\ hand' = [hand EXCEPT ![g] = Idle]
  /\ UNCHANGED <<entry, signals, events, alerts, workers>>

\* The reader's process restarts, or its connection is lost between entries.
ReaderRestarts(g) ==
  /\ Fault
  /\ batch[g] # {}
  /\ batch' = [batch EXCEPT ![g] = {}]
  /\ hand' = [hand EXCEPT ![g] = Idle]
  /\ UNCHANGED <<entry, signals, events, shown, alerts, workers>>

-----------------------------------------------------------------------------
(* The synthesis worker *)

Stale(v) ==
  /\ row[v] = "active"
  /\ (trust[v] = 0 /\ age[v] >= 1) \/ (trust[v] = 1 /\ age[v] >= 2)

\* expire_stale_events, first statement.
ExpireEvents(w) ==
  /\ wpc[w] = "idle" /\ say[w] = 0
  /\ doomed' = [doomed EXCEPT ![w] = {v \in Event : Stale(v)}]
  /\ row' = [v \in Event |-> IF Stale(v) THEN "expired" ELSE row[v]]
  /\ age' = [v \in Event |-> IF Stale(v) THEN 0 ELSE age[v]]
  /\ wpc' = [wpc EXCEPT ![w] = IF doomed'[w] = {} THEN "stats" ELSE "signals"]
  /\ UNCHANGED <<readers, signals, trust, shown, alerts, todo, say, faults>>

\* expire_stale_events, second statement.
ExpireSignals(w) ==
  /\ wpc[w] = "signals"
  /\ expired' = expired \cup {e \in Entry : sig[e] \in doomed[w]}
  /\ open' = open \ expired'
  /\ doomed' = [doomed EXCEPT ![w] = {}]
  /\ wpc' = [wpc EXCEPT ![w] = "stats"]
  /\ UNCHANGED <<readers, sig, events, shown, alerts, todo, say, faults>>

Pending(v) == {e \in Entry : sig[e] = v /\ e \notin expired}
RowCount(S) == Cardinality(S)  \* mutant: duplicates count
DistinctSources(S) == Cardinality({Source[e] : e \in S} \ {NoSource})
DistinctChannels(S) == Cardinality({Channel[e] : e \in S})

\* fetch_cluster_stats.
FetchStats(w) ==
  /\ wpc[w] = "stats"
  /\ todo' = [todo EXCEPT ![w] =
       {[event |-> v, sources |-> DistinctSources(Pending(v)),
         channels |-> DistinctChannels(Pending(v))] :
           v \in {x \in Event : Pending(x) # {}}}]
  /\ wpc' = [wpc EXCEPT ![w] = IF todo'[w] = {} THEN "idle" ELSE "promote"]
  /\ UNCHANGED <<readers, signals, events, shown, alerts, doomed, say, faults>>

decideStrict(s, c) ==  \* mutant: more than the thresholds is asked for
  IF s > CONFIRM_MIN_SOURCES /\ c > CONFIRM_MIN_CHANNELS THEN 2
  ELSE IF s > CORROBORATE_MIN_SOURCES THEN 1 ELSE 0

\* contract::decide.
decide(s, c) ==
  IF s >= CONFIRM_MIN_SOURCES /\ c >= CONFIRM_MIN_CHANNELS THEN 2
  ELSE IF s >= CORROBORATE_MIN_SOURCES THEN 1 ELSE 0

Highest(a, b) == IF a >= b THEN a ELSE b
should_confirm(previous, target) == previous < 2 /\ target = 2

Promotable(v) == row[v] = "active"

NextCluster(w, t) ==
  /\ todo' = [todo EXCEPT ![w] = @ \ {t}]
  /\ wpc' = [wpc EXCEPT ![w] = IF todo'[w] = {} THEN "idle" ELSE "promote"]

\* promote_cluster with enqueue_push_deliveries, under the event's row lock.
Promote(w, t) ==
  /\ wpc[w] = "promote" /\ say[w] = 0
  /\ NextCluster(w, t)
  /\ LET v == t.event
         target == Highest(trust[v], decide(t.sources, t.channels)) IN
     IF ~Promotable(v) THEN UNCHANGED <<trust, age, alerts, say>>
     ELSE /\ trust' = [trust EXCEPT ![v] = target]
          /\ age' = [age EXCEPT ![v] = IF target = 2 THEN 0 ELSE @]
          /\ IF should_confirm(trust[v], target)
             THEN /\ alerts' = [alerts EXCEPT ![v] = @ + 1]
                  /\ say' = [say EXCEPT ![w] = v]
             ELSE UNCHANGED <<alerts, say>>
  /\ UNCHANGED <<readers, signals, row, shown, doomed, faults>>

\* on_confirm, after the commit.
OnConfirm(w) ==
  /\ say[w] # 0
  /\ shown' = [shown EXCEPT ![say[w]] = 2]
  /\ say' = [say EXCEPT ![w] = 0]
  /\ UNCHANGED <<readers, signals, events, alerts, wpc, doomed, todo, faults>>

\* promote_cluster fails and is rolled back; the tick goes on.
PromoteFails(w, t) ==
  /\ Fault
  /\ wpc[w] = "promote" /\ say[w] = 0
  /\ NextCluster(w, t)
  /\ UNCHANGED <<readers, signals, events, shown, alerts, doomed, say>>

\* The tick ends early with an error, or the process restarts.
WorkerRestarts(w) ==
  /\ Fault
  /\ wpc[w] # "idle"
  /\ wpc' = [wpc EXCEPT ![w] = "idle"]
  /\ doomed' = [doomed EXCEPT ![w] = {}]
  /\ todo' = [todo EXCEPT ![w] = {}]
  /\ say' = [say EXCEPT ![w] = 0]
  /\ UNCHANGED <<readers, signals, events, shown, alerts>>

-----------------------------------------------------------------------------
(* Time *)

SignalAges(e) ==
  /\ e \in open
  /\ open' = open \ {e}
  /\ UNCHANGED <<readers, sig, expired, events, shown, alerts, workers, faults>>

EventAges(v) ==
  /\ row[v] = "active" /\ trust[v] < 2 /\ age[v] < 2
  /\ age' = [age EXCEPT ![v] = @ + 1]
  /\ UNCHANGED <<readers, signals, row, trust, shown, alerts, workers, faults>>

-----------------------------------------------------------------------------
ReaderStep(g) ==
  \/ ReadBatch(g)
  \/ \E e \in Entry : Skip(g, e) \/ Lookup(g, e)
  \/ ReadTier(g)
  \/ \E v \in Event : Stage(g, v)
  \/ Announce(g)

WorkerStep(w) ==
  \/ ExpireEvents(w) \/ ExpireSignals(w) \/ FetchStats(w) \/ OnConfirm(w)
  \/ \E t \in todo[w] : Promote(w, t)

FaultStep ==
  \/ \E g \in Reader : HandleFails(g) \/ AckFails(g) \/ ReaderRestarts(g)
  \/ \E w \in Worker : WorkerRestarts(w) \/ \E t \in todo[w] : PromoteFails(w, t)

TimeStep == (\E e \in Entry : SignalAges(e)) \/ (\E v \in Event : EventAges(v))

Next ==
  \/ \E g \in Reader : ReaderStep(g)
  \/ \E w \in Worker : WorkerStep(w)
  \/ FaultStep
  \/ TimeStep

\* run() loops for ever in both tasks.
Fairness ==
  /\ \A g \in Reader : WF_vars(ReaderStep(g))
  /\ \A w \in Worker : WF_vars(WorkerStep(w))

Spec == Init /\ [][Next]_vars /\ Fairness

-----------------------------------------------------------------------------
(* Properties *)

Staged(v) == {e \in Entry : sig[e] = v}

\* contract.rs: "duplicate ingestion must not inflate trust".  A confirmed
\* event rests on enough distinct sources and channels among its signals,
\* although promote_cluster works on statistics taken earlier.
ConfirmedIsIndependent ==
  \A v \in Event : trust[v] = 2 =>
    /\ Cardinality({Source[e] : e \in Staged(v)} \ {NoSource}) >= CONFIRM_MIN_SOURCES
    /\ Cardinality({Channel[e] : e \in Staged(v)}) >= CONFIRM_MIN_CHANNELS

\* should_confirm: "push fires exactly once here".  Deliveries are enqueued
\* once for a confirmed event and never for another, even with several workers
\* and restarts ("a duplicate run across replicas is safe").
AlertedOnce == \A v \in Event : alerts[v] = IF trust[v] = 2 THEN 1 ELSE 0

\* An event a worker has expired is never promoted into an alert by another
\* worker's older statistics, and a confirmed one is not expired.
NoAlertForExpired == \A v \in Event : row[v] = "expired" => alerts[v] = 0

\* Viewers are never shown an event that was rolled back, nor a tier above the
\* stored one (handle_message: broadcast "after commit so we never surface an
\* event that rolled back").
NeverOverclaimed ==
  \A v \in Event : shown[v] # -1 => row[v] # "none" /\ shown[v] <= trust[v]

Corroborated(v) ==
  /\ row[v] = "active"
  /\ Cardinality({Source[e] : e \in Pending(v)} \ {NoSource}) >= CONFIRM_MIN_SOURCES
  /\ Cardinality({Channel[e] : e \in Pending(v)}) >= CONFIRM_MIN_CHANNELS

\* An event with enough independent signals is confirmed, unless it is expired
\* first, whatever faults happen on the way.
CorroboratedIsConfirmed ==
  \A v \in Event : Corroborated(v) ~> (trust[v] = 2 \/ row[v] = "expired")

\* event_subscriber.rs on a failed entry: "Do not ACK -- will be redelivered
\* after visibility timeout": an entry that was delivered is staged in the end.
DeliveredIsStaged == \A e \in Valid : entry[e] = "delivered" ~> sig[e] # 0
=============================================================================
