---------------------------- MODULE EventsProofs ----------------------------
(*************************************************************************)
(* Proofs about Events for any stream, any number of readers and         *)
(* workers, any thresholds and any number of faults, and about two parts *)
(* of the page that wait for answers: the first list of events           *)
(* (EventFeed) and the search box of the map (FieldMap).                 *)
(*************************************************************************)
EXTENDS Events, EventFeed, FieldMap, FiniteSetTheorems, TLAPS

-----------------------------------------------------------------------------
\* Where the entries are: a reader's batch was delivered to it alone and is not
\* staged yet, but for the entry it is about to announce; what a reader knows
\* of an event stays true while it works.
Handling ==
  /\ \A g \in Reader : \A e \in batch[g] :
       /\ entry[e] = "delivered"
       /\ sig[e] = 0 \/ (hand[g].pc = "staged" /\ hand[g].entry = e)
  /\ \A g, h \in Reader : g # h => batch[g] \cap batch[h] = {}
  /\ \A g \in Reader :
       /\ hand[g].pc = "looked" => hand[g].tier = 0
       /\ (hand[g].pc # "idle" /\ hand[g].event # 0) =>
            row[hand[g].event] # "none" /\ hand[g].tier <= trust[hand[g].event]
  /\ \A e \in open : sig[e] # 0

\* A worker's statistics never exceed what is staged, however old they are.
Counted ==
  \A w \in Worker : \A t \in todo[w] :
    /\ row[t.event] # "none"
    /\ t.sources <= DistinctSources(Staged(t.event))
    /\ t.channels <= DistinctChannels(Staged(t.event))

\* A confirmed event is active, and what is about to be broadcast is confirmed.
Standing ==
  /\ \A v \in Event : trust[v] = 2 => row[v] = "active"
  /\ \A w \in Worker : say[w] # 0 => trust[say[w]] = 2

IInv ==
  /\ TypeOK /\ Handling /\ Counted /\ Standing
  /\ ConfirmedIsIndependent /\ AlertedOnce /\ NeverOverclaimed

-----------------------------------------------------------------------------
\* A larger set of signals has at least as many distinct sources and channels
\* (fetch_cluster_stats counts DISTINCT values).
LEMMA MoreSignalsCountMore ==
  ASSUME NEW S, NEW T, S \subseteq T, T \subseteq Entry
  PROVE  /\ DistinctSources(S) \in Nat /\ DistinctSources(T) \in Nat
         /\ DistinctSources(S) <= DistinctSources(T)
         /\ DistinctChannels(S) \in Nat /\ DistinctChannels(T) \in Nat
         /\ DistinctChannels(S) <= DistinctChannels(T)
<1>1. IsFiniteSet(Entry)
  BY EventAssumption, FS_Interval DEF Entry
<1>2. IsFiniteSet(T)
  BY Zenon, <1>1, FS_Subset
<1> DEFINE ss == {Source[e] : e \in S}
           st == {Source[e] : e \in T}
           cs == {Channel[e] : e \in S}
           ct == {Channel[e] : e \in T}
<1>3. IsFiniteSet(st) /\ IsFiniteSet(ct)
  <2>1. [e \in T |-> Source[e]] \in Surjection(T, st)
    BY Zenon DEF Surjection
  <2>2. [e \in T |-> Channel[e]] \in Surjection(T, ct)
    BY Zenon DEF Surjection
  <2>3. IsFiniteSet(st)
    BY Zenon, <1>2, <2>1, FS_Surjection
  <2>4. IsFiniteSet(ct)
    BY Zenon, <1>2, <2>2, FS_Surjection
  <2> QED  BY Zenon, <2>3, <2>4
<1>4. ss \subseteq st /\ cs \subseteq ct
  BY Zenon
<1>5. IsFiniteSet(st \ {NoSource}) /\ (ss \ {NoSource}) \subseteq (st \ {NoSource})
  BY Zenon, <1>3, <1>4, FS_Subset
<1> HIDE DEF ss, st, cs, ct
<1>6. /\ Cardinality(ss \ {NoSource}) \in Nat
      /\ Cardinality(st \ {NoSource}) \in Nat
      /\ Cardinality(ss \ {NoSource}) <= Cardinality(st \ {NoSource})
  BY Zenon, <1>5, FS_Subset, FS_CardinalityType
<1>7. Cardinality(cs) \in Nat /\ Cardinality(ct) \in Nat
      /\ Cardinality(cs) <= Cardinality(ct)
  BY Zenon, <1>3, <1>4, FS_Subset, FS_CardinalityType
<1> QED
  BY Zenon, <1>6, <1>7 DEF DistinctSources, DistinctChannels, ss, st, cs, ct

\* Staging adds a signal and takes none from any event: the entry had none.
LEMMA StagedGrows ==
  ASSUME IInv, [Next]_vars, NEW v \in Event
  PROVE  Staged(v) \subseteq Staged(v)'
<1>1. CASE UNCHANGED sig
  BY Zenon, <1>1 DEF Staged
<1>2. ASSUME NEW g \in Reader, NEW x \in Event, Stage(g, x)
      PROVE  Staged(v) \subseteq Staged(v)'
  <2>1. hand[g].entry \in batch[g] /\ sig[hand[g].entry] = 0 /\ sig \in [Entry -> 0..MaxEvents]
    BY SMTT(30), <1>2 DEF IInv, TypeOK, Handling, Stage
  <2> QED
    BY <1>2, <2>1, EventAssumption DEF Stage, Staged, Event
<1>3. UNCHANGED sig \/ \E g \in Reader, x \in Event : Stage(g, x)
  BY Zenon DEF Next, vars, signals, ReaderStep, WorkerStep, FaultStep, TimeStep,
         ReadBatch, Skip, Lookup, ReadTier, Announce, HandleFails, AckFails,
         ReaderRestarts, ExpireEvents, ExpireSignals, FetchStats, Promote,
         OnConfirm, PromoteFails, WorkerRestarts, SignalAges, EventAges
<1> QED
  BY Zenon, <1>1, <1>2, <1>3

-----------------------------------------------------------------------------
\* Every step keeps the types: each action of the readers, the workers, the
\* faults and time is one case.
LEMMA TypeStep ==
  ASSUME IInv, [Next]_vars
  PROVE  TypeOK'
<1> USE EventAssumption DEF Entry, Event, Tier
<1>0. TypeOK /\ Handling
  BY Zenon DEF IInv
<1>1. ASSUME NEW g \in Reader, ReadBatch(g)  PROVE TypeOK'
  BY <1>0, <1>1 DEF TypeOK, ReadBatch, signals, events, workers
<1>2. ASSUME NEW g \in Reader, NEW e \in Entry, Skip(g, e)  PROVE TypeOK'
  BY Zenon, <1>0, <1>2 DEF TypeOK, Skip, NextUp, signals, events, workers
<1>3. ASSUME NEW g \in Reader, NEW e \in Entry, Lookup(g, e)  PROVE TypeOK'
  <2>1. hand' \in [Reader -> Hand]
    BY <1>0, <1>3 DEF TypeOK, Lookup, Hand
  <2> QED
    BY <1>0, <1>3, <2>1 DEF TypeOK, Lookup, NextUp, signals, events, workers
<1>4. ASSUME NEW g \in Reader, ReadTier(g)  PROVE TypeOK'
  <2>1. hand' \in [Reader -> Hand]
    BY <1>0, <1>4 DEF TypeOK, ReadTier, StoredTier, Hand
  <2> QED
    BY Zenon, <1>0, <1>4, <2>1 DEF TypeOK, ReadTier, Hand, signals, events, workers
<1>5. ASSUME NEW g \in Reader, NEW v \in Event, Stage(g, v)  PROVE TypeOK'
  <2>1. hand' \in [Reader -> Hand]
    BY <1>0, <1>5 DEF TypeOK, Stage, Hand
  <2>2. hand[g].entry \in Entry /\ hand[g].entry \in batch[g]
        /\ entry[hand[g].entry] = "delivered"
    BY <1>0, <1>5 DEF TypeOK, Handling, Stage
  <2>3. /\ row' \in [Event -> {"none", "active", "expired"}]
        /\ row'[v] # "none"
        /\ \A x \in Event : row[x] # "none" => row'[x] # "none"
    <3>1. CASE hand[g].pc = "tier" /\ v = hand[g].event /\ UNCHANGED row
      <4>1. row[v] # "none" /\ row \in [Event -> {"none", "active", "expired"}]
        BY Zenon, <1>0, <3>1 DEF TypeOK, Handling
      <4> QED
        BY Zenon, <3>1, <4>1
    <3>2. CASE row' = [row EXCEPT ![v] = "active"]
      BY Zenon, <1>0, <3>2 DEF TypeOK
    <3> QED
      BY Zenon, <1>5, <3>1, <3>2 DEF Stage
  <2>4. \A e \in Entry : sig'[e] # 0 => row'[sig'[e]] # "none" /\ entry'[e] # "queued"
    BY <1>0, <1>5, <2>2, <2>3 DEF TypeOK, Stage
  <2>5. \A h \in Reader : /\ hand'[h].pc # "idle" => hand'[h].entry \in batch'[h]
                          /\ hand'[h].pc \in {"tier", "staged"} => hand'[h].event # 0
    BY <1>0, <1>5, <2>2 DEF TypeOK, Stage, Hand
  <2>6. sig' \in [Entry -> 0..MaxEvents] /\ open' \subseteq Entry
    BY <1>0, <1>5, <2>2 DEF TypeOK, Stage
  <2>7. UNCHANGED <<entry, batch, expired, age, trust, shown, alerts, wpc, doomed, todo, say, faults>>
    BY Zenon, <1>5 DEF Stage, workers
  <2> QED
    BY Zenon, <1>0, <2>1, <2>3, <2>4, <2>5, <2>6, <2>7 DEF TypeOK
<1>f. ASSUME Fault  PROVE faults' \in 0..MaxFaults
  <2>1. faults \in 0..MaxFaults
    BY Zenon, <1>0 DEF TypeOK
  <2> QED
    BY <1>f, <2>1 DEF Fault
<1>i. Idle \in Hand /\ Idle.pc = "idle"
  BY DEF Idle, Hand
<1>6. ASSUME NEW g \in Reader, Announce(g) \/ AckFails(g)  PROVE TypeOK'
  <2>1. hand[g] \in Hand /\ hand[g].event \in Event /\ hand[g].entry \in Entry
    BY <1>0, <1>6 DEF TypeOK, Announce, AckFails, Hand
  <2>2. hand' \in [Reader -> Hand] /\ hand' = [hand EXCEPT ![g] = Idle]
    BY Zenon, <1>0, <1>i, <1>6 DEF TypeOK, Announce, AckFails
  <2>3. shown' \in [Event -> Tier \cup {-1}]
    BY Zenon, <1>0, <1>6, <2>1 DEF TypeOK, Announce, AckFails, Hand
  <2>4. \A h \in Reader : /\ hand'[h].pc # "idle" => hand'[h].entry \in batch'[h]
                          /\ hand'[h].pc \in {"tier", "staged"} => hand'[h].event # 0
    BY Zenon, <1>0, <1>i, <1>6, <2>2 DEF TypeOK, Announce, AckFails
  <2>5. CASE Announce(g)
    BY Zenon, <1>0, <2>1, <2>2, <2>3, <2>4, <2>5 DEF TypeOK, Announce, signals, events, workers
  <2>6. CASE AckFails(g)
    <3>1. faults' \in 0..MaxFaults /\ batch' \in [Reader -> SUBSET Entry]
      BY Zenon, <1>0, <1>f, <2>6 DEF TypeOK, AckFails
    <3> QED
      BY Zenon, <1>0, <2>2, <2>3, <2>4, <2>6, <3>1 DEF TypeOK, AckFails, signals, events, workers
  <2> QED
    BY Zenon, <1>6, <2>5, <2>6
<1>7. ASSUME NEW g \in Reader, HandleFails(g) \/ ReaderRestarts(g)  PROVE TypeOK'
  <2>1. hand' \in [Reader -> Hand] /\ hand' = [hand EXCEPT ![g] = Idle]
    BY Zenon, <1>0, <1>i, <1>7 DEF TypeOK, HandleFails, ReaderRestarts
  <2>2. \A h \in Reader : /\ hand'[h].pc # "idle" => hand'[h].entry \in batch'[h]
                          /\ hand'[h].pc \in {"tier", "staged"} => hand'[h].event # 0
    BY Zenon, <1>0, <1>i, <1>7, <2>1 DEF TypeOK, HandleFails, ReaderRestarts
  <2>3. batch' \in [Reader -> SUBSET Entry]
    <3>1. batch \in [Reader -> SUBSET Entry]
      BY Zenon, <1>0 DEF TypeOK
    <3>2. \E B \in SUBSET batch[g] : batch' = [batch EXCEPT ![g] = B]
      BY Zenon, <1>7 DEF HandleFails, ReaderRestarts
    <3> QED
      BY Zenon, <3>1, <3>2
  <2>4. faults' \in 0..MaxFaults
    BY Zenon, <1>f, <1>7 DEF HandleFails, ReaderRestarts
  <2> QED
    BY Zenon, <1>0, <1>7, <2>1, <2>2, <2>3, <2>4 DEF TypeOK, HandleFails, ReaderRestarts, signals, events, workers
<1>8. ASSUME NEW w \in Worker, ExpireEvents(w) \/ ExpireSignals(w)  PROVE TypeOK'
  <2>1. CASE ExpireEvents(w)
    <3>1. doomed' \in [Worker -> SUBSET Event] /\ wpc' \in [Worker -> {"idle", "signals", "stats", "promote"}]
      BY Zenon, <1>0, <2>1 DEF TypeOK, ExpireEvents
    <3>2. row' \in [Event -> {"none", "active", "expired"}] /\ age' \in [Event -> 0..2]
      BY <1>0, <2>1 DEF TypeOK, ExpireEvents
    <3>3. \A v \in Event : row[v] # "none" => row'[v] # "none"
      BY Zenon, <1>0, <2>1 DEF TypeOK, ExpireEvents
    <3> QED
      BY SMTT(30), <1>0, <2>1, <3>1, <3>2, <3>3 DEF TypeOK, ExpireEvents, readers, signals
  <2>2. CASE ExpireSignals(w)
    BY Zenon, <1>0, <2>2 DEF TypeOK, ExpireSignals, readers, events
  <2> QED
    BY Zenon, <1>8, <2>1, <2>2
<1>9. ASSUME NEW w \in Worker, FetchStats(w)  PROVE TypeOK'
  <2>1. \A v \in Event : DistinctSources(Pending(v)) \in Nat /\ DistinctChannels(Pending(v)) \in Nat
    <3>1. \A v \in Event : Pending(v) \subseteq Entry
      BY Zenon DEF Pending
    <3> QED
      BY Zenon, <3>1, MoreSignalsCountMore
  <2> DEFINE fetched == {[event |-> v, sources |-> DistinctSources(Pending(v)),
                          channels |-> DistinctChannels(Pending(v))] :
                            v \in {x \in Event : Pending(x) # {}}}
  <2>3. fetched \in SUBSET Stats
    BY <2>1 DEF Stats
  <2>4. todo' = [todo EXCEPT ![w] = fetched]
    BY Zenon, <1>9 DEF FetchStats
  <2> HIDE DEF fetched
  <2>2. todo' \in [Worker -> SUBSET Stats]
    BY Zenon, <1>0, <2>3, <2>4 DEF TypeOK
  <2>5. wpc' \in [Worker -> {"idle", "signals", "stats", "promote"}]
    BY Zenon, <1>0, <1>9 DEF TypeOK, FetchStats
  <2> QED
    BY Zenon, <1>0, <1>9, <2>2, <2>5 DEF TypeOK, FetchStats, readers, signals, events
<1>10. ASSUME NEW w \in Worker, NEW t \in todo[w], Promote(w, t)  PROVE TypeOK'
  <2>1. t \in Stats
    BY Zenon, <1>0 DEF TypeOK
  <2>2. t.event \in Event /\ decide(t.sources, t.channels) \in Tier
    BY <2>1 DEF Stats, decide
  <2>3. Highest(trust[t.event], decide(t.sources, t.channels)) \in Tier
    BY Zenon, <1>0, <2>2 DEF TypeOK, Highest
  <2> DEFINE target == Highest(trust[t.event], decide(t.sources, t.channels))
  <2>4. \/ UNCHANGED <<trust, age, alerts, say>>
        \/ /\ trust' = [trust EXCEPT ![t.event] = target]
           /\ age' = [age EXCEPT ![t.event] = IF target = 2 THEN 0 ELSE @]
           /\ \/ UNCHANGED <<alerts, say>>
              \/ /\ alerts' = [alerts EXCEPT ![t.event] = @ + 1]
                 /\ say' = [say EXCEPT ![w] = t.event]
    BY Zenon, <1>10 DEF Promote
  <2> HIDE DEF target
  <2>5. target \in Tier
    BY Zenon, <2>3 DEF target
  <2>6. trust' \in [Event -> Tier]
    BY Zenon, <1>0, <2>2, <2>4, <2>5 DEF TypeOK
  <2>7. age' \in [Event -> 0..2]
    BY <1>0, <2>2, <2>4 DEF TypeOK
  <2>8. alerts' \in [Event -> Nat]
    <3>1. alerts' = alerts \/ alerts' = [alerts EXCEPT ![t.event] = @ + 1]
      BY Zenon, <2>4
    <3>2. alerts \in [Event -> Nat] /\ alerts[t.event] + 1 \in Nat
      BY <1>0, <2>2 DEF TypeOK
    <3> QED
      BY Zenon, <3>1, <3>2
  <2>9. say' \in [Worker -> 0..MaxEvents]
    <3>1. say' = say \/ say' = [say EXCEPT ![w] = t.event]
      BY Zenon, <2>4
    <3>2. say \in [Worker -> 0..MaxEvents] /\ t.event \in 0..MaxEvents
      BY <1>0, <2>2 DEF TypeOK
    <3> QED
      BY Zenon, <3>1, <3>2
  <2> QED
    BY Zenon, <1>0, <1>10, <2>6, <2>7, <2>8, <2>9 DEF TypeOK, Promote, NextCluster, readers, signals
<1>11. ASSUME NEW w \in Worker, OnConfirm(w)  PROVE TypeOK'
  <2>1. say[w] \in Event
    BY <1>0, <1>11 DEF TypeOK, OnConfirm
  <2> QED
    BY SMTT(30), <1>0, <1>11, <2>1 DEF TypeOK, OnConfirm, readers, signals, events
<1>12. ASSUME NEW w \in Worker, NEW t \in todo[w], PromoteFails(w, t)  PROVE TypeOK'
  BY <1>0, <1>12 DEF TypeOK, PromoteFails, NextCluster, Fault, readers, signals, events
<1>13. ASSUME NEW w \in Worker, WorkerRestarts(w)  PROVE TypeOK'
  BY <1>0, <1>13 DEF TypeOK, WorkerRestarts, Fault, readers, signals, events
<1>14. ASSUME TimeStep  PROVE TypeOK'
  <2>1. ASSUME NEW e \in Entry, SignalAges(e)  PROVE TypeOK'
    BY Zenon, <1>0, <2>1 DEF TypeOK, SignalAges, readers, workers, events
  <2>2. ASSUME NEW v \in Event, EventAges(v)  PROVE TypeOK'
    <3>1. age[v] \in 0..2 /\ age[v] < 2 /\ age' = [age EXCEPT ![v] = @ + 1]
      BY Zenon, <1>0, <2>2 DEF TypeOK, EventAges
    <3>2. age[v] + 1 \in 0..2
      BY <3>1
    <3>3. age' \in [Event -> 0..2]
      BY Zenon, <1>0, <3>1, <3>2 DEF TypeOK
    <3> QED
      BY Zenon, <1>0, <2>2, <3>3 DEF TypeOK, EventAges, readers, workers, signals
  <2> QED
    BY Zenon, <1>14, <2>1, <2>2 DEF TimeStep
<1>15. CASE UNCHANGED vars
  BY Zenon, <1>0, <1>15 DEF TypeOK, vars, readers, signals, events, workers
<1> QED
  BY Zenon, <1>1, <1>2, <1>3, <1>4, <1>5, <1>6, <1>7, <1>8, <1>9, <1>10, <1>11, <1>12,
     <1>13, <1>14, <1>15 DEF Next, ReaderStep, WorkerStep, FaultStep

-----------------------------------------------------------------------------
\* What a step may do to an event, whoever takes it: rows stay, the stored tier
\* only rises, and an event that is or becomes confirmed is active.
LEMMA EventFrame ==
  ASSUME IInv, [Next]_vars, NEW v \in Event
  PROVE  /\ row[v] # "none" => row'[v] # "none"
         /\ trust[v] <= trust'[v]
         /\ trust'[v] = 2 => row'[v] = "active"
<1> USE EventAssumption DEF Event, Tier
<1>0. TypeOK /\ Standing
  BY Zenon DEF IInv
<1>g. trust[v] \in 0..2 /\ (trust[v] = 2 => row[v] = "active")
  BY Zenon, <1>0 DEF TypeOK, Standing
<1> DEFINE Goal == /\ row[v] # "none" => row'[v] # "none"
                   /\ trust[v] <= trust'[v]
                   /\ trust'[v] = 2 => row'[v] = "active"
<1>1. ASSUME NEW w \in Worker, ExpireEvents(w)  PROVE Goal
  BY <1>0, <1>g, <1>1 DEF ExpireEvents, Stale, TypeOK
<1>2. ASSUME NEW w \in Worker, NEW t \in todo[w], Promote(w, t)  PROVE Goal
  <2>1. t \in Stats /\ t.event \in Event
    BY <1>0 DEF TypeOK, Stats
  <2> DEFINE target == Highest(trust[t.event], decide(t.sources, t.channels))
  <2>2. trust' = trust \/ (row[t.event] = "active" /\ trust' = [trust EXCEPT ![t.event] = target])
    BY Zenon, <1>2 DEF Promote, Promotable
  <2>3. target \in 0..2 /\ trust[t.event] <= target
    <3>1. trust[t.event] \in 0..2 /\ decide(t.sources, t.channels) \in 0..2
      BY <1>0, <2>1 DEF TypeOK, decide
    <3> QED
      BY <3>1 DEF Highest
  <2>4. row' = row
    BY Zenon, <1>2 DEF Promote
  <2> HIDE DEF target
  <2> QED
    BY SMTT(30), <1>0, <1>g, <2>1, <2>2, <2>3, <2>4 DEF TypeOK
<1>3. ASSUME NEW g \in Reader, NEW x \in Event, Stage(g, x)  PROVE Goal
  <2>1. trust' = trust /\ (row' = row \/ row' = [row EXCEPT ![x] = "active"])
    BY Zenon, <1>3 DEF Stage
  <2> QED
    BY <1>0, <1>g, <2>1 DEF TypeOK
<1>4. CASE UNCHANGED <<row, trust>>
  BY SMTT(30), <1>4, <1>g
<1>5. \/ UNCHANGED <<row, trust>>
      \/ \E w \in Worker : ExpireEvents(w)
      \/ \E w \in Worker : \E t \in todo[w] : Promote(w, t)
      \/ \E g \in Reader, x \in Event : Stage(g, x)
  BY Zenon DEF Next, vars, events, ReaderStep, WorkerStep, FaultStep, TimeStep,
         ReadBatch, Skip, Lookup, ReadTier, Announce, HandleFails, AckFails,
         ReaderRestarts, ExpireSignals, FetchStats,
         OnConfirm, PromoteFails, WorkerRestarts, SignalAges, EventAges
<1> QED
  BY Zenon, <1>1, <1>2, <1>3, <1>4, <1>5

\* Statistics in a worker's hands stay below what is staged, because staged
\* signals are never taken away; new statistics count pending signals only.
LEMMA CountedStep ==
  ASSUME IInv, [Next]_vars
  PROVE  Counted'
<1>0. TypeOK /\ Counted
  BY Zenon DEF IInv
<1> SUFFICES ASSUME NEW w \in Worker, NEW t \in todo'[w]
             PROVE  /\ row'[t.event] # "none"
                    /\ t.sources <= DistinctSources(Staged(t.event)')
                    /\ t.channels <= DistinctChannels(Staged(t.event)')
  BY Zenon DEF Counted, DistinctSources, DistinctChannels, Staged
<1>1. CASE t \in todo[w]
  <2>1. t.event \in Event /\ t.sources \in Nat /\ t.channels \in Nat
    BY <1>0, <1>1 DEF TypeOK, Stats
  <2>2. /\ row[t.event] # "none"
        /\ t.sources <= DistinctSources(Staged(t.event))
        /\ t.channels <= DistinctChannels(Staged(t.event))
    BY Zenon, <1>0, <1>1 DEF Counted
  <2>3. Staged(t.event) \subseteq Staged(t.event)' /\ Staged(t.event)' \subseteq Entry
    BY Zenon, <2>1, StagedGrows DEF Staged
  <2>4. row'[t.event] # "none"
    BY Zenon, <2>1, <2>2, EventFrame
  <2> QED
    BY SMTT(30), <2>1, <2>2, <2>3, <2>4, MoreSignalsCountMore
<1>2. CASE \E x \in Worker : FetchStats(x) /\ t \notin todo[w]
  <2>1. PICK x \in Worker : FetchStats(x) /\ t \notin todo[w]
    BY Zenon, <1>2
  <2>2. PICK v \in Event : /\ Pending(v) # {}
                           /\ t = [event |-> v, sources |-> DistinctSources(Pending(v)),
                                   channels |-> DistinctChannels(Pending(v))]
    BY Zenon, <1>0, <2>1 DEF FetchStats, TypeOK
  <2>3. Pending(v) \subseteq Staged(v)' /\ Staged(v)' \subseteq Entry
    BY Zenon, <2>1 DEF FetchStats, Pending, Staged, signals
  <2>4. row'[v] # "none"
    <3>1. PICK e \in Entry : sig[e] = v
      BY Zenon, <2>2 DEF Pending
    <3>2. v # 0
      BY EventAssumption DEF Event
    <3>3. row[sig[e]] # "none"
      BY Zenon, <1>0, <3>1, <3>2 DEF TypeOK
    <3> QED
      BY Zenon, <2>1, <3>1, <3>3 DEF FetchStats, events
  <2> QED
    BY Zenon, <2>2, <2>3, <2>4, MoreSignalsCountMore
<1>3. ASSUME NEW x \in Worker, NEW u \in todo[x], NextCluster(x, u)
      PROVE  t \in todo[w]
  BY Zenon, <1>0, <1>3 DEF TypeOK, NextCluster
<1>4. ASSUME NEW x \in Worker, WorkerRestarts(x)
      PROVE  t \in todo[w]
  BY Zenon, <1>0, <1>4 DEF TypeOK, WorkerRestarts
<1>5. \/ UNCHANGED todo
      \/ \E x \in Worker : FetchStats(x) \/ WorkerRestarts(x)
      \/ \E x \in Worker : \E u \in todo[x] : NextCluster(x, u)
  BY Zenon DEF Next, vars, workers, ReaderStep, WorkerStep, FaultStep, TimeStep,
         ReadBatch, Skip, Lookup, ReadTier, Stage, Announce, HandleFails, AckFails,
         ReaderRestarts, ExpireEvents, ExpireSignals, Promote,
         OnConfirm, PromoteFails, SignalAges, EventAges
<1> QED
  BY Zenon, <1>1, <1>2, <1>3, <1>4, <1>5

-----------------------------------------------------------------------------
\* Entries stay with the reader they were delivered to until they are staged,
\* and what a reader remembers of an event stays true.
LEMMA HandlingStep ==
  ASSUME IInv, [Next]_vars
  PROVE  Handling'
<1> USE EventAssumption DEF Entry, Event, Tier
<1>0. TypeOK /\ Handling
  BY Zenon DEF IInv
<1>y. /\ entry \in [Entry -> {"queued", "delivered", "acked"}]
      /\ batch \in [Reader -> SUBSET Entry] /\ hand \in [Reader -> Hand]
      /\ sig \in [Entry -> 0..MaxEvents] /\ open \subseteq Entry
      /\ row \in [Event -> {"none", "active", "expired"}] /\ trust \in [Event -> 0..2]
  BY Zenon, <1>0 DEF TypeOK
<1>r. \A g \in Reader : /\ hand[g].event \in 0..MaxEvents /\ hand[g].tier \in 0..2
                        /\ hand[g].entry \in 0..Entries
                        /\ hand[g].pc # "idle" => hand[g].entry \in batch[g]
                        /\ hand[g].pc \in {"tier", "staged"} => hand[g].event # 0
  BY Zenon, <1>0 DEF TypeOK, Hand
<1>i. Idle.pc = "idle"
  BY Zenon DEF Idle
<1>e. \A v \in Event : /\ row[v] # "none" => row'[v] # "none"
                       /\ trust[v] <= trust'[v]
  BY Zenon, EventFrame
<1>t. TypeOK'
  BY Zenon, TypeStep
<1> DEFINE
  Mine == \A g \in Reader : \A e \in batch[g] :
            /\ entry[e] = "delivered"
            /\ sig[e] = 0 \/ (hand[g].pc = "staged" /\ hand[g].entry = e)
  Apart == \A g, h \in Reader : g # h => batch[g] \cap batch[h] = {}
  KnownTo(g) == /\ hand[g].pc = "looked" => hand[g].tier = 0
                /\ (hand[g].pc # "idle" /\ hand[g].event # 0) =>
                     row[hand[g].event] # "none" /\ hand[g].tier <= trust[hand[g].event]
  Known == \A g \in Reader : KnownTo(g)
  Live == \A e \in open : sig[e] # 0
<1>h. Mine /\ Apart /\ Known /\ Live
  BY Zenon, <1>0 DEF Handling
<1>k. ASSUME NEW g \in Reader, hand'[g] = hand[g] \/ hand'[g] = Idle
      PROVE  KnownTo(g)'
  <2>1. CASE hand'[g] = Idle
    BY Zenon, <2>1, <1>i
  <2>2. CASE hand'[g] = hand[g] /\ hand[g].pc # "idle" /\ hand[g].event # 0
    <3>0. trust' \in [Event -> 0..2]
      BY Zenon, <1>t DEF TypeOK
    <3>1. hand[g].event \in Event /\ hand[g].tier \in Tier /\ trust[hand[g].event] \in Tier
          /\ trust'[hand[g].event] \in Tier
      BY SMTT(30), <1>y, <1>r, <2>2, <3>0
    <3>2. row[hand[g].event] # "none" /\ hand[g].tier <= trust[hand[g].event]
      BY Zenon, <1>h, <2>2
    <3> QED
      BY <1>e, <1>h, <2>2, <3>1, <3>2
  <2> QED
    BY Zenon, <1>h, <1>k, <2>1, <2>2
<1>1. ASSUME NEW g \in Reader, ReadBatch(g)  PROVE Handling'
  <2>1. Mine'
    BY <1>0, <1>h, <1>1 DEF TypeOK, ReadBatch, signals
  <2>2. Apart'
    BY SMTT(30), <1>0, <1>h, <1>1 DEF TypeOK, ReadBatch
  <2>3. Known' /\ Live'
    BY Zenon, <1>h, <1>1 DEF ReadBatch, signals, events
  <2> QED
    BY Zenon, <2>1, <2>2, <2>3 DEF Handling
<1>2. ASSUME NEW g \in Reader, NEW e \in Entry, Skip(g, e)  PROVE Handling'
  <2>1. Mine'
    BY SMTT(30), <1>0, <1>h, <1>2 DEF TypeOK, Skip, NextUp, signals
  <2>2. Apart' /\ Known' /\ Live'
    BY SMTT(30), <1>0, <1>h, <1>2 DEF TypeOK, Skip, signals, events
  <2> QED
    BY Zenon, <2>1, <2>2 DEF Handling
<1>3. ASSUME NEW g \in Reader, NEW e \in Entry, Lookup(g, e)  PROVE Handling'
  <2>1. Mine'
    BY SMTT(30), <1>0, <1>h, <1>3 DEF TypeOK, Lookup, NextUp, signals
  <2>2. Apart' /\ Live'
    BY Zenon, <1>h, <1>3 DEF Lookup, signals
  <2>3. Known'
    <3>1. PICK v \in 0..MaxEvents :
            /\ v # 0 => v \in {sig[o] : o \in open}
            /\ hand' = [hand EXCEPT ![g] = [pc |-> "looked", entry |-> e, event |-> v, tier |-> 0]]
      BY Zenon, <1>3 DEF Lookup
    <3>2. v # 0 => (row[v] # "none" /\ trust[v] \in Tier)
      <4>1. \A o \in Entry : sig[o] # 0 => row[sig[o]] # "none"
        BY Zenon, <1>0 DEF TypeOK
      <4>2. CASE v # 0
        <5>1. PICK o \in open : v = sig[o]
          BY Zenon, <3>1, <4>2
        <5> QED
          BY <1>y, <4>1, <4>2, <5>1
      <4> QED
        BY Zenon, <4>2
    <3>3. UNCHANGED <<row, trust>>
      BY Zenon, <1>3 DEF Lookup, events
    <3> QED
      BY SMTT(30), <1>0, <1>h, <3>1, <3>2, <3>3 DEF TypeOK
  <2> QED
    BY Zenon, <2>1, <2>2, <2>3 DEF Handling
<1>4. ASSUME NEW g \in Reader, ReadTier(g)  PROVE Handling'
  <2>1. hand' = [hand EXCEPT ![g] = [pc |-> "tier", entry |-> hand[g].entry,
                   event |-> hand[g].event, tier |-> trust[hand[g].event]]]
        /\ hand[g].pc = "looked" /\ hand[g].event # 0
        /\ UNCHANGED <<entry, batch, sig, open, row, trust>>
    BY Zenon, <1>4 DEF ReadTier, StoredTier, signals, events
  <2>2. Mine'
    BY <1>0, <1>h, <2>1 DEF TypeOK
  <2>3. Apart' /\ Live'
    BY Zenon, <1>h, <2>1
  <2>4. trust[hand[g].event] \in Tier /\ row[hand[g].event] # "none"
    BY SMTT(30), <1>0, <1>h, <2>1 DEF TypeOK, Hand
  <2>5. Known'
    BY SMTT(30), <1>0, <1>h, <2>1, <2>4 DEF TypeOK
  <2> QED
    BY Zenon, <2>2, <2>3, <2>5 DEF Handling
<1>5. ASSUME NEW g \in Reader, NEW v \in Event, Stage(g, v)  PROVE Handling'
  <2>1. /\ hand' = [hand EXCEPT ![g] = [pc |-> "staged", entry |-> hand[g].entry,
                     event |-> v, tier |-> hand[g].tier]]
        /\ hand[g].pc \in {"looked", "tier"}
        /\ sig' = [sig EXCEPT ![hand[g].entry] = v]
        /\ open' = open \cup {hand[g].entry}
        /\ UNCHANGED <<entry, batch, trust>>
    BY Zenon, <1>5 DEF Stage
  <2>2. hand[g].entry \in batch[g] /\ hand[g].entry \in Entry /\ v # 0
    BY SMTT(30), <1>0, <2>1 DEF TypeOK
  <2>3. Mine'
    BY SMTT(30), <1>0, <1>h, <2>1, <2>2 DEF TypeOK
  <2>4. Apart' /\ Live'
    BY SMTT(30), <1>0, <1>h, <2>1, <2>2 DEF TypeOK
  <2>5. row'[v] # "none" /\ hand[g].tier <= trust[v]
    <3>1. CASE hand[g].pc = "tier" /\ v = hand[g].event
      BY Zenon, <1>e, <1>h, <2>2, <3>1
    <3>2. CASE hand[g].pc = "looked" /\ row' = [row EXCEPT ![v] = "active"]
      <4>1. hand[g].tier = 0
        BY Zenon, <1>h, <3>2
      <4>2. row'[v] = "active" /\ trust[v] \in 0..2
        BY Zenon, <1>y, <3>2
      <4> QED
        BY <4>1, <4>2
    <3> QED
      BY Zenon, <1>5, <3>1, <3>2 DEF Stage
  <2>6. Known'
    <3> SUFFICES ASSUME NEW h \in Reader
                 PROVE  /\ hand'[h].pc = "looked" => hand'[h].tier = 0
                        /\ (hand'[h].pc # "idle" /\ hand'[h].event # 0) =>
                             row'[hand'[h].event] # "none" /\ hand'[h].tier <= trust'[hand'[h].event]
      BY Zenon
    <3>1. CASE h = g
      BY Zenon, <1>0, <2>1, <2>5, <3>1 DEF TypeOK
    <3>2. CASE h # g
      <4>1. hand'[h] = hand[h]
        BY Zenon, <1>0, <2>1, <3>2 DEF TypeOK
      <4> QED
        BY Zenon, <1>k, <4>1
    <3> QED
      BY Zenon, <3>1, <3>2
  <2> QED
    BY Zenon, <2>3, <2>4, <2>6 DEF Handling
<1>6. ASSUME NEW g \in Reader, Announce(g) \/ AckFails(g) \/ HandleFails(g) \/ ReaderRestarts(g)
      PROVE  Handling'
  <2>1. /\ hand' = [hand EXCEPT ![g] = Idle]
        /\ batch' = [batch EXCEPT ![g] = {}] \/ batch' = [batch EXCEPT ![g] = @ \ {hand[g].entry}]
        /\ entry' = entry \/ entry' = [entry EXCEPT ![hand[g].entry] = "acked"]
        /\ UNCHANGED <<sig, open, row, trust>>
        /\ batch' = [batch EXCEPT ![g] = @ \ {hand[g].entry}] \/ entry' = entry
    BY Zenon, <1>6 DEF Announce, AckFails, HandleFails, ReaderRestarts, signals, events
  <2>2. \A h \in Reader : batch'[h] \subseteq batch[h] /\ (h # g => hand'[h] = hand[h])
    BY SMTT(30), <1>y, <2>1
  <2>3. \A h \in Reader : \A e \in batch'[h] : entry'[e] = entry[e]
    <3>1. CASE entry' = entry
      BY Zenon, <3>1
    <3>2. CASE Announce(g)
      <4>1. hand[g].entry \in batch[g] /\ hand[g].entry \notin batch'[g]
        BY Zenon, <1>y, <1>r, <3>2 DEF Announce
      <4>2. \A h \in Reader : hand[g].entry \notin batch'[h]
        BY SMTT(30), <1>h, <2>2, <4>1
      <4> QED
        BY <1>y, <2>2, <3>2, <4>2 DEF Announce
    <3> QED
      BY Zenon, <1>6, <3>1, <3>2 DEF AckFails, HandleFails, ReaderRestarts
  <2>4. \A e \in batch'[g] : sig[e] = 0
    BY SMTT(30), <1>0, <1>h, <1>6 DEF TypeOK, Announce, AckFails, HandleFails, ReaderRestarts
  <2>5. Mine'
    BY SMTT(30), <1>h, <2>1, <2>2, <2>3, <2>4
  <2>6. Apart' /\ Live'
    BY SMTT(30), <1>h, <2>1, <2>2
  <2>7. ASSUME NEW h \in Reader  PROVE KnownTo(h)'
    <3>1. hand'[h] = hand[h] \/ hand'[h] = Idle
      BY Zenon, <1>y, <2>1
    <3> QED
      BY Zenon, <1>k, <3>1
  <2> QED
    BY Zenon, <2>5, <2>6, <2>7 DEF Handling
<1>7. CASE UNCHANGED <<readers, sig>> /\ open' \subseteq open
  <2>1. Mine' /\ Apart' /\ Live'
    BY Zenon, <1>h, <1>7 DEF readers
  <2>2. ASSUME NEW g \in Reader  PROVE KnownTo(g)'
    <3>1. hand'[g] = hand[g]
      BY Zenon, <1>7 DEF readers
    <3> QED
      BY Zenon, <1>k, <3>1
  <2> QED
    BY Zenon, <2>1, <2>2 DEF Handling
<1>8. \/ UNCHANGED <<readers, sig>> /\ open' \subseteq open
      \/ \E g \in Reader : \/ ReadBatch(g) \/ ReadTier(g) \/ Announce(g) \/ AckFails(g)
                           \/ HandleFails(g) \/ ReaderRestarts(g)
                           \/ \E e \in Entry : Skip(g, e) \/ Lookup(g, e)
                           \/ \E v \in Event : Stage(g, v)
  BY ZenonT(60) DEF Next, vars, readers, signals, ReaderStep, WorkerStep, FaultStep, TimeStep,
         ExpireEvents, ExpireSignals, FetchStats, Promote,
         OnConfirm, PromoteFails, WorkerRestarts, SignalAges, EventAges
<1> QED
  BY Zenon, <1>1, <1>2, <1>3, <1>4, <1>5, <1>6, <1>7, <1>8

-----------------------------------------------------------------------------
\* Which steps touch alerts, trust and say, and how: promote_cluster raises the
\* tier and enqueues on the transition into confirmed only.
LEMMA PromoteEffect ==
  ASSUME IInv, NEW w \in Worker, NEW t \in todo[w], Promote(w, t)
  PROVE  /\ t.event \in Event
         /\ \/ UNCHANGED <<trust, alerts, say>>
            \/ \E k \in Tier :
                 /\ trust' = [trust EXCEPT ![t.event] = k]
                 /\ k = 2 => (trust[t.event] = 2 \/ decide(t.sources, t.channels) = 2)
                 /\ \/ /\ trust[t.event] < 2 /\ k = 2
                       /\ alerts' = [alerts EXCEPT ![t.event] = @ + 1]
                       /\ say' = [say EXCEPT ![w] = t.event]
                    \/ /\ trust[t.event] = 2 \/ k # 2
                       /\ UNCHANGED <<alerts, say>>
<1>0. TypeOK
  BY Zenon DEF IInv
<1>1. t \in Stats /\ t.event \in Event
  BY <1>0 DEF TypeOK, Stats
<1>2. trust[t.event] \in Tier /\ decide(t.sources, t.channels) \in Tier
  BY SMTT(30), <1>0, <1>1 DEF TypeOK, decide, Tier
<1> DEFINE k == Highest(trust[t.event], decide(t.sources, t.channels))
<1>3. /\ k \in Tier
      /\ k = 2 => (trust[t.event] = 2 \/ decide(t.sources, t.channels) = 2)
      /\ trust[t.event] = 2 => k = 2
  BY SMTT(30), <1>2 DEF Highest, Tier
<1>4. \/ UNCHANGED <<trust, alerts, say>>
      \/ /\ trust' = [trust EXCEPT ![t.event] = k]
         /\ \/ /\ trust[t.event] < 2 /\ k = 2
               /\ alerts' = [alerts EXCEPT ![t.event] = @ + 1]
               /\ say' = [say EXCEPT ![w] = t.event]
            \/ /\ ~(trust[t.event] < 2 /\ k = 2)
               /\ UNCHANGED <<alerts, say>>
  BY Zenon DEF Promote, should_confirm
<1> HIDE DEF k
<1>5. ~(trust[t.event] < 2 /\ k = 2) => (trust[t.event] = 2 \/ k # 2)
  BY <1>2 DEF Tier
<1> QED
  BY Zenon, <1>1, <1>3, <1>4, <1>5

\* A confirmation needs statistics at the thresholds, and those are covered by
\* what is staged.
LEMMA IndependentStep ==
  ASSUME IInv, [Next]_vars
  PROVE  ConfirmedIsIndependent'
<1>0. TypeOK /\ Counted /\ ConfirmedIsIndependent
  BY Zenon DEF IInv
<1> SUFFICES ASSUME NEW v \in Event, trust'[v] = 2
             PROVE  /\ DistinctSources(Staged(v)') >= CONFIRM_MIN_SOURCES
                    /\ DistinctChannels(Staged(v)') >= CONFIRM_MIN_CHANNELS
  BY Zenon DEF ConfirmedIsIndependent, DistinctSources, DistinctChannels, Staged
<1>1. Staged(v) \subseteq Staged(v)' /\ Staged(v)' \subseteq Entry
  BY Zenon, StagedGrows DEF Staged
<1>2. /\ DistinctSources(Staged(v)) \in Nat /\ DistinctSources(Staged(v)') \in Nat
      /\ DistinctSources(Staged(v)) <= DistinctSources(Staged(v)')
      /\ DistinctChannels(Staged(v)) \in Nat /\ DistinctChannels(Staged(v)') \in Nat
      /\ DistinctChannels(Staged(v)) <= DistinctChannels(Staged(v)')
  BY Zenon, <1>1, MoreSignalsCountMore
<1>3. SUFFICES /\ DistinctSources(Staged(v)) >= CONFIRM_MIN_SOURCES
               /\ DistinctChannels(Staged(v)) >= CONFIRM_MIN_CHANNELS
  BY <1>2, <1>3, EventAssumption
<1>4. CASE trust[v] = 2
  BY Zenon, <1>0, <1>4 DEF ConfirmedIsIndependent, DistinctSources, DistinctChannels
<1>5. CASE trust[v] # 2
  <2>1. \E w \in Worker : \E t \in todo[w] : Promote(w, t)
    BY Zenon, <1>5 DEF Next, vars, events, ReaderStep, WorkerStep, FaultStep, TimeStep,
         ReadBatch, Skip, Lookup, ReadTier, Stage, Announce, HandleFails, AckFails,
         ReaderRestarts, ExpireEvents, ExpireSignals, FetchStats,
         OnConfirm, PromoteFails, WorkerRestarts, SignalAges, EventAges
  <2>w. PICK w \in Worker : \E t \in todo[w] : Promote(w, t)
    BY Zenon, <2>1
  <2>t. PICK t \in todo[w] : Promote(w, t)
    BY Zenon, <2>w
  <2>2. t.event \in Event /\ t.sources \in Nat /\ t.channels \in Nat
    BY <1>0 DEF TypeOK, Stats
  <2>3. PICK k \in Tier : /\ trust' = [trust EXCEPT ![t.event] = k]
                          /\ k = 2 => (trust[t.event] = 2 \/ decide(t.sources, t.channels) = 2)
    BY Zenon, <1>5, <2>t, PromoteEffect
  <2>4. trust \in [Event -> Tier]
    BY Zenon, <1>0 DEF TypeOK
  <2>5. t.event = v /\ k = 2
    BY Zenon, <1>5, <2>2, <2>3, <2>4
  <2>6. t.sources >= CONFIRM_MIN_SOURCES /\ t.channels >= CONFIRM_MIN_CHANNELS
    BY <1>5, <2>3, <2>5 DEF decide
  <2>7. t.sources <= DistinctSources(Staged(v)) /\ t.channels <= DistinctChannels(Staged(v))
    BY Zenon, <1>0, <2>5 DEF Counted
  <2> QED
    BY <1>2, <2>2, <2>6, <2>7, EventAssumption
<1> QED
  BY Zenon, <1>4, <1>5

\* The rest of the ladder: one alert per confirmation, the tiers shown, and
\* the confirmations still to be broadcast.
LEMMA LadderStep ==
  ASSUME IInv, [Next]_vars
  PROVE  AlertedOnce' /\ Standing' /\ NeverOverclaimed'
<1> USE EventAssumption DEF Tier
<1>0. /\ TypeOK /\ Handling /\ Standing /\ AlertedOnce /\ NeverOverclaimed
  BY Zenon DEF IInv
<1>y. /\ trust \in [Event -> 0..2] /\ alerts \in [Event -> Nat]
      /\ shown \in [Event -> (0..2) \cup {-1}] /\ say \in [Worker -> 0..MaxEvents]
      /\ row \in [Event -> {"none", "active", "expired"}]
  BY Zenon, <1>0 DEF TypeOK
<1>z. trust' \in [Event -> 0..2] /\ shown' \in [Event -> (0..2) \cup {-1}]
  <2>1. TypeOK'
    BY Zenon, TypeStep
  <2> QED
    BY Zenon, <2>1 DEF TypeOK
<1>f. \A v \in Event : /\ row[v] # "none" => row'[v] # "none"
                       /\ trust[v] <= trust'[v]
                       /\ trust'[v] = 2 => row'[v] = "active"
  BY Zenon, EventFrame
<1>o. \A w \in Worker : say[w] # 0 => say[w] \in Event
  BY <1>y DEF Event
<1>c. \A v \in Event : trust[v] = 2 => trust'[v] = 2
  BY SMTT(30), <1>y, <1>z, <1>f
<1>w. (UNCHANGED shown \/ \E v \in Event, k \in 0..2 :
         /\ shown' = [shown EXCEPT ![v] = k]
         /\ row[v] # "none" /\ k <= trust[v]) => NeverOverclaimed'
  <2>1. ASSUME NEW v \in Event, shown'[v] = shown[v], shown'[v] # -1
        PROVE  row'[v] # "none" /\ shown'[v] <= trust'[v]
    <3>1. row[v] # "none" /\ shown[v] <= trust[v]
      BY Zenon, <1>0, <2>1 DEF NeverOverclaimed
    <3>2. shown[v] \in 0..2 /\ trust[v] \in 0..2 /\ trust'[v] \in 0..2
      BY Zenon, <1>y, <1>z, <2>1
    <3> QED
      BY <1>f, <2>1, <3>1, <3>2
  <2>2. ASSUME NEW v \in Event, NEW k \in 0..2, shown' = [shown EXCEPT ![v] = k],
               row[v] # "none", k <= trust[v]
        PROVE  row'[v] # "none" /\ shown'[v] <= trust'[v]
    <3>1. shown'[v] = k /\ trust[v] \in 0..2 /\ trust'[v] \in 0..2
      BY Zenon, <1>y, <1>z, <2>2
    <3> QED
      BY <1>f, <2>2, <3>1
  <2>3. CASE UNCHANGED shown
    BY Zenon, <2>1, <2>3 DEF NeverOverclaimed
  <2>4. ASSUME NEW v \in Event, NEW k \in 0..2, shown' = [shown EXCEPT ![v] = k],
               row[v] # "none", k <= trust[v]
        PROVE  NeverOverclaimed'
    <3>1. \A x \in Event : x # v => shown'[x] = shown[x]
      BY Zenon, <1>y, <2>4
    <3> QED
      BY Zenon, <2>1, <2>2, <2>4, <3>1 DEF NeverOverclaimed
  <2> QED
    BY Zenon, <2>3, <2>4
<1>s. (\A w \in Worker : say'[w] = say[w] \/ say'[w] = 0) => Standing'
  <2> SUFFICES ASSUME \A w \in Worker : say'[w] = say[w] \/ say'[w] = 0
               PROVE  \A w \in Worker : say'[w] # 0 => trust'[say'[w]] = 2
    BY Zenon, <1>f DEF Standing
  <2> QED
    BY Zenon, <1>0, <1>o, <1>c DEF Standing
<1>1. ASSUME NEW w \in Worker, NEW t \in todo[w], Promote(w, t)
      PROVE  AlertedOnce' /\ Standing' /\ NeverOverclaimed'
  <2>1. t.event \in Event
    BY Zenon, <1>1, PromoteEffect
  <2>2. NeverOverclaimed'
    BY Zenon, <1>1, <1>w DEF Promote
  <2>3. CASE UNCHANGED <<trust, alerts, say>>
    BY Zenon, <1>0, <1>s, <2>2, <2>3 DEF AlertedOnce
  <2>4. ASSUME NEW k \in Tier, trust' = [trust EXCEPT ![t.event] = k],
               trust[t.event] < 2, k = 2,
               alerts' = [alerts EXCEPT ![t.event] = @ + 1],
               say' = [say EXCEPT ![w] = t.event]
        PROVE  AlertedOnce' /\ Standing'
    <3>1. trust'[t.event] = 2 /\ \A v \in Event : v # t.event => trust'[v] = trust[v]
      BY Zenon, <1>y, <2>1, <2>4
    <3>2. alerts'[t.event] = alerts[t.event] + 1
          /\ \A v \in Event : v # t.event => alerts'[v] = alerts[v]
      BY Zenon, <1>y, <2>1, <2>4
    <3>3. alerts[t.event] = 0
      BY <1>0, <1>y, <2>1, <2>4 DEF AlertedOnce
    <3>4. AlertedOnce'
      BY <1>0, <2>1, <3>1, <3>2, <3>3 DEF AlertedOnce
    <3>5. \A x \in Worker : say'[x] = IF x = w THEN t.event ELSE say[x]
      BY Zenon, <1>y, <2>4
    <3>6. \A x \in Worker : say'[x] # 0 => trust'[say'[x]] = 2
      BY Zenon, <1>0, <1>o, <1>c, <3>1, <3>5 DEF Standing
    <3> QED
      BY Zenon, <1>f, <3>4, <3>6 DEF Standing
  <2>5. ASSUME NEW k \in Tier, trust' = [trust EXCEPT ![t.event] = k],
               trust[t.event] = 2 \/ k # 2, UNCHANGED <<alerts, say>>
        PROVE  AlertedOnce' /\ Standing'
    <3>1. \A v \in Event : trust'[v] = 2 <=> trust[v] = 2
      BY Zenon, <1>y, <1>c, <2>1, <2>5
    <3> QED
      BY Zenon, <1>0, <1>s, <2>5, <3>1 DEF AlertedOnce
  <2> QED
    BY Zenon, <1>1, <2>2, <2>3, <2>4, <2>5, PromoteEffect
<1>2. ASSUME UNCHANGED <<trust, alerts>>  PROVE AlertedOnce'
  BY Zenon, <1>0, <1>2 DEF AlertedOnce
<1>3. ASSUME NEW w \in Worker, OnConfirm(w)
      PROVE  AlertedOnce' /\ Standing' /\ NeverOverclaimed'
  <2>1. say[w] \in Event /\ trust[say[w]] = 2 /\ row[say[w]] = "active"
        /\ shown' = [shown EXCEPT ![say[w]] = 2]
    BY Zenon, <1>0, <1>o, <1>3 DEF OnConfirm, Standing
  <2>2. NeverOverclaimed'
    <3>1. 2 \in 0..2 /\ row[say[w]] # "none" /\ 2 <= trust[say[w]]
      BY <2>1
    <3> QED
      BY Zenon, <1>w, <2>1, <3>1
  <2>3. Standing'
    BY Zenon, <1>y, <1>s, <1>3 DEF OnConfirm
  <2> QED
    BY Zenon, <1>2, <1>3, <2>2, <2>3 DEF OnConfirm, events
<1>4. ASSUME NEW g \in Reader, Announce(g) \/ AckFails(g)
      PROVE  AlertedOnce' /\ Standing' /\ NeverOverclaimed'
  <2>1. /\ hand[g].pc = "staged" /\ shown' = [shown EXCEPT ![hand[g].event] = hand[g].tier]
        /\ UNCHANGED <<trust, alerts, say>>
    BY Zenon, <1>4 DEF Announce, AckFails, events, workers
  <2>2. hand[g] \in Hand /\ hand[g].event # 0
    BY Zenon, <1>0, <2>1 DEF TypeOK
  <2>3. hand[g].event \in Event /\ hand[g].tier \in 0..2
    BY SMTT(30), <2>2 DEF Hand, Event
  <2>4. row[hand[g].event] # "none" /\ hand[g].tier <= trust[hand[g].event]
    BY Zenon, <1>0, <2>1, <2>2 DEF Handling
  <2>5. NeverOverclaimed'
    BY Zenon, <1>w, <2>1, <2>3, <2>4
  <2> QED
    BY Zenon, <1>2, <1>s, <2>1, <2>5
<1>5. ASSUME UNCHANGED <<trust, alerts, shown, say>>
      PROVE  AlertedOnce' /\ Standing' /\ NeverOverclaimed'
  BY Zenon, <1>2, <1>s, <1>w, <1>5
<1>6. ASSUME NEW w \in Worker, WorkerRestarts(w)
      PROVE  AlertedOnce' /\ Standing' /\ NeverOverclaimed'
  BY Zenon, <1>y, <1>2, <1>s, <1>w, <1>6 DEF WorkerRestarts, events
<1>7. \/ UNCHANGED <<trust, alerts, shown, say>>
      \/ \E g \in Reader : Announce(g) \/ AckFails(g)
      \/ \E w \in Worker : OnConfirm(w) \/ WorkerRestarts(w)
      \/ \E w \in Worker : \E t \in todo[w] : Promote(w, t)
  BY ZenonT(60) DEF Next, vars, events, workers, ReaderStep, WorkerStep, FaultStep, TimeStep,
         ReadBatch, Skip, Lookup, ReadTier, Stage, HandleFails,
         ReaderRestarts, ExpireEvents, ExpireSignals, FetchStats,
         PromoteFails, SignalAges, EventAges
<1> QED
  BY Zenon, <1>1, <1>3, <1>4, <1>5, <1>6, <1>7

-----------------------------------------------------------------------------
\* The invariant holds at every moment of every execution.
THEOREM Invariance == Spec => []IInv
<1>1. Init => IInv
  <2> SUFFICES ASSUME Init  PROVE IInv
    BY Zenon
  <2> USE EventAssumption DEF Entry, Event, Tier
  <2>1. hand \in [Reader -> Hand] /\ \A g \in Reader : hand[g].pc = "idle"
    BY DEF Init, Hand, Idle
  <2>2. TypeOK
    BY SMTT(30), <2>1 DEF Init, TypeOK
  <2>3. Handling /\ Counted /\ Standing
    BY SMTT(30), <2>1 DEF Init, Handling, Counted, Standing
  <2>4. ConfirmedIsIndependent /\ AlertedOnce /\ NeverOverclaimed
    BY DEF Init, ConfirmedIsIndependent, AlertedOnce, NeverOverclaimed
  <2> QED
    BY Zenon, <2>2, <2>3, <2>4 DEF IInv
<1>2. IInv /\ [Next]_vars => IInv'
  <2> SUFFICES ASSUME IInv, [Next]_vars  PROVE IInv'
    BY Zenon
  <2>1. TypeOK' /\ Handling' /\ Counted'
    BY Zenon, TypeStep, HandlingStep, CountedStep
  <2>2. ConfirmedIsIndependent' /\ AlertedOnce' /\ Standing' /\ NeverOverclaimed'
    BY Zenon, IndependentStep, LadderStep
  <2> QED
    BY Zenon, <2>1, <2>2 DEF IInv
<1> QED
  BY <1>1, <1>2, PTL DEF Spec

\* Readers, signals, events and workers always have their types.
THEOREM TypeCorrect == Spec => []TypeOK
<1>1. IInv => TypeOK
  BY Zenon DEF IInv
<1> QED
  BY <1>1, Invariance, PTL

\* A confirmed event always rests on enough distinct sources and channels, for
\* any thresholds of contract::decide and however stale a worker's statistics
\* are when promote_cluster uses them.
THEOREM ConfirmationIsIndependent == Spec => []ConfirmedIsIndependent
<1>1. IInv => ConfirmedIsIndependent
  BY Zenon DEF IInv
<1> QED
  BY <1>1, Invariance, PTL

\* promote_cluster enqueues push deliveries once for a confirmed event and never
\* for another, for any number of replicas, failures and restarts.
THEOREM OneAlertPerConfirmation == Spec => []AlertedOnce
<1>1. IInv => AlertedOnce
  BY Zenon DEF IInv
<1> QED
  BY <1>1, Invariance, PTL

\* No alert is ever enqueued for an event that expire_stale_events expired.
THEOREM ExpiredStaysQuiet == Spec => []NoAlertForExpired
<1>1. IInv => NoAlertForExpired
  BY Zenon DEF IInv, Standing, AlertedOnce, NoAlertForExpired
<1> QED
  BY <1>1, Invariance, PTL

\* The broadcasts of handle_message and on_confirm never show a tier above the
\* stored one, whatever is promoted between the read and the broadcast.
THEOREM BroadcastsNeverOverclaim == Spec => []NeverOverclaimed
<1>1. IInv => NeverOverclaimed
  BY Zenon DEF IInv
<1> QED
  BY <1>1, Invariance, PTL

-----------------------------------------------------------------------------
(* The first list of events *)

\* A field that is known is kept by a merge of an answer into it.
LEMMA MergeKeeps ==
  ASSUME NEW its, NEW ans, NEW f \in Field, its[f] # 0
  PROVE  upsertEvent(its, mergeEvent(ans, its))[f] = its[f]
<1>1. mergeEvent(ans, its)[f] = its[f]
  BY Zenon DEF mergeEvent
<1>2. mergeEvent(its, mergeEvent(ans, its))[f] = its[f]
  BY Zenon, <1>1 DEF mergeEvent
<1> QED BY Zenon, <1>2 DEF upsertEvent

\* The answer to the initial request never takes back or replaces a field that a
\* socket delivered first, for any events and any order of the feeds
\* (eventsSlice.ts, eventsHydrated).
THEOREM HydrationOnlyFillsIn == FeedSpec => HydrationKeepsLive
<1>1. ASSUME [FeedNext]_feedVars, hydration # hydration', hydration' = Hydrated,
             NEW e \in Alert, NEW f \in Field, feed_items[e][f] # 0
      PROVE  feed_items'[e][f] = feed_items[e][f]
  <2>1. CASE fetchInitialEvents
    <3>1. feed_items' = eventsHydrated(feed_items, hydration.events)
      BY Zenon, <2>1 DEF fetchInitialEvents, Dispatch
    <3>2. feed_items'[e] = IF hydration.events[e] = Nowhere THEN feed_items[e]
                           ELSE upsertEvent(feed_items[e], mergeEvent(hydration.events[e], feed_items[e]))
      BY Zenon, <3>1 DEF eventsHydrated
    <3>3. upsertEvent(feed_items[e], mergeEvent(hydration.events[e], feed_items[e]))[f] = feed_items[e][f]
      BY Zenon, <1>1, MergeKeeps
    <3> QED BY Zenon, <3>2, <3>3
  <2>2. CASE list_events
    <3>1. hydration' = [ph |-> "answered", events |-> feed_rows]
      BY Zenon, <2>2 DEF list_events
    <3>2. hydration'.ph = "answered" /\ Hydrated.ph = "done"
      BY Zenon, <3>1 DEF Hydrated
    <3> QED BY Zenon, <3>2, <1>1
  <2>3. CASE feed_items' = feed_items
    BY Zenon, <2>3
  <2>4. CASE hydration' = hydration
    BY Zenon, <2>4, <1>1
  <2> QED
    BY Zenon, <1>1, <2>1, <2>2, <2>3, <2>4
    DEF FeedNext, feedVars, handle_message, create_event, promote, Edit, followLink, selectEvent,
        sendBatch, eventsOnmessage, eventsOnclose, onbatch, fetchFails, focusCluster,
        selectSearchResult, fitRoutePreview, MovesTo
<1>2. [FeedNext]_feedVars =>
        [hydration # hydration' /\ hydration' = Hydrated =>
           \A e \in Alert, f \in Field :
             feed_items[e][f] # 0 => feed_items'[e][f] = feed_items[e][f]]_feedVars
  BY Zenon, <1>1
<1> QED BY <1>2, PTL DEF FeedSpec, HydrationKeepsLive

-----------------------------------------------------------------------------
(* The search boxes *)

Box == [kind : {"map", "home"}, query : Text, sequence : Nat, timer : BOOLEAN,
        results : Text, loading : BOOLEAN, failed : BOOLEAN, typed : Nat]

\* A request that still has the number of its box asks for what is in the box.
BoxInv ==
  /\ box \in Box
  /\ asked \subseteq [seq : Nat, query : Text]
  /\ \A r \in asked : r.seq <= box.sequence /\ (current(r) => r.query = box.query)

Shows == box'.results \in {None, box.results, box'.query}

\* Taking a new number makes every request on its way an old one.
LEMMA NewNumber ==
  ASSUME BoxInv, box' \in Box, box'.sequence > box.sequence, asked' = asked
  PROVE  BoxInv'
<1>1. ASSUME NEW r \in asked PROVE r.seq <= box'.sequence /\ ~(current(r)')
  <2>1. r.seq \in Nat /\ r.seq <= box.sequence /\ box.sequence \in Nat /\ box'.sequence \in Nat
    BY Zenon DEF BoxInv, Box
  <2>2. r.seq <= box'.sequence /\ r.seq # box'.sequence
    BY SMT, <2>1
  <2> QED BY Zenon, <2>2 DEF current
<1> QED BY Zenon, <1>1 DEF BoxInv

\* A step of MapNext keeps BoxInv, and shows results of the text in the box.
LEMMA BoxStep == BoxInv /\ [MapNext]_mapVars => BoxInv' /\ Shows
<1> SUFFICES ASSUME BoxInv, [MapNext]_mapVars PROVE BoxInv' /\ Shows
  BY Zenon
<1>n. None \in Text /\ box.sequence \in Nat
  BY Zenon DEF Text, BoxInv, Box
<1>1. ASSUME NEW q \in Text, mapEffect(q), asked' = asked PROVE BoxInv' /\ Shows
  <2>1. /\ box' \in Box /\ box'.sequence = box.sequence + 1
        /\ box'.results = None \/ box'.results = box.results
    <3>1. box.sequence + 1 \in Nat /\ box.typed + 1 \in Nat
      BY SMT DEF BoxInv, Box
    <3>2. /\ (q # None) \in BOOLEAN /\ (box.loading /\ q # None) \in BOOLEAN
          /\ (IF q = None THEN None ELSE box.results) \in Text
      BY Zenon, <1>n DEF BoxInv, Box
    <3> QED BY Zenon, <1>1, <3>1, <3>2 DEF mapEffect, BoxInv, Box
  <2>2. box'.sequence > box.sequence
    BY SMT, <2>1, <1>n
  <2> QED BY Zenon, <2>1, <2>2, <1>1, NewNumber DEF Shows
<1>2. ASSUME NEW q \in Text, homeEffect(q), asked' = asked PROVE BoxInv' /\ Shows
  <2> DEFINE n == box.sequence + (IF box.query = None THEN 1 ELSE 2)
  <2>0. n \in Nat /\ n > box.sequence
    BY SMT, <1>n
  <2>1. /\ box' \in Box /\ box'.sequence = n
        /\ box'.results = None \/ box'.results = box.results
    <3>1. box.typed + 1 \in Nat
      BY SMT DEF BoxInv, Box
    <3>2. (q # None) \in BOOLEAN /\ (IF q = None THEN None ELSE box.results) \in Text
      BY Zenon, <1>n DEF BoxInv, Box
    <3> HIDE DEF n
    <3>3. box' = [box EXCEPT !.query = q, !.sequence = n, !.timer = q # None, !.typed = @ + 1,
                             !.results = IF q = None THEN None ELSE @]
      BY Zenon, <1>2 DEF homeEffect, n
    <3> QED BY Zenon, <3>3, <3>1, <3>2, <2>0 DEF BoxInv, Box
  <2> QED BY Zenon, <2>0, <2>1, <1>2, NewNumber DEF Shows
<1>3. CASE chooseSuggestion
  <2>1. box' \in Box /\ box'.sequence = box.sequence + 2 /\ box'.results = None
    <3>1. box.sequence + 2 \in Nat /\ box.typed + 1 \in Nat
      BY SMT DEF BoxInv, Box
    <3> QED BY Zenon, <1>3, <3>1, <1>n DEF chooseSuggestion, BoxInv, Box
  <2>2. box'.sequence > box.sequence
    BY SMT, <2>1, <1>n
  <2> QED BY Zenon, <2>1, <2>2, <1>3, NewNumber DEF Shows, chooseSuggestion
<1>4. CASE searchAddress
  <2>1. /\ box' \in Box /\ box'.sequence = box.sequence /\ box'.query = box.query
        /\ box'.results = box.results
    BY Zenon, <1>4 DEF searchAddress, BoxInv, Box
  <2>2. asked' = asked \cup {[seq |-> box.sequence, query |-> box.query]}
    BY Zenon, <1>4 DEF searchAddress
  <2>3. ASSUME NEW r \in asked', r \notin asked
        PROVE  /\ r \in [seq : Nat, query : Text] /\ r.query = box.query /\ r.seq = box.sequence
               /\ r.seq <= box.sequence
    <3>1. r = [seq |-> box.sequence, query |-> box.query]
      BY Zenon, <2>2, <2>3
    <3>2. r.seq = box.sequence /\ r.query = box.query /\ box.query \in Text
      BY Zenon, <3>1 DEF BoxInv, Box
    <3>3. box.sequence <= box.sequence
      BY SMT, <1>n
    <3> QED BY Zenon, <3>1, <3>2, <3>3, <1>n
  <2> QED BY Zenon, <2>1, <2>3 DEF BoxInv, current, Shows
<1>5. ASSUME box' \in Box, box'.sequence = box.sequence, box'.query = box.query, asked' \subseteq asked
      PROVE  BoxInv'
  BY Zenon, <1>5 DEF BoxInv, current
<1>6. ASSUME NEW r \in asked, searchAnswered(r) PROVE BoxInv' /\ Shows
  <2>1. r.query \in Text /\ (current(r) => r.query = box.query)
    BY Zenon DEF BoxInv
  <2>2. \/ box' = box
        \/ /\ current(r)
           /\ \/ box' = [box EXCEPT !.results = r.query, !.loading = FALSE]
              \/ box' = [box EXCEPT !.results = r.query]
    BY Zenon, <1>6 DEF searchAnswered, mapAnswered, homeAnswered
  <2>3. /\ box' \in Box /\ box'.sequence = box.sequence /\ box'.query = box.query
        /\ box'.results = box.results \/ (current(r) /\ box'.results = r.query)
    BY Zenon, <2>1, <2>2 DEF BoxInv, Box
  <2>4. asked' \subseteq asked
    BY Zenon, <1>6 DEF searchAnswered
  <2> QED BY Zenon, <2>1, <2>3, <2>4, <1>5 DEF Shows
<1>7. ASSUME NEW r \in asked, searchFailed(r) PROVE BoxInv' /\ Shows
  <2>1. box' \in Box /\ box'.sequence = box.sequence /\ box'.query = box.query /\ box'.results = None
    BY Zenon, <1>7, <1>n DEF searchFailed, BoxInv, Box
  <2>2. asked' \subseteq asked
    BY Zenon, <1>7 DEF searchFailed
  <2> QED BY Zenon, <2>1, <2>2, <1>5 DEF Shows
<1>8. CASE onClosePanel \/ leave
  <2>1. box' \in Box /\ box'.results = None /\ asked' = {}
    <3>1. 0 \in Nat BY Zenon 
    <3>2. CASE onClosePanel
      BY Zenon, <3>1, <3>2, <1>n DEF onClosePanel, BoxInv, Box
    <3>3. CASE leave
      BY Zenon, <3>3, <1>n DEF leave, BoxInv, Box
    <3> QED BY Zenon, <1>8, <3>2, <3>3
  <2> QED BY Zenon, <2>1 DEF Shows, BoxInv
<1>9. CASE box' = box /\ asked' \subseteq asked
  BY Zenon, <1>9, <1>5 DEF Shows, BoxInv
<1>10. CASE Search
  <2>1. ASSUME NEW q \in Text, typing(q) PROVE BoxInv' /\ Shows
    BY Zenon, <2>1, <1>1, <1>2 DEF typing, effect
  <2>2. ASSUME NEW q \in Place, choose(q) PROVE BoxInv' /\ Shows
    BY Zenon, <2>2, <1>1 DEF choose, Text
  <2>3. ASSUME NEW r \in asked, isAbortError(r) PROVE BoxInv' /\ Shows
    BY Zenon, <2>3, <1>9 DEF isAbortError
  <2> QED BY Zenon, <1>10, <1>3, <1>4, <1>6, <1>7, <2>1, <2>2, <2>3 DEF Search
<1>11. CASE HomePanel
  BY Zenon, <1>11, <1>8, <1>9 DEF HomePanel, confirmHome, clearSavedHome, requestRoute, setMode, reopen,
     selectRoute, saveScopedDeviceRecord, clearScopedDeviceRecord, loadScopedDeviceRecord,
     loadHomeLocation, getRoute, returns, fails
<1>12. CASE Position
  BY Zenon, <1>12, <1>8, <1>9 DEF Position, startFollowing, notSupported, position, stopFollowing,
     disable, positionError, Here
<1>13. CASE UNCHANGED mapVars
  BY Zenon, <1>13, <1>9 DEF mapVars
<1> QED BY Zenon, <1>10, <1>11, <1>12, <1>13 DEF MapNext

\* Results are those of the text in the box, for any texts, timers and order of
\* the answers (MapSearch.tsx, HomeRoutePanel.tsx).
THEOREM ResultsFitTheText == MapSpec => AnswerIsForQuery
<1>1. MapInit => BoxInv
  <2> SUFFICES ASSUME MapInit PROVE BoxInv
    BY Zenon
  <2>1. PICK k \in {"map", "home"} :
          box = [kind |-> k, query |-> None, sequence |-> 0, timer |-> FALSE, results |-> None,
                 loading |-> FALSE, failed |-> FALSE, typed |-> 0]
    BY Zenon DEF MapInit
  <2>2. box \in Box
    <3>1. None \in Text /\ 0 \in Nat BY Zenon DEF Text
    <3> QED BY Zenon, <2>1, <3>1 DEF Box
  <2> QED BY Zenon, <2>2 DEF MapInit, BoxInv
<1>2. BoxInv /\ [MapNext]_mapVars => [Shows]_mapVars
  BY Zenon, BoxStep
<1> QED BY <1>1, <1>2, BoxStep, PTL DEF MapSpec, AnswerIsForQuery, Shows
=============================================================================
