------------------------------ MODULE Acoustic ------------------------------
(***************************************************************************)
(* Acoustic signals: submission (routes/acoustic.rs), the worker that      *)
(* corroborates clusters of them, confirms them and publishes an event     *)
(* (subscribers/synthesis_worker.rs), and the worker that degrades stored  *)
(* places and expires events (subscribers/retention_worker.rs).            *)
(*                                                                         *)
(* Each gateway replica runs both workers.  One SQL statement is one step; *)
(* between two statements other replicas, submissions and time go on.      *)
(* Time is counted in units; only the order of the windows matters.        *)
(***************************************************************************)
EXTENDS Integers, FiniteSets, FiniteSetsExt

CONSTANTS
  Signal,        \* client_ids
  Pubkey, Fingerprint, Cluster, Confidence, Variance,  \* of a signal
  Pubkeys, Fingerprints, Clusters, NoFingerprint, None,
  Replica,       \* synthesis workers, one in each gateway
  Keeper,        \* retention workers, one in each gateway
  MIN_CONTRIBUTORS, MIN_DISTINCT_FINGERPRINTS,
  CORROBORATE_THRESHOLD, CONFIRM_THRESHOLD,            \* in percent
  confirm_enabled,
  HALF_WEIGHT, CUTOFF, FETCH_WINDOW, EXPIRY_WINDOW,    \* ages of a signal
  COORD_RETENTION, H3R9_RETENTION, EVENT_TTL,
  Slack,         \* bound: time units one tick of the worker may take
  MaxFaults      \* bound: ticks or passes that end in an error or a crash

ASSUME AcousticAssumption ==
  /\ Pubkey \in [Signal -> Pubkeys] /\ Cluster \in [Signal -> Clusters]
  /\ Fingerprint \in [Signal -> Fingerprints \cup {NoFingerprint}]
  /\ Confidence \in [Signal -> 0..100] /\ Variance \in [Signal -> 0..100]
  /\ IsFiniteSet(Signal) /\ None \notin Clusters
  /\ confirm_enabled \in BOOLEAN
  /\ {HALF_WEIGHT, CUTOFF, FETCH_WINDOW, EXPIRY_WINDOW, COORD_RETENTION,
      H3R9_RETENTION, EVENT_TTL, Slack, MaxFaults} \subseteq Nat
  /\ FETCH_WINDOW + Slack <= EXPIRY_WINDOW
  /\ COORD_RETENTION < H3R9_RETENTION

MaxAge == H3R9_RETENTION + 1

VARIABLES
  state,    \* trust_state of a signal; "none" before it is submitted
  age,      \* now - received_at, no longer counted beyond MaxAge
  coords,   \* signals whose lat and lng are not null
  cells,    \* signals whose h3_r9 is not null
  pub,      \* trust_state of the public_events row of a first_signal_id
  lineage,  \* derived_from of that row
  idle,     \* now - updated_at of that row
  job,      \* what a synthesis worker has in hand
  slack,    \* how long its tick has taken
  ret,      \* the last statement of a retention worker's pass
  faults

signals == <<state, age, coords, cells>>
events == <<pub, lineage, idle>>
work == <<job, slack>>
vars == <<signals, events, work, ret, faults>>

\* The clusters left, the one at work, the rows, those of them that are scored,
\* and the clusters whose score corroborates or confirms them.
Job == [pc : {"idle", "expired", "clusters", "confirm", "publish"},
        todo : SUBSET Clusters, at : Clusters \cup {None},
        rows : SUBSET Signal, scored : SUBSET Signal,
        good : SUBSET Clusters, sure : SUBSET Clusters]
Resting == [pc |-> "idle", todo |-> {}, at |-> None, rows |-> {}, scored |-> {},
            good |-> {}, sure |-> {}]

TypeOK ==
  /\ state \in [Signal -> {"none", "pending", "corroborating", "confirmed", "expired"}]
  /\ age \in [Signal -> 0..MaxAge]
  /\ coords \subseteq Signal /\ cells \subseteq Signal
  /\ pub \in [Signal -> {"none", "confirmed", "expired"}]
  /\ lineage \in [Signal -> SUBSET Signal]
  /\ idle \in [Signal -> 0..EVENT_TTL + 1]
  /\ job \in [Replica -> Job] /\ slack \in [Replica -> 0..Slack]
  /\ ret \in [Keeper -> {"idle", "coords", "cells"}]
  /\ faults \in 0..MaxFaults
  /\ \A r \in Replica : /\ (job[r].at # None) <=> (job[r].pc \in {"confirm", "publish"})
                        /\ (job[r].rows = {}) <=> (job[r].pc \in {"idle", "expired"})

Init ==
  /\ state = [s \in Signal |-> "none"] /\ age = [s \in Signal |-> 0]
  /\ coords = {} /\ cells = {}
  /\ pub = [s \in Signal |-> "none"] /\ lineage = [s \in Signal |-> {}]
  /\ idle = [s \in Signal |-> 0]
  /\ job = [r \in Replica |-> Resting] /\ slack = [r \in Replica |-> 0]
  /\ ret = [k \in Keeper |-> "idle"]
  /\ faults = 0

-----------------------------------------------------------------------------
(* compute_weights and the score of a cluster, W being the signals that are   *)
(* young enough.  Trust is counted in halves of DEFAULT_TRUST, the 25% cap in *)
(* quarters, and fractions are brought to a common denominator.               *)

Weight(s) == IF age[s] > HALF_WEIGHT THEN 1 ELSE 2

Voices(W) == {Pubkey[s] : s \in W}
By(W, k) == {s \in W : Pubkey[s] = k}
Trust(W) == MapThenSumSet(Weight, W)

Capped(W, k) == Min({4 * Trust(By(W, k)), Trust(W)})
Mass(W) == MapThenSumSet(LAMBDA k : Capped(W, k), Voices(W))
Denominator(W) ==
  MapThenFoldSet(LAMBDA x, y : x * y, 1, LAMBDA k : Trust(By(W, k)),
                 LAMBDA S : CHOOSE k \in S : TRUE, Voices(W))

Heard(W, k) == MapThenSumSet(LAMBDA s : Weight(s) * Confidence[s], By(W, k))
Numerator(W) ==
  MapThenSumSet(LAMBDA k : Capped(W, k) * Heard(W, k) * (Denominator(W) \div Trust(By(W, k))),
                Voices(W))

\* cluster_score_adj >= t, where the mean variance takes off up to a half.
Reaches(W, t) ==
  LET n == 200 * Cardinality(W)
      v == MapThenSumSet(LAMBDA s : Variance[s], W)
  IN  Numerator(W) * (n - v) >= t * Mass(W) * Denominator(W) * n

FingerprintsOf(W) == {Fingerprint[s] : s \in W} \ {NoFingerprint}

Corroborated(W) ==
  /\ W # {}
  /\ Cardinality(Voices(W)) >= MIN_CONTRIBUTORS
  /\ Reaches(W, CORROBORATE_THRESHOLD)

Confirmable(W) ==
  /\ confirm_enabled
  /\ Reaches(W, CONFIRM_THRESHOLD)
  /\ Cardinality(FingerprintsOf(W)) >= MIN_DISTINCT_FINGERPRINTS

-----------------------------------------------------------------------------
(* Submission *)

\* submit_signal; a client_id that is known changes nothing.
submit_signal(s) ==
  /\ state[s] = "none"
  /\ state' = [state EXCEPT ![s] = "pending"]
  /\ coords' = coords \cup {s} /\ cells' = cells \cup {s}
  /\ UNCHANGED <<age, events, work, ret, faults>>

-----------------------------------------------------------------------------
(* The synthesis worker *)

ExpiresPending(s) == state[s] = "pending" /\ age[s] > EXPIRY_WINDOW  \* mutant
Expires(s) == state[s] \in {"pending", "corroborating"} /\ age[s] > EXPIRY_WINDOW

\* tick: expire_stale_signals.
expire_stale_signals(r) ==
  /\ job[r].pc = "idle"
  /\ state' = [s \in Signal |-> IF Expires(s) THEN "expired" ELSE state[s]]
  /\ job' = [job EXCEPT ![r] = [Resting EXCEPT !.pc = "expired"]]
  /\ UNCHANGED <<age, coords, cells, events, slack, ret, faults>>

Fetched(s) ==
  state[s] \in {"pending", "corroborating"} /\ age[s] <= FETCH_WINDOW /\ s \in cells
In(S, c) == {s \in S : Cluster[s] = c}

\* tick: fetch_cluster_groups; the scores depend on nothing that comes later.
fetch_cluster_groups(r) ==
  LET rows == {s \in Signal : Fetched(s)}
      scored == {s \in rows : age[s] <= CUTOFF}
      good == {c \in Clusters : Corroborated(In(scored, c))}
  IN  /\ job[r].pc = "expired"
      /\ job' = [job EXCEPT ![r] =
           IF rows = {} THEN Resting
           ELSE [pc |-> "clusters", todo |-> {Cluster[s] : s \in rows}, at |-> None,
                 rows |-> rows, scored |-> scored, good |-> good,
                 sure |-> {c \in good : Confirmable(In(scored, c))}]]
      /\ slack' = IF rows = {} THEN [slack EXCEPT ![r] = 0] ELSE slack
      /\ UNCHANGED <<signals, events, ret, faults>>

\* The worker goes on with the clusters that are left.
Leaves(j, c) ==
  IF j.todo = {c} THEN Resting
  ELSE [pc |-> "clusters", todo |-> j.todo \ {c}, at |-> None, rows |-> j.rows,
        scored |-> j.scored, good |-> j.good, sure |-> j.sure]
Goes(j, p, c) == [pc |-> p, todo |-> j.todo, at |-> c, rows |-> j.rows,
                  scored |-> j.scored, good |-> j.good, sure |-> j.sure]
Left(r, c) ==
  /\ job' = [job EXCEPT ![r] = Leaves(job[r], c)]
  /\ slack' = IF job[r].todo = {c} THEN [slack EXCEPT ![r] = 0] ELSE slack

\* process_cluster: too little to go by.
SkipCluster(r, c) ==
  /\ job[r].pc = "clusters" /\ c \in job[r].todo \ job[r].good
  /\ Left(r, c)
  /\ UNCHANGED <<signals, events, ret, faults>>

AnyState(r, c, from, to) ==   \* mutant: the statement does not look at the state
  state' = [s \in Signal |-> IF s \in In(job[r].scored, c) THEN to ELSE state[s]]
Promoted(r, c, from, to) ==
  state' = [s \in Signal |-> IF s \in In(job[r].scored, c) /\ state[s] = from
                             THEN to ELSE state[s]]

\* process_cluster: pending -> corroborating, and the checks before the next
\* statement.
Corroborate(r, c) ==
  /\ job[r].pc = "clusters" /\ c \in job[r].todo \cap job[r].good
  /\ Promoted(r, c, "pending", "corroborating")
  /\ IF c \in job[r].sure
     THEN job' = [job EXCEPT ![r] = Goes(job[r], "confirm", c)] /\ UNCHANGED slack
     ELSE Left(r, c)
  /\ UNCHANGED <<age, coords, cells, events, ret, faults>>

\* process_cluster: corroborating -> confirmed.
Confirm(r) ==
  /\ job[r].pc = "confirm"
  /\ Promoted(r, job[r].at, "corroborating", "confirmed")
  /\ job' = [job EXCEPT ![r] = Goes(job[r], "publish", job[r].at)]
  /\ UNCHANGED <<age, coords, cells, events, slack, ret, faults>>

AllRows(j) == In(j.rows, j.at)   \* mutant: rows past the cutoff count
Derived(j) == In(j.scored, j.at)

\* upsert_public_event, under the earliest signal of the cluster; the broadcast
\* that follows is of no consequence to the tables.
upsert_public_event(r) ==
  /\ job[r].pc = "publish"
  /\ \E f \in In(job[r].rows, job[r].at) :
       /\ \A s \in In(job[r].rows, job[r].at) : age[s] <= age[f]
       /\ pub' = [pub EXCEPT ![f] = IF @ = "none" THEN "confirmed" ELSE @]
       /\ lineage' = [lineage EXCEPT ![f] = Derived(job[r])]
       /\ idle' = [idle EXCEPT ![f] = 0]
  /\ Left(r, job[r].at)
  /\ UNCHANGED <<signals, ret, faults>>

-----------------------------------------------------------------------------
(* The retention worker *)

\* run_once: exact coordinates.
NullCoords(k) ==
  /\ ret[k] = "idle"
  /\ coords' = {s \in coords : age[s] <= COORD_RETENTION}
  /\ ret' = [ret EXCEPT ![k] = "coords"]
  /\ UNCHANGED <<state, age, cells, events, work, faults>>

\* run_once: the 100 m cell.
NullCells(k) ==
  /\ ret[k] = "coords"
  /\ cells' = {s \in cells : age[s] <= H3R9_RETENTION}
  /\ ret' = [ret EXCEPT ![k] = "cells"]
  /\ UNCHANGED <<state, age, coords, events, work, faults>>

Idle(s) == idle[s] > EVENT_TTL

\* run_once: confirmed events that are no longer updated.
ExpireEvents(k) ==
  /\ ret[k] = "cells"
  /\ pub' = [s \in Signal |-> IF pub[s] = "confirmed" /\ Idle(s)
                              THEN "expired" ELSE pub[s]]
  /\ ret' = [ret EXCEPT ![k] = "idle"]
  /\ UNCHANGED <<signals, lineage, idle, work, faults>>

-----------------------------------------------------------------------------
(* Errors and time *)

\* A statement of the tick fails, or the process dies: the tick is over.
TickFails(r) ==
  /\ faults < MaxFaults /\ faults' = faults + 1
  /\ job[r].pc # "idle"
  /\ job' = [job EXCEPT ![r] = Resting]
  /\ slack' = [slack EXCEPT ![r] = 0]
  /\ UNCHANGED <<signals, events, ret>>

KeepsGoing(p) ==     \* mutant: the error of a statement is ignored
  IF p = "idle" THEN "coords" ELSE IF p = "coords" THEN "cells" ELSE "idle"
AfterError(p) == "idle"

\* A statement of the pass fails, and the pass is over.
PassFails(k) ==
  /\ faults < MaxFaults /\ faults' = faults + 1
  /\ ret' = [ret EXCEPT ![k] = AfterError(ret[k])]
  /\ UNCHANGED <<signals, events, work>>

\* Time passes; a tick of the worker takes at most Slack, and a retention pass
\* is short against the days between its windows.
Advance ==
  /\ \A r \in Replica : job[r].pc # "idle" => slack[r] < Slack
  /\ \A k \in Keeper : ret[k] # "coords"
  /\ age' = [s \in Signal |-> IF state[s] = "none" \/ age[s] = MaxAge THEN age[s] ELSE age[s] + 1]
  /\ idle' = [s \in Signal |-> IF pub[s] = "none" \/ Idle(s) THEN idle[s] ELSE idle[s] + 1]
  /\ slack' = [r \in Replica |-> IF job[r].pc = "idle" THEN 0 ELSE slack[r] + 1]
  /\ UNCHANGED <<state, coords, cells, pub, lineage, job, ret, faults>>

-----------------------------------------------------------------------------
Synthesis(r) ==
  \/ expire_stale_signals(r) \/ fetch_cluster_groups(r)
  \/ \E c \in Clusters : SkipCluster(r, c) \/ Corroborate(r, c)
  \/ Confirm(r) \/ upsert_public_event(r)

Retention(k) == NullCoords(k) \/ NullCells(k) \/ ExpireEvents(k)

Next ==
  \/ \E s \in Signal : submit_signal(s)
  \/ \E r \in Replica : Synthesis(r) \/ TickFails(r)
  \/ \E k \in Keeper : Retention(k) \/ PassFails(k)
  \/ Advance

\* The workers loop for ever; a step of theirs is always enabled, so weak
\* fairness is that they never stop.  The clock goes on too: the guard of Advance
\* bounds how long a tick takes, it does not stop time, hence strong fairness.
Fairness ==
  /\ \A r \in Replica : []<><<Synthesis(r)>>_vars
  /\ \A k \in Keeper : []<><<Retention(k)>>_vars
  /\ SF_vars(Advance)

Spec == Init /\ [][Next]_vars /\ Fairness

-----------------------------------------------------------------------------
(* Properties *)

\* A published event stands on confirmed signals only, of enough people and
\* enough distinct recordings, whatever other replicas did to the cluster
\* between the fetch and the upsert.
BackedByConfirmed ==
  \A f \in Signal : pub[f] # "none" =>
    /\ \A s \in lineage[f] : state[s] = "confirmed"
    /\ Cardinality(Voices(lineage[f])) >= MIN_CONTRIBUTORS
    /\ Cardinality(FingerprintsOf(lineage[f])) >= MIN_DISTINCT_FINGERPRINTS

\* A signal only climbs: what is confirmed stays confirmed, what is expired
\* stays expired, and nothing is confirmed without being corroborated first.
LadderOnly ==
  [][\A s \in Signal : state'[s] # state[s] =>
       <<state[s], state'[s]>> \in {<<"none", "pending">>, <<"pending", "corroborating">>,
          <<"corroborating", "confirmed">>, <<"pending", "expired">>,
          <<"corroborating", "expired">>}]_vars

\* The place of a signal is made coarser step by step: no cell is gone while the
\* exact coordinates are still there, failed passes included.
CoarserFirst == coords \subseteq cells

\* In the end no signal is on its way any more, the exact place and the cell of
\* every signal are forgotten, and every published event is expired.
EverythingFades ==
  <>[](\A s \in Signal : /\ state[s] \notin {"pending", "corroborating"}
                         /\ s \notin coords \cup cells
                         /\ pub[s] # "confirmed")
=============================================================================
