--------------------------- MODULE AcousticProofs ---------------------------
(*************************************************************************)
(* Proofs about Acoustic for any signals, replicas, windows, thresholds  *)
(* and faults: what a synthesis worker has fetched cannot expire under   *)
(* it, so that the rows it promotes are promoted when it publishes.      *)
(* Then about both ends at a user: a signal the phone sends was heard    *)
(* while its overlay was open (Listening), and the map shows what the    *)
(* viewport socket has told it (LiveMap).                                *)
(*************************************************************************)
EXTENDS Acoustic, Listening, LiveMap, WellFoundedInduction, TLAPS

-----------------------------------------------------------------------------
(* The inductive invariant *)

StillOpen == {"pending", "corroborating", "confirmed"}
Climbed == {"corroborating", "confirmed"}

\* What a job says of its clusters; none of it depends on the tables.
Known(j) ==
  /\ j.scored \subseteq j.rows /\ j.sure \subseteq j.good
  /\ \A c \in j.good : Cardinality(Voices(In(j.scored, c))) >= MIN_CONTRIBUTORS
  /\ \A c \in j.sure :
       Cardinality(FingerprintsOf(In(j.scored, c))) >= MIN_DISTINCT_FINGERPRINTS
  /\ j.pc \in {"confirm", "publish"} => j.at \in j.sure

\* The rows in hand are too young to expire during the tick, and those of the
\* cluster at work are as far as the statements before have brought them.
Steady(j, spent, a, st) ==
  /\ \A s \in j.rows : a[s] <= FETCH_WINDOW + spent /\ st[s] \in StillOpen
  /\ j.pc = "confirm" => \A s \in In(j.scored, j.at) : st[s] \in Climbed
  /\ j.pc = "publish" => \A s \in In(j.scored, j.at) : st[s] = "confirmed"

JobInv == \A r \in Replica : Known(job[r]) /\ Steady(job[r], slack[r], age, state)

\* A signal has no age before it is submitted; after the first statement of a
\* retention pass no exact place is older than its window.
PlaceInv ==
  /\ \A s \in Signal : state[s] = "none" => age[s] = 0
  /\ \A k \in Keeper : ret[k] = "coords" => \A s \in coords : age[s] <= COORD_RETENTION
  /\ CoarserFirst

IInv == TypeOK /\ JobInv /\ PlaceInv /\ BackedByConfirmed

-----------------------------------------------------------------------------
(* Facts *)

\* What a statement of any worker may do to the state of a signal: a confirmed
\* one stays so, and one that is young stays open, and climbed if it was.
Keeps ==
  \A s \in Signal :
    /\ state[s] = "confirmed" => state'[s] = "confirmed"
    /\ state[s] \in StillOpen /\ age[s] <= EXPIRY_WINDOW => state'[s] \in StillOpen
    /\ state[s] \in Climbed /\ age[s] <= EXPIRY_WINDOW => state'[s] \in Climbed
    /\ state'[s] = "none" => state[s] = "none"

\* The settings are natural numbers and a tick ends before its rows expire.
LEMMA Windows ==
  /\ HALF_WEIGHT \in Nat /\ CUTOFF \in Nat /\ FETCH_WINDOW \in Nat /\ EXPIRY_WINDOW \in Nat
  /\ COORD_RETENTION \in Nat /\ H3R9_RETENTION \in Nat /\ EVENT_TTL \in Nat
  /\ Slack \in Nat /\ MaxFaults \in Nat
  /\ FETCH_WINDOW + Slack <= EXPIRY_WINDOW /\ COORD_RETENTION < H3R9_RETENTION
BY Zenon, AcousticAssumption

\* A worker between two ticks.
LEMMA RestingFact ==
  /\ Resting \in Job /\ Known(Resting) /\ Resting.pc = "idle" /\ Resting.rows = {}
  /\ Resting.at = None /\ \A spent, a, st : Steady(Resting, spent, a, st)
<1>1. Resting \in Job /\ Resting.pc = "idle" /\ Resting.rows = {} /\ Resting.at = None
  BY Zenon DEF Resting, Job
<1>2. Known(Resting)
  BY Zenon DEF Resting, Known
<1>3. \A spent, a, st : Steady(Resting, spent, a, st)
  BY Zenon DEF Resting, Steady
<1> QED BY Zenon, <1>1, <1>2, <1>3

\* The rows of a job are too young to expire.
LEMMA RowsAreYoung ==
  ASSUME TypeOK, JobInv, NEW r \in Replica, NEW s \in job[r].rows
  PROVE  s \in Signal /\ age[s] <= EXPIRY_WINDOW /\ state[s] \in StillOpen
<1>1. job[r] \in Job /\ slack[r] \in 0 .. Slack
  BY Zenon DEF TypeOK
<1>2. s \in Signal
  BY Zenon, <1>1 DEF Job
<1>3. age[s] \in Nat /\ age[s] <= FETCH_WINDOW + slack[r] /\ state[s] \in StillOpen
  BY <1>2 DEF TypeOK, JobInv, Steady
<1> QED BY <1>1, <1>2, <1>3, Windows

\* A job that is left alone while states climb stays as it should be.
LEMMA JobKept ==
  ASSUME TypeOK, JobInv, Keeps, NEW r \in Replica
  PROVE  Steady(job[r], slack[r], age, state')
<1>1. Known(job[r]) /\ Steady(job[r], slack[r], age, state)
  BY Zenon DEF JobInv
<1>2. \A s \in job[r].rows : s \in Signal /\ age[s] <= EXPIRY_WINDOW /\ state[s] \in StillOpen
  BY Zenon, RowsAreYoung
<1>3. \A s \in In(job[r].scored, job[r].at) : s \in job[r].rows
  BY Zenon, <1>1 DEF Known, In
<1>4. \A s \in job[r].rows : age[s] <= FETCH_WINDOW + slack[r] /\ state'[s] \in StillOpen
  BY Zenon, <1>1, <1>2 DEF Steady, Keeps
<1>5. ASSUME job[r].pc = "confirm", NEW s \in In(job[r].scored, job[r].at)
      PROVE  state'[s] \in Climbed
  BY Zenon, <1>1, <1>2, <1>3, <1>5 DEF Steady, Keeps
<1>6. ASSUME job[r].pc = "publish", NEW s \in In(job[r].scored, job[r].at)
      PROVE  state'[s] = "confirmed"
  BY Zenon, <1>1, <1>2, <1>3, <1>6 DEF Steady, Keeps
<1> QED BY Zenon, <1>4, <1>5, <1>6 DEF Steady

\* A step of one synthesis worker: its own new job has to be right.
LEMMA JobStep ==
  ASSUME TypeOK, JobInv, Keeps, age' = age, NEW r \in Replica, NEW j \in Job,
         job' = [job EXCEPT ![r] = j],
         \A q \in Replica : q # r => slack'[q] = slack[q],
         Known(j), Steady(j, slack'[r], age, state')
  PROVE  JobInv'
<1>1. job \in [Replica -> Job]
  BY Zenon DEF TypeOK
<1>2. \A q \in Replica : job'[q] = IF q = r THEN j ELSE job[q]
  BY Zenon, <1>1
<1>3. \A q \in Replica : Known(job[q]) /\ Steady(job[q], slack[q], age, state')
  BY Zenon, JobKept DEF JobInv
<1>4. \A q \in Replica : Known(job'[q]) /\ Steady(job'[q], slack'[q], age', state')
  BY Zenon, <1>2, <1>3
<1> QED BY Zenon, <1>4 DEF JobInv

\* A step of anyone else.
LEMMA JobsUnchanged ==
  ASSUME TypeOK, JobInv, Keeps, UNCHANGED <<age, job, slack>>
  PROVE  JobInv'
BY Zenon, JobKept DEF JobInv

\* Confirmed signals stay confirmed, so published events stay backed.
LEMMA BackedKept ==
  ASSUME TypeOK, BackedByConfirmed, Keeps, lineage' = lineage,
         \A f \in Signal : pub'[f] # "none" => pub[f] # "none"
  PROVE  BackedByConfirmed'
BY Zenon DEF BackedByConfirmed, TypeOK, Keeps

\* The types of a job, and where it stands.
LEMMA JobTyped ==
  ASSUME TypeOK, NEW r \in Replica
  PROVE  /\ job[r] \in Job /\ slack[r] \in 0 .. Slack
         /\ (job[r].at # None) <=> (job[r].pc \in {"confirm", "publish"})
         /\ (job[r].rows = {}) <=> (job[r].pc \in {"idle", "expired"})
BY Zenon DEF TypeOK

\* A worker's new job keeps the types.
LEMMA TypesOfWork ==
  ASSUME TypeOK, NEW r \in Replica, NEW j \in Job, job' = [job EXCEPT ![r] = j],
         slack' \in [Replica -> 0 .. Slack],
         (j.at # None) <=> (j.pc \in {"confirm", "publish"}),
         (j.rows = {}) <=> (j.pc \in {"idle", "expired"}),
         state' \in [Signal -> {"none", "pending", "corroborating", "confirmed", "expired"}],
         UNCHANGED <<age, coords, cells, ret>>,
         pub' \in [Signal -> {"none", "confirmed", "expired"}],
         lineage' \in [Signal -> SUBSET Signal],
         idle' \in [Signal -> 0..EVENT_TTL + 1], faults' \in 0 .. MaxFaults
  PROVE  TypeOK'
<1>1. job \in [Replica -> Job]
  BY Zenon DEF TypeOK
<1>2. \A q \in Replica : job'[q] = IF q = r THEN j ELSE job[q]
  BY Zenon, <1>1
<1>3. job' \in [Replica -> Job]
  BY Zenon, <1>1
<1>4. \A q \in Replica : /\ (job'[q].at # None) <=> (job'[q].pc \in {"confirm", "publish"})
                         /\ (job'[q].rows = {}) <=> (job'[q].pc \in {"idle", "expired"})
  BY <1>2, JobTyped
<1> QED BY Zenon, <1>3, <1>4 DEF TypeOK

\* The worker's job once cluster c is done.
LEMMA LeavesFact ==
  ASSUME TypeOK, JobInv, NEW r \in Replica, NEW c, job[r].pc \in {"clusters", "publish"},
         Left(r, c), Keeps
  PROVE  /\ Leaves(job[r], c) \in Job /\ Known(Leaves(job[r], c))
         /\ slack' \in [Replica -> 0 .. Slack]
         /\ \A q \in Replica : q # r => slack'[q] = slack[q]
         /\ Steady(Leaves(job[r], c), slack'[r], age, state')
         /\ LET j == Leaves(job[r], c) IN
            /\ (j.at # None) <=> (j.pc \in {"confirm", "publish"})
            /\ (j.rows = {}) <=> (j.pc \in {"idle", "expired"})
<1> DEFINE j == job[r]
<1>1. /\ j \in Job /\ slack \in [Replica -> 0 .. Slack] /\ j.rows # {} /\ Known(j)
      /\ Steady(j, slack[r], age, state')
  BY Zenon, JobTyped, JobKept DEF TypeOK, JobInv
<1>2. CASE j.todo = {c}
  <2>1. Leaves(j, c) = Resting /\ slack' = [slack EXCEPT ![r] = 0]
    BY Zenon, <1>2 DEF Leaves, Left
  <2>2. slack' \in [Replica -> 0 .. Slack] /\ \A q \in Replica : q # r => slack'[q] = slack[q]
    BY <1>1, <2>1, Windows
  <2> QED BY Zenon, <2>1, <2>2, RestingFact
<1>3. CASE j.todo # {c}
  <2> DEFINE n == [pc |-> "clusters", todo |-> j.todo \ {c}, at |-> None, rows |-> j.rows,
                   scored |-> j.scored, good |-> j.good, sure |-> j.sure]
  <2>1. Leaves(j, c) = n /\ slack' = slack
    BY Zenon, <1>3 DEF Leaves, Left
  <2>2. /\ n.pc = "clusters" /\ n.at = None /\ n.rows = j.rows /\ n.scored = j.scored
        /\ n.good = j.good /\ n.sure = j.sure
    BY Zenon
  <2>3. n \in Job
    BY Zenon, <1>1 DEF Job
  <2> HIDE DEF n
  <2>4. Known(n)
    BY Zenon, <1>1, <2>2 DEF Known
  <2>5. Steady(n, slack'[r], age, state')
    BY Zenon, <1>1, <2>1, <2>2 DEF Steady
  <2> QED BY Zenon, <1>1, <2>1, <2>2, <2>3, <2>4, <2>5
<1> QED BY Zenon, <1>2, <1>3

\* A step that leaves the states alone.
LEMMA StillKeeps ==
  ASSUME TypeOK, UNCHANGED state
  PROVE  Keeps
BY Zenon DEF Keeps

\* The places are coarsened by nobody else.
LEMMA PlaceKept ==
  ASSUME PlaceInv, Keeps, UNCHANGED <<age, coords, cells, ret>>
  PROVE  PlaceInv'
BY Zenon DEF PlaceInv, Keeps, CoarserFirst

-----------------------------------------------------------------------------
(* The actions *)

\* submit_signal: a signal that nobody has seen yet.
LEMMA SubmitStep ==
  ASSUME IInv, NEW s \in Signal, submit_signal(s)
  PROVE  IInv' /\ Keeps
<1>1. UNCHANGED <<age, pub, lineage, idle, job, slack, ret, faults>>
  BY Zenon DEF submit_signal, events, work
<1>2. /\ state \in [Signal -> {"none", "pending", "corroborating", "confirmed", "expired"}]
      /\ state' = [state EXCEPT ![s] = "pending"] /\ state[s] = "none"
      /\ coords' = coords \cup {s} /\ cells' = cells \cup {s}
  BY Zenon DEF submit_signal, IInv, TypeOK
<1>3. Keeps
  BY Zenon, <1>2 DEF Keeps, StillOpen, Climbed
<1>4. JobInv'
  BY Zenon, <1>1, <1>3, JobsUnchanged DEF IInv
<1>5. BackedByConfirmed'
  BY Zenon, <1>1, <1>3, BackedKept DEF IInv
<1>6. PlaceInv'
  <2>1. age[s] = 0
    BY Zenon, <1>2 DEF IInv, PlaceInv
  <2>2. \A q \in Signal : state'[q] = "none" => age'[q] = 0
    BY Zenon, <1>1, <1>3 DEF IInv, PlaceInv, Keeps
  <2>3. \A k \in Keeper : ret'[k] = "coords" => \A q \in coords' : age'[q] <= COORD_RETENTION
    BY <1>1, <1>2, <2>1, Windows DEF IInv, PlaceInv
  <2>4. CoarserFirst'
    BY Zenon, <1>2 DEF IInv, PlaceInv, CoarserFirst
  <2> QED BY Zenon, <2>2, <2>3, <2>4 DEF PlaceInv
<1>7. TypeOK'
  <2>1. state' \in [Signal -> {"none", "pending", "corroborating", "confirmed", "expired"}]
        /\ coords' \subseteq Signal /\ cells' \subseteq Signal
    BY Zenon, <1>2 DEF IInv, TypeOK
  <2> QED BY Zenon, <1>1, <2>1 DEF IInv, TypeOK
<1> QED BY Zenon, <1>3, <1>4, <1>5, <1>6, <1>7 DEF IInv

\* A step of a synthesis worker that leaves the events alone.
LEMMA WorkStep ==
  ASSUME IInv, NEW r \in Replica, NEW j \in Job, job' = [job EXCEPT ![r] = j], Keeps,
         state' \in [Signal -> {"none", "pending", "corroborating", "confirmed", "expired"}],
         UNCHANGED <<age, coords, cells, pub, lineage, idle, ret>>, faults' \in 0 .. MaxFaults,
         slack' \in [Replica -> 0 .. Slack],
         \A q \in Replica : q # r => slack'[q] = slack[q],
         Known(j), Steady(j, slack'[r], age, state'),
         (j.at # None) <=> (j.pc \in {"confirm", "publish"}),
         (j.rows = {}) <=> (j.pc \in {"idle", "expired"})
  PROVE  IInv'
<1>1. JobInv'
  BY Zenon, JobStep DEF IInv
<1>2. PlaceInv'
  BY Zenon, PlaceKept DEF IInv
<1>3. BackedByConfirmed'
  BY Zenon, BackedKept DEF IInv
<1>4. TypeOK'
  <2>1. /\ pub' \in [Signal -> {"none", "confirmed", "expired"}]
        /\ lineage' \in [Signal -> SUBSET Signal] /\ idle' \in [Signal -> 0..EVENT_TTL + 1]
    BY Zenon DEF IInv, TypeOK
  <2> QED BY Zenon, <2>1, TypesOfWork DEF IInv
<1> QED BY Zenon, <1>1, <1>2, <1>3, <1>4 DEF IInv

\* expire_stale_signals takes only rows that no worker has in hand.
LEMMA ExpireStep ==
  ASSUME IInv, NEW r \in Replica, expire_stale_signals(r)
  PROVE  IInv' /\ Keeps
<1> DEFINE j == [Resting EXCEPT !.pc = "expired"]
<1>1. UNCHANGED <<age, coords, cells, pub, lineage, idle, slack, ret, faults>>
  BY Zenon DEF expire_stale_signals, events
<1>2. /\ state' = [s \in Signal |-> IF Expires(s) THEN "expired" ELSE state[s]]
      /\ job' = [job EXCEPT ![r] = j]
  BY Zenon DEF expire_stale_signals
<1>3. /\ state \in [Signal -> {"none", "pending", "corroborating", "confirmed", "expired"}]
      /\ age \in [Signal -> 0 .. MaxAge]
  BY Zenon DEF IInv, TypeOK
<1>4. Keeps
  <2>1. ASSUME NEW s \in Signal, Expires(s)
        PROVE  state[s] # "confirmed" /\ ~(age[s] <= EXPIRY_WINDOW) /\ state'[s] # "none"
    <3>1. age[s] \in Int /\ EXPIRY_WINDOW \in Int
      BY <1>3, Windows DEF MaxAge
    <3> QED BY <1>2, <2>1, <3>1 DEF Expires
  <2>2. ASSUME NEW s \in Signal, ~Expires(s)
        PROVE  state'[s] = state[s]
    BY Zenon, <1>2, <2>2
  <2> QED BY Zenon, <2>1, <2>2 DEF Keeps
<1>5. /\ j \in Job /\ j.pc = "expired" /\ j.rows = {} /\ j.at = None /\ Known(j)
      /\ Steady(j, slack'[r], age, state')
  <2>1. j \in Job /\ j.pc = "expired" /\ j.rows = {} /\ j.at = None
    BY Zenon DEF Job, Resting
  <2>2. Known(j)
    BY Zenon DEF Known, Resting
  <2>3. Steady(j, slack'[r], age, state')
    BY Zenon DEF Steady, Resting
  <2> QED BY Zenon, <2>1, <2>2, <2>3
<1>6. state' \in [Signal -> {"none", "pending", "corroborating", "confirmed", "expired"}]
  BY Zenon, <1>2, <1>3
<1>7. /\ faults' \in 0 .. MaxFaults /\ slack' \in [Replica -> 0 .. Slack]
      /\ \A q \in Replica : q # r => slack'[q] = slack[q]
  BY Zenon, <1>1 DEF IInv, TypeOK
<1> HIDE DEF j
<1> QED BY Zenon, <1>1, <1>2, <1>4, <1>5, <1>6, <1>7, WorkStep

\* A tick that fails leaves nothing in hand.
LEMMA TickFailsStep ==
  ASSUME IInv, NEW r \in Replica, TickFails(r)
  PROVE  IInv' /\ Keeps
<1>1. UNCHANGED <<state, age, coords, cells, pub, lineage, idle, ret>>
  BY Zenon DEF TickFails, signals, events
<1>2. job' = [job EXCEPT ![r] = Resting] /\ slack' = [slack EXCEPT ![r] = 0]
  BY Zenon DEF TickFails
<1>3. /\ slack' \in [Replica -> 0 .. Slack] /\ \A q \in Replica : q # r => slack'[q] = slack[q]
      /\ state' \in [Signal -> {"none", "pending", "corroborating", "confirmed", "expired"}]
  BY <1>1, <1>2, Windows DEF IInv, TypeOK
<1>4. faults' \in 0 .. MaxFaults
  BY Windows DEF TickFails, IInv, TypeOK
<1>5. Keeps
  BY Zenon, <1>1, StillKeeps DEF IInv
<1> QED BY Zenon, <1>1, <1>2, <1>3, <1>4, <1>5, RestingFact, WorkStep

\* fetch_cluster_groups takes open rows that are young, and the scores say
\* which clusters have enough people and recordings.
LEMMA FetchStep ==
  ASSUME IInv, NEW r \in Replica, fetch_cluster_groups(r)
  PROVE  IInv' /\ Keeps
<1> DEFINE rows == {s \in Signal : Fetched(s)}
           scored == {s \in rows : age[s] <= CUTOFF}
           good == {c \in Clusters : Corroborated(In(scored, c))}
           sure == {c \in good : Confirmable(In(scored, c))}
           j == [pc |-> "clusters", todo |-> {Cluster[s] : s \in rows}, at |-> None,
                 rows |-> rows, scored |-> scored, good |-> good, sure |-> sure]
<1>1. UNCHANGED <<state, age, coords, cells, pub, lineage, idle, ret, faults>>
  BY Zenon DEF fetch_cluster_groups, signals, events
<1>2. Keeps
  BY Zenon, <1>1, StillKeeps DEF IInv
<1>3. /\ state' \in [Signal -> {"none", "pending", "corroborating", "confirmed", "expired"}]
      /\ faults' \in 0 .. MaxFaults /\ slack \in [Replica -> 0 .. Slack]
      /\ age \in [Signal -> 0 .. MaxAge]
  BY Zenon, <1>1 DEF IInv, TypeOK
<1>4. CASE rows = {}
  <2>1. job' = [job EXCEPT ![r] = Resting] /\ slack' = [slack EXCEPT ![r] = 0]
    BY Zenon, <1>4 DEF fetch_cluster_groups
  <2>2. slack' \in [Replica -> 0 .. Slack] /\ \A q \in Replica : q # r => slack'[q] = slack[q]
    BY <1>3, <2>1, Windows
  <2> QED BY Zenon, <1>1, <1>2, <1>3, <2>1, <2>2, RestingFact, WorkStep
<1>5. CASE rows # {}
  <2>1. job' = [job EXCEPT ![r] = j] /\ slack' = slack
    BY Zenon, <1>5 DEF fetch_cluster_groups
  <2>2. slack' \in [Replica -> 0 .. Slack] /\ \A q \in Replica : q # r => slack'[q] = slack[q]
    BY Zenon, <1>3, <2>1
  <2>3. {Cluster[s] : s \in rows} \subseteq Clusters
    BY Zenon, AcousticAssumption
  <2>4. j \in Job /\ j.at = None /\ j.pc = "clusters" /\ j.rows = rows
    BY Zenon, <2>3 DEF Job
  <2>5. Known(j)
    <3>1. scored \subseteq rows /\ sure \subseteq good
      BY Zenon
    <3>2. \A c \in good : Cardinality(Voices(In(scored, c))) >= MIN_CONTRIBUTORS
      BY Zenon DEF Corroborated
    <3>3. \A c \in sure :
            Cardinality(FingerprintsOf(In(scored, c))) >= MIN_DISTINCT_FINGERPRINTS
      BY Zenon DEF Confirmable
    <3> HIDE DEF rows, scored, good, sure
    <3> QED BY Zenon, <3>1, <3>2, <3>3 DEF Known
  <2>6. Steady(j, slack'[r], age, state')
    <3>1. ASSUME NEW s \in rows
          PROVE  age[s] <= FETCH_WINDOW + slack'[r] /\ state'[s] \in StillOpen
      <4>1. age[s] \in Nat /\ slack'[r] \in Nat
        BY <1>3, <2>2 DEF MaxAge
      <4>2. age[s] <= FETCH_WINDOW /\ state[s] \in {"pending", "corroborating"}
        BY Zenon DEF Fetched
      <4> QED BY <1>1, <4>1, <4>2, Windows DEF StillOpen
    <3> HIDE DEF rows, scored, good, sure
    <3> QED BY Zenon, <3>1 DEF Steady
  <2> HIDE DEF j, rows
  <2> QED BY Zenon, <1>1, <1>2, <1>3, <1>5, <2>1, <2>2, <2>4, <2>5, <2>6, WorkStep
<1> QED BY Zenon, <1>4, <1>5

\* process_cluster promotes open signals only, one rung at a time.
LEMMA PromotedFact ==
  ASSUME TypeOK, NEW r \in Replica, NEW c, NEW from, NEW to, Promoted(r, c, from, to),
         <<from, to>> \in {<<"pending", "corroborating">>, <<"corroborating", "confirmed">>}
  PROVE  /\ Keeps
         /\ state' \in [Signal -> {"none", "pending", "corroborating", "confirmed", "expired"}]
         /\ \A s \in Signal : s \in In(job[r].scored, c) /\ state[s] = from => state'[s] = to
<1>1. /\ state \in [Signal -> {"none", "pending", "corroborating", "confirmed", "expired"}]
      /\ state' = [s \in Signal |-> IF s \in In(job[r].scored, c) /\ state[s] = from
                                    THEN to ELSE state[s]]
  BY Zenon DEF TypeOK, Promoted
<1>2. (from = "pending" /\ to = "corroborating") \/ (from = "corroborating" /\ to = "confirmed")
  BY Zenon
<1>3. Keeps
  BY Zenon, <1>1, <1>2 DEF Keeps, StillOpen, Climbed
<1> QED BY Zenon, <1>1, <1>2, <1>3

\* The worker's job when it goes on with the next statement of cluster c.
LEMMA GoesFact ==
  ASSUME TypeOK, JobInv, NEW r \in Replica, NEW c \in job[r].sure, Keeps,
         job[r].pc \in {"clusters", "confirm"}, NEW p \in {"confirm", "publish"},
         p = "confirm" => \A s \in In(job[r].scored, c) : state'[s] \in Climbed,
         p = "publish" => \A s \in In(job[r].scored, c) : state'[s] = "confirmed"
  PROVE  /\ Goes(job[r], p, c) \in Job /\ Known(Goes(job[r], p, c))
         /\ Steady(Goes(job[r], p, c), slack[r], age, state')
         /\ LET j == Goes(job[r], p, c) IN
            /\ (j.at # None) <=> (j.pc \in {"confirm", "publish"})
            /\ (j.rows = {}) <=> (j.pc \in {"idle", "expired"})
<1> DEFINE j == job[r]
           n == Goes(j, p, c)
<1>1. /\ j \in Job /\ j.rows # {} /\ Known(j) /\ Steady(j, slack[r], age, state')
  BY Zenon, JobTyped, JobKept DEF JobInv
<1>2. c \in Clusters /\ c # None
  BY Zenon, <1>1, AcousticAssumption DEF Job
<1>3. /\ n.pc = p /\ n.at = c /\ n.rows = j.rows /\ n.scored = j.scored
      /\ n.good = j.good /\ n.sure = j.sure
  BY Zenon DEF Goes
<1>4. n \in Job
  BY Zenon, <1>1, <1>2 DEF Goes, Job
<1> HIDE DEF n
<1>5. Known(n)
  BY Zenon, <1>1, <1>3 DEF Known
<1>6. Steady(n, slack[r], age, state')
  BY Zenon, <1>1, <1>3 DEF Steady
<1>7. /\ (n.at # None) <=> (n.pc \in {"confirm", "publish"})
      /\ (n.rows = {}) <=> (n.pc \in {"idle", "expired"})
  BY Zenon, <1>1, <1>2, <1>3
<1> QED BY Zenon, <1>4, <1>5, <1>6, <1>7 DEF n

\* process_cluster gives a cluster up.
LEMMA SkipStep ==
  ASSUME IInv, NEW r \in Replica, NEW c \in Clusters, SkipCluster(r, c)
  PROVE  IInv'
<1>1. /\ UNCHANGED <<state, age, coords, cells, pub, lineage, idle, ret, faults>>
      /\ Left(r, c) /\ job[r].pc = "clusters"
  BY Zenon DEF SkipCluster, signals, events
<1>2. Keeps
  BY Zenon, <1>1, StillKeeps DEF IInv
<1>3. /\ state' \in [Signal -> {"none", "pending", "corroborating", "confirmed", "expired"}]
      /\ faults' \in 0 .. MaxFaults
  BY Zenon, <1>1 DEF IInv, TypeOK
<1>4. job' = [job EXCEPT ![r] = Leaves(job[r], c)]
  BY Zenon, <1>1 DEF Left
<1>5. TypeOK /\ JobInv
  BY Zenon DEF IInv
<1>6. /\ Leaves(job[r], c) \in Job /\ Known(Leaves(job[r], c))
      /\ slack' \in [Replica -> 0 .. Slack] /\ \A q \in Replica : q # r => slack'[q] = slack[q]
      /\ Steady(Leaves(job[r], c), slack'[r], age, state')
      /\ (Leaves(job[r], c).at # None) <=> (Leaves(job[r], c).pc \in {"confirm", "publish"})
      /\ (Leaves(job[r], c).rows = {}) <=> (Leaves(job[r], c).pc \in {"idle", "expired"})
  BY <1>1, <1>2, <1>5, LeavesFact
<1> QED BY Zenon, <1>1, <1>2, <1>3, <1>4, <1>6, WorkStep

\* process_cluster, pending -> corroborating: the scored rows are open, so all
\* of them have climbed when the confirming statement comes.
LEMMA CorroborateStep ==
  ASSUME IInv, NEW r \in Replica, NEW c \in Clusters, Corroborate(r, c)
  PROVE  IInv'
<1>1. /\ UNCHANGED <<age, coords, cells, pub, lineage, idle, ret, faults>>
      /\ job[r].pc = "clusters" /\ Promoted(r, c, "pending", "corroborating")
  BY Zenon DEF Corroborate, events
<1>2. TypeOK /\ JobInv
  BY Zenon DEF IInv
<1>3. /\ Keeps
      /\ state' \in [Signal -> {"none", "pending", "corroborating", "confirmed", "expired"}]
      /\ \A s \in Signal : s \in In(job[r].scored, c) /\ state[s] = "pending"
                             => state'[s] = "corroborating"
  BY <1>1, <1>2, PromotedFact
<1>4. faults' \in 0 .. MaxFaults /\ slack \in [Replica -> 0 .. Slack]
  BY Zenon, <1>1, <1>2 DEF TypeOK
<1>5. CASE c \in job[r].sure
  <2>1. job' = [job EXCEPT ![r] = Goes(job[r], "confirm", c)] /\ slack' = slack
    BY Zenon, <1>5 DEF Corroborate
  <2>2. ASSUME NEW s \in In(job[r].scored, c)
        PROVE  state'[s] \in Climbed
    <3>1. s \in job[r].rows
      BY Zenon, <1>2 DEF JobInv, Known, In
    <3>2. s \in Signal /\ age[s] <= EXPIRY_WINDOW /\ state[s] \in StillOpen
      BY Zenon, <1>2, <3>1, RowsAreYoung
    <3> QED BY Zenon, <1>3, <3>2 DEF Keeps, StillOpen, Climbed
  <2>3. /\ Goes(job[r], "confirm", c) \in Job /\ Known(Goes(job[r], "confirm", c))
        /\ Steady(Goes(job[r], "confirm", c), slack[r], age, state')
        /\ LET j == Goes(job[r], "confirm", c) IN
           /\ (j.at # None) <=> (j.pc \in {"confirm", "publish"})
           /\ (j.rows = {}) <=> (j.pc \in {"idle", "expired"})
    BY Zenon, <1>1, <1>2, <1>3, <1>5, <2>2, GoesFact
  <2> QED BY Zenon, <1>1, <1>3, <1>4, <2>1, <2>3, WorkStep
<1>6. CASE c \notin job[r].sure
  <2>1. Left(r, c)
    BY Zenon, <1>6 DEF Corroborate
  <2>2. job' = [job EXCEPT ![r] = Leaves(job[r], c)]
    BY Zenon, <2>1 DEF Left
  <2>3. /\ Leaves(job[r], c) \in Job /\ Known(Leaves(job[r], c))
        /\ slack' \in [Replica -> 0 .. Slack] /\ \A q \in Replica : q # r => slack'[q] = slack[q]
        /\ Steady(Leaves(job[r], c), slack'[r], age, state')
        /\ (Leaves(job[r], c).at # None) <=> (Leaves(job[r], c).pc \in {"confirm", "publish"})
        /\ (Leaves(job[r], c).rows = {}) <=> (Leaves(job[r], c).pc \in {"idle", "expired"})
    BY <1>1, <1>2, <1>3, <2>1, LeavesFact
  <2> QED BY Zenon, <1>1, <1>3, <1>4, <2>2, <2>3, WorkStep
<1> QED BY Zenon, <1>5, <1>6

\* process_cluster, corroborating -> confirmed.
LEMMA ConfirmStep ==
  ASSUME IInv, NEW r \in Replica, Confirm(r)
  PROVE  IInv'
<1> DEFINE c == job[r].at
<1>1. /\ UNCHANGED <<age, coords, cells, pub, lineage, idle, slack, ret, faults>>
      /\ job[r].pc = "confirm" /\ Promoted(r, c, "corroborating", "confirmed")
      /\ job' = [job EXCEPT ![r] = Goes(job[r], "publish", c)]
  BY Zenon DEF Confirm, events
<1>2. TypeOK /\ JobInv
  BY Zenon DEF IInv
<1>3. /\ Keeps
      /\ state' \in [Signal -> {"none", "pending", "corroborating", "confirmed", "expired"}]
      /\ \A s \in Signal : s \in In(job[r].scored, c) /\ state[s] = "corroborating"
                             => state'[s] = "confirmed"
  BY <1>1, <1>2, PromotedFact
<1>4. c \in job[r].sure
  BY Zenon, <1>1, <1>2 DEF JobInv, Known
<1>5. ASSUME NEW s \in In(job[r].scored, c)
      PROVE  state'[s] = "confirmed"
  <2>1. s \in job[r].rows /\ state[s] \in Climbed
    BY Zenon, <1>1, <1>2 DEF JobInv, Known, Steady, In
  <2>2. s \in Signal
    BY Zenon, <1>2, <2>1, RowsAreYoung
  <2> QED BY Zenon, <1>3, <2>1, <2>2 DEF Keeps, Climbed
<1>6. faults' \in 0 .. MaxFaults /\ slack' \in [Replica -> 0 .. Slack]
  BY Zenon, <1>1, <1>2 DEF TypeOK
<1>7. /\ Goes(job[r], "publish", c) \in Job /\ Known(Goes(job[r], "publish", c))
      /\ Steady(Goes(job[r], "publish", c), slack[r], age, state')
      /\ LET j == Goes(job[r], "publish", c) IN
         /\ (j.at # None) <=> (j.pc \in {"confirm", "publish"})
         /\ (j.rows = {}) <=> (j.pc \in {"idle", "expired"})
  BY Zenon, <1>1, <1>2, <1>3, <1>4, <1>5, GoesFact
<1> HIDE DEF c
<1> QED BY Zenon, <1>1, <1>3, <1>6, <1>7, WorkStep

\* upsert_public_event: what it writes as derived_from has been confirmed by the
\* statement before, whoever confirmed it.
LEMMA PublishStep ==
  ASSUME IInv, NEW r \in Replica, upsert_public_event(r)
  PROVE  IInv'
<1> DEFINE c == job[r].at
           D == Derived(job[r])
<1>1. UNCHANGED <<state, age, coords, cells, ret, faults>> /\ Left(r, c) /\ job[r].pc = "publish"
  BY Zenon DEF upsert_public_event, signals
<1>2. TypeOK /\ JobInv /\ Keeps
  BY Zenon, <1>1, StillKeeps DEF IInv
<1>3. job[r] \in Job /\ Known(job[r]) /\ Steady(job[r], slack[r], age, state)
  BY Zenon, <1>2, JobTyped DEF JobInv
<1>4. PICK f \in In(job[r].rows, c) :
        /\ pub' = [pub EXCEPT ![f] = IF @ = "none" THEN "confirmed" ELSE @]
        /\ lineage' = [lineage EXCEPT ![f] = D]
        /\ idle' = [idle EXCEPT ![f] = 0]
  BY Zenon DEF upsert_public_event
<1>5. f \in Signal /\ D \subseteq Signal
  BY Zenon, <1>3 DEF Job, In, Derived
<1>6. /\ \A s \in D : state[s] = "confirmed"
      /\ Cardinality(Voices(D)) >= MIN_CONTRIBUTORS
      /\ Cardinality(FingerprintsOf(D)) >= MIN_DISTINCT_FINGERPRINTS
  BY Zenon, <1>1, <1>3 DEF Known, Steady, Derived
<1> HIDE DEF D, c
<1>7. /\ pub \in [Signal -> {"none", "confirmed", "expired"}]
      /\ lineage \in [Signal -> SUBSET Signal] /\ idle \in [Signal -> 0..EVENT_TTL + 1]
  BY Zenon, <1>2 DEF TypeOK
<1>8. BackedByConfirmed'
  <2> SUFFICES ASSUME NEW g \in Signal, pub'[g] # "none"
               PROVE  /\ \A s \in lineage'[g] : state'[s] = "confirmed"
                      /\ Cardinality(Voices(lineage'[g])) >= MIN_CONTRIBUTORS
                      /\ Cardinality(FingerprintsOf(lineage'[g])) >= MIN_DISTINCT_FINGERPRINTS
    BY Zenon DEF BackedByConfirmed
  <2>1. CASE g = f
    BY Zenon, <1>1, <1>4, <1>5, <1>6, <1>7, <2>1
  <2>2. CASE g # f
    <3>1. lineage'[g] = lineage[g] /\ pub[g] # "none"
      BY Zenon, <1>4, <1>7, <2>2
    <3> QED BY Zenon, <1>1, <3>1 DEF IInv, BackedByConfirmed
  <2> QED BY Zenon, <2>1, <2>2
<1>9. /\ pub' \in [Signal -> {"none", "confirmed", "expired"}]
      /\ lineage' \in [Signal -> SUBSET Signal]
  BY Zenon, <1>4, <1>5, <1>7
<1>10. idle' \in [Signal -> 0..EVENT_TTL + 1]
  BY <1>4, <1>5, <1>7, Windows
<1>11. job' = [job EXCEPT ![r] = Leaves(job[r], c)]
  BY Zenon, <1>1 DEF Left
<1>12. /\ Leaves(job[r], c) \in Job /\ Known(Leaves(job[r], c))
       /\ slack' \in [Replica -> 0 .. Slack] /\ \A q \in Replica : q # r => slack'[q] = slack[q]
       /\ Steady(Leaves(job[r], c), slack'[r], age, state')
       /\ (Leaves(job[r], c).at # None) <=> (Leaves(job[r], c).pc \in {"confirm", "publish"})
       /\ (Leaves(job[r], c).rows = {}) <=> (Leaves(job[r], c).pc \in {"idle", "expired"})
  BY <1>1, <1>2, LeavesFact
<1>13. JobInv'
  BY Zenon, <1>1, <1>2, <1>11, <1>12, JobStep
<1>14. PlaceInv'
  BY Zenon, <1>1, <1>2, PlaceKept DEF IInv
<1>15. /\ state' \in [Signal -> {"none", "pending", "corroborating", "confirmed", "expired"}]
       /\ faults' \in 0 .. MaxFaults
  BY Zenon, <1>1, <1>2 DEF TypeOK
<1>16. TypeOK'
  BY Zenon, <1>1, <1>2, <1>9, <1>10, <1>11, <1>12, <1>15, TypesOfWork
<1> QED BY Zenon, <1>8, <1>13, <1>14, <1>16 DEF IInv

\* run_once and an error of it: no cell goes that has an exact place beside it,
\* for the statement before has taken the places that are older.
LEMMA RetentionStep ==
  ASSUME IInv, NEW k \in Keeper, Retention(k) \/ PassFails(k)
  PROVE  IInv'
<1>1. UNCHANGED <<state, age, lineage, idle, job, slack>>
  BY Zenon DEF Retention, NullCoords, NullCells, ExpireEvents, PassFails, signals, events, work
<1>2. TypeOK /\ JobInv /\ PlaceInv /\ BackedByConfirmed /\ Keeps
  BY Zenon, <1>1, StillKeeps DEF IInv
<1>3. JobInv'
  BY Zenon, <1>1, <1>2, JobsUnchanged
<1>4. /\ pub \in [Signal -> {"none", "confirmed", "expired"}] /\ age \in [Signal -> 0 .. MaxAge]
      /\ coords \subseteq Signal /\ cells \subseteq Signal /\ faults \in 0 .. MaxFaults
      /\ ret \in [Keeper -> {"idle", "coords", "cells"}]
  BY Zenon, <1>2 DEF TypeOK
<1>5. ASSUME /\ pub' \in [Signal -> {"none", "confirmed", "expired"}]
             /\ \A f \in Signal : pub'[f] # "none" => pub[f] # "none"
             /\ coords' \subseteq Signal /\ cells' \subseteq Signal /\ faults' \in 0 .. MaxFaults
             /\ ret' \in [Keeper -> {"idle", "coords", "cells"}]
             /\ coords' \subseteq cells'
             /\ \A q \in Keeper : ret'[q] = "coords" => \A s \in coords' : age[s] <= COORD_RETENTION
      PROVE  IInv'
  <2>1. BackedByConfirmed'
    BY Zenon, <1>1, <1>2, <1>5, BackedKept
  <2>2. PlaceInv'
    BY Zenon, <1>1, <1>2, <1>5 DEF PlaceInv, CoarserFirst
  <2>3. TypeOK'
    BY Zenon, <1>1, <1>2, <1>5 DEF TypeOK
  <2> QED BY Zenon, <1>3, <2>1, <2>2, <2>3 DEF IInv
<1>6. CASE NullCoords(k)
  <2>1. /\ coords' = {s \in coords : age[s] <= COORD_RETENTION} /\ cells' = cells
        /\ ret' = [ret EXCEPT ![k] = "coords"] /\ pub' = pub /\ faults' = faults
    BY Zenon, <1>6 DEF NullCoords, events
  <2>2. coords' \subseteq coords /\ \A s \in coords' : age[s] <= COORD_RETENTION
    BY Zenon, <2>1
  <2> QED BY Zenon, <1>2, <1>4, <1>5, <2>1, <2>2 DEF PlaceInv, CoarserFirst
<1>7. CASE NullCells(k)
  <2>1. /\ cells' = {s \in cells : age[s] <= H3R9_RETENTION} /\ coords' = coords
        /\ ret' = [ret EXCEPT ![k] = "cells"] /\ pub' = pub /\ faults' = faults /\ ret[k] = "coords"
    BY Zenon, <1>7 DEF NullCells, events
  <2>2. \A s \in coords : age[s] <= H3R9_RETENTION
    <3>1. \A s \in coords : age[s] <= COORD_RETENTION /\ age[s] \in Int
      BY <1>2, <1>4, <2>1 DEF PlaceInv, MaxAge
    <3> QED BY <3>1, Windows
  <2>3. coords' \subseteq cells' /\ cells' \subseteq Signal
    BY Zenon, <1>2, <1>4, <2>1, <2>2 DEF PlaceInv, CoarserFirst
  <2>4. \A q \in Keeper : ret'[q] = "coords" => ret[q] = "coords"
    BY Zenon, <1>4, <2>1
  <2> QED BY Zenon, <1>2, <1>4, <1>5, <2>1, <2>3, <2>4 DEF PlaceInv
<1>8. CASE ExpireEvents(k)
  <2>1. /\ pub' = [s \in Signal |-> IF pub[s] = "confirmed" /\ Idle(s) THEN "expired" ELSE pub[s]]
        /\ ret' = [ret EXCEPT ![k] = "idle"] /\ coords' = coords /\ cells' = cells
        /\ faults' = faults
    BY Zenon, <1>8 DEF ExpireEvents, signals
  <2>2. /\ pub' \in [Signal -> {"none", "confirmed", "expired"}]
        /\ \A f \in Signal : pub'[f] # "none" => pub[f] # "none"
    BY Zenon, <1>4, <2>1
  <2>3. \A q \in Keeper : ret'[q] = "coords" => ret[q] = "coords"
    BY Zenon, <1>4, <2>1
  <2> QED BY Zenon, <1>2, <1>4, <1>5, <2>1, <2>2, <2>3 DEF PlaceInv, CoarserFirst
<1>9. CASE PassFails(k)
  <2>1. /\ ret' = [ret EXCEPT ![k] = "idle"] /\ coords' = coords /\ cells' = cells /\ pub' = pub
        /\ faults < MaxFaults /\ faults' = faults + 1
    BY Zenon, <1>9 DEF PassFails, AfterError, signals, events
  <2>2. faults' \in 0 .. MaxFaults
    BY <1>4, <2>1, Windows
  <2>3. \A q \in Keeper : ret'[q] = "coords" => ret[q] = "coords"
    BY Zenon, <1>4, <2>1
  <2> QED BY Zenon, <1>2, <1>4, <1>5, <2>1, <2>2, <2>3 DEF PlaceInv, CoarserFirst
<1> QED BY Zenon, <1>6, <1>7, <1>8, <1>9 DEF Retention

\* Time: a tick that is under way still has slack, and no pass is between its
\* first two statements.
LEMMA AdvanceStep ==
  ASSUME IInv, Advance
  PROVE  IInv'
<1>1. /\ UNCHANGED <<state, coords, cells, pub, lineage, job, ret, faults>>
      /\ age' = [s \in Signal |-> IF state[s] = "none" \/ age[s] = MaxAge THEN age[s] ELSE age[s] + 1]
      /\ idle' = [s \in Signal |-> IF pub[s] = "none" \/ Idle(s) THEN idle[s] ELSE idle[s] + 1]
      /\ slack' = [r \in Replica |-> IF job[r].pc = "idle" THEN 0 ELSE slack[r] + 1]
      /\ \A r \in Replica : job[r].pc # "idle" => slack[r] < Slack
      /\ \A k \in Keeper : ret[k] # "coords"
  BY Zenon DEF Advance
<1>2. TypeOK /\ JobInv /\ PlaceInv /\ BackedByConfirmed /\ Keeps
  BY Zenon, <1>1, StillKeeps DEF IInv
<1>3. /\ age \in [Signal -> 0 .. MaxAge] /\ idle \in [Signal -> 0 .. EVENT_TTL + 1]
      /\ slack \in [Replica -> 0 .. Slack] /\ MaxAge \in Nat
  BY <1>2, Windows DEF TypeOK, MaxAge
<1>4. age' \in [Signal -> 0 .. MaxAge] /\ \A s \in Signal : age'[s] <= age[s] + 1
  BY <1>1, <1>3
<1>5. idle' \in [Signal -> 0 .. EVENT_TTL + 1]
  BY <1>1, <1>3, Windows DEF Idle
<1>6. slack' \in [Replica -> 0 .. Slack]
  BY <1>1, <1>3, Windows
<1>7. TypeOK'
  BY Zenon, <1>1, <1>2, <1>4, <1>5, <1>6 DEF TypeOK
<1>8. BackedByConfirmed'
  BY Zenon, <1>1, <1>2, BackedKept
<1>9. PlaceInv'
  BY Zenon, <1>1, <1>2, <1>3 DEF PlaceInv, CoarserFirst
<1>10. JobInv'
  <2> SUFFICES ASSUME NEW r \in Replica
               PROVE  Known(job[r]) /\ Steady(job[r], slack'[r], age', state)
    BY Zenon, <1>1 DEF JobInv
  <2>1. /\ job[r] \in Job /\ Known(job[r]) /\ Steady(job[r], slack[r], age, state)
        /\ (job[r].rows = {}) <=> (job[r].pc \in {"idle", "expired"})
    BY Zenon, <1>2, JobTyped DEF JobInv
  <2>2. ASSUME NEW s \in job[r].rows
        PROVE  age'[s] <= FETCH_WINDOW + slack'[r]
    <3>1. s \in Signal /\ job[r].pc # "idle"
      BY Zenon, <2>1 DEF Job
    <3>2. slack'[r] = slack[r] + 1 /\ age'[s] <= age[s] + 1 /\ age[s] <= FETCH_WINDOW + slack[r]
      BY Zenon, <1>1, <1>4, <2>1, <3>1 DEF Steady
    <3>3. age[s] \in Int /\ age'[s] \in Int /\ slack[r] \in Int
      BY <1>3, <1>4, <3>1
    <3> QED BY <3>2, <3>3, Windows
  <2> QED BY Zenon, <2>1, <2>2 DEF Steady
<1> QED BY Zenon, <1>7, <1>8, <1>9, <1>10 DEF IInv

-----------------------------------------------------------------------------
(* The theorems *)

\* The empty tables, and every replica between two ticks.
LEMMA InitIsSafe == Init => IInv
<1> SUFFICES ASSUME Init PROVE IInv
  BY Zenon
<1>1. \A r \in Replica : job[r] = Resting
  BY Zenon DEF Init
<1>2. JobInv
  BY Zenon, <1>1, RestingFact DEF JobInv
<1>3. PlaceInv
  BY Zenon DEF Init, PlaceInv, CoarserFirst
<1>4. BackedByConfirmed
  BY Zenon DEF Init, BackedByConfirmed
<1>5. MaxAge \in Nat /\ EVENT_TTL + 1 \in Nat /\ Slack \in Nat /\ MaxFaults \in Nat
  BY Windows DEF MaxAge
<1>6. TypeOK
  <2>1. job \in [Replica -> Job]
    BY Zenon, RestingFact DEF Init
  <2>2. \A r \in Replica : /\ (job[r].at # None) <=> (job[r].pc \in {"confirm", "publish"})
                           /\ (job[r].rows = {}) <=> (job[r].pc \in {"idle", "expired"})
    BY Zenon, <1>1, RestingFact
  <2> QED BY <1>5, <2>1, <2>2 DEF Init, TypeOK
<1> QED BY Zenon, <1>2, <1>3, <1>4, <1>6 DEF IInv

\* Every step of every worker, submission and tick of the clock.
LEMMA StepIsSafe == IInv /\ [Next]_vars => IInv'
<1> SUFFICES ASSUME IInv, [Next]_vars PROVE IInv'
  BY Zenon
<1>1. ASSUME NEW s \in Signal, submit_signal(s) PROVE IInv'
  BY Zenon, <1>1, SubmitStep
<1>2. ASSUME NEW r \in Replica, Synthesis(r) \/ TickFails(r) PROVE IInv'
  <2>1. CASE expire_stale_signals(r)
    BY Zenon, <2>1, ExpireStep
  <2>2. CASE fetch_cluster_groups(r)
    BY Zenon, <2>2, FetchStep
  <2>3. ASSUME NEW c \in Clusters, SkipCluster(r, c) PROVE IInv'
    BY Zenon, <2>3, SkipStep
  <2>4. ASSUME NEW c \in Clusters, Corroborate(r, c) PROVE IInv'
    BY Zenon, <2>4, CorroborateStep
  <2>5. CASE Confirm(r)
    BY Zenon, <2>5, ConfirmStep
  <2>6. CASE upsert_public_event(r)
    BY Zenon, <2>6, PublishStep
  <2>7. CASE TickFails(r)
    BY Zenon, <2>7, TickFailsStep
  <2> QED BY Zenon, <1>2, <2>1, <2>2, <2>3, <2>4, <2>5, <2>6, <2>7 DEF Synthesis
<1>3. ASSUME NEW k \in Keeper, Retention(k) \/ PassFails(k) PROVE IInv'
  BY Zenon, <1>3, RetentionStep
<1>4. CASE Advance
  BY Zenon, <1>4, AdvanceStep
<1>5. CASE UNCHANGED vars
  BY Zenon, <1>5 DEF vars, signals, events, work, IInv, TypeOK, JobInv, PlaceInv, BackedByConfirmed,
              CoarserFirst
<1> QED BY Zenon, <1>1, <1>2, <1>3, <1>4, <1>5 DEF Next

\* The tables and the jobs of the workers keep their types.
THEOREM AcousticTypeCorrect == Spec => []TypeOK
<1>1. IInv => TypeOK
  BY Zenon DEF IInv
<1> QED BY <1>1, InitIsSafe, StepIsSafe, PTL DEF Spec

\* What a synthesis worker holds never expires under it: while a tick takes less
\* than the gap between the fetch and the expiry window, no other replica's
\* expire_stale_signals takes a row away from it.
RowsStayOpen ==
  \A r \in Replica : \A s \in job[r].rows :
    age[s] <= EXPIRY_WINDOW /\ state[s] \in {"pending", "corroborating", "confirmed"}

\* RowsStayOpen for any number of replicas and signals.
THEOREM FetchedRowsStayOpen == Spec => []RowsStayOpen
<1>1. IInv => RowsStayOpen
  BY Zenon, RowsAreYoung DEF IInv, RowsStayOpen, StillOpen
<1> QED BY <1>1, InitIsSafe, StepIsSafe, PTL DEF Spec

\* Whatever upsert_public_event publishes stands on confirmed signals of enough
\* people and recordings, for any number of replicas that race for the cluster.
THEOREM EventsAreBacked == Spec => []BackedByConfirmed
<1>1. IInv => BackedByConfirmed
  BY Zenon DEF IInv
<1> QED BY <1>1, InitIsSafe, StepIsSafe, PTL DEF Spec

\* run_once coarsens places in order, with any number of retention workers and
\* passes that fail between two statements.
THEOREM PlacesFadeInOrder == Spec => []CoarserFirst
<1>1. IInv => CoarserFirst
  BY Zenon DEF IInv, PlaceInv
<1> QED BY <1>1, InitIsSafe, StepIsSafe, PTL DEF Spec

Rungs == {<<"none", "pending">>, <<"pending", "corroborating">>,
          <<"corroborating", "confirmed">>, <<"pending", "expired">>,
          <<"corroborating", "expired">>}

\* A step moves a signal along one rung or not at all.
LEMMA StepClimbs ==
  ASSUME TypeOK, [Next]_vars, NEW s \in Signal, state'[s] # state[s]
  PROVE  <<state[s], state'[s]>> \in Rungs
<1>1. state \in [Signal -> {"none", "pending", "corroborating", "confirmed", "expired"}]
  BY Zenon DEF TypeOK
<1>2. ASSUME NEW q \in Signal, submit_signal(q) PROVE <<state[s], state'[s]>> \in Rungs
  BY Zenon, <1>1, <1>2 DEF submit_signal, Rungs
<1>3. ASSUME NEW r \in Replica, expire_stale_signals(r) PROVE <<state[s], state'[s]>> \in Rungs
  <2>1. state' = [q \in Signal |-> IF Expires(q) THEN "expired" ELSE state[q]]
    BY Zenon, <1>3 DEF expire_stale_signals
  <2> QED BY Zenon, <1>1, <2>1 DEF Expires, Rungs
<1>4. ASSUME NEW r \in Replica, NEW c \in Clusters, Corroborate(r, c)
      PROVE  <<state[s], state'[s]>> \in Rungs
  BY Zenon, <1>1, <1>4 DEF Corroborate, Promoted, Rungs
<1>5. ASSUME NEW r \in Replica, Confirm(r) PROVE <<state[s], state'[s]>> \in Rungs
  BY Zenon, <1>1, <1>5 DEF Confirm, Promoted, Rungs
<1>6. ASSUME NEW r \in Replica, fetch_cluster_groups(r) PROVE state' = state
  BY Zenon, <1>6 DEF fetch_cluster_groups, signals
<1>7. ASSUME NEW r \in Replica, NEW c \in Clusters, SkipCluster(r, c) PROVE state' = state
  BY Zenon, <1>7 DEF SkipCluster, signals
<1>8. ASSUME NEW r \in Replica, upsert_public_event(r) \/ TickFails(r) PROVE state' = state
  BY Zenon, <1>8 DEF upsert_public_event, TickFails, signals
<1>9. ASSUME NEW k \in Keeper, Retention(k) \/ PassFails(k) PROVE state' = state
  BY Zenon, <1>9 DEF Retention, NullCoords, NullCells, ExpireEvents, PassFails, signals
<1>10. ASSUME Advance \/ UNCHANGED vars PROVE state' = state
  BY Zenon, <1>10 DEF Advance, vars, signals
<1> QED BY Zenon, <1>2, <1>3, <1>4, <1>5, <1>6, <1>7, <1>8, <1>9, <1>10 DEF Next, Synthesis

\* Trust only climbs, and nothing that is confirmed or expired moves again, for
\* any interleaving of replicas, statements and failed ticks.
THEOREM SignalsOnlyClimb == Spec => LadderOnly
<1>1. TypeOK /\ [Next]_vars =>
        [\A s \in Signal : state'[s] # state[s] =>
           <<state[s], state'[s]>> \in {<<"none", "pending">>, <<"pending", "corroborating">>,
              <<"corroborating", "confirmed">>, <<"pending", "expired">>,
              <<"corroborating", "expired">>}]_vars
  BY Zenon, StepClimbs DEF Rungs
<1> QED BY <1>1, AcousticTypeCorrect, PTL DEF Spec, LadderOnly

-----------------------------------------------------------------------------
(* The listening overlay *)

Session == [mounted : BOOLEAN, ph : {"init", "media", "worklet", "on", "failed"},
            detector : BOOLEAN, capture : BOOLEAN, stream : BOOLEAN, context : BOOLEAN]
Window == [id : Nat, scores : Sounds, ph : {"predict", "locate", "sent"}, open : {TRUE}]

\* A mounting that has its detector is open, whatever it awaits, and so every
\* window whose prediction was begun was heard by an open overlay.
SessionInv ==
  /\ sessions \in Seq(Session)
  /\ \A s \in Sessions : sessions[s].detector => sessions[s].mounted
ListenInv == SessionInv /\ windows \subseteq Window /\ heard \in Nat

\* stop() touches the microphone only.
LEMMA StopKeeps ==
  ASSUME NEW c \in Session
  PROVE  stop(c) \in Session /\ stop(c).detector = c.detector /\ stop(c).mounted = c.mounted
BY Zenon DEF stop, Session

\* A step that changes one mounting, to one whose detector is gone or kept as
\* it was with the overlay, keeps the relation between the two.
LEMMA SessionChanges ==
  ASSUME SessionInv, NEW s \in Sessions, NEW c \in Session, c.detector => c.mounted,
         sessions' = [sessions EXCEPT ![s] = c]
  PROVE  SessionInv'
<1>1. s \in 1 .. Len(sessions) /\ sessions \in Seq(Session)
  BY SMT DEF SessionInv, Sessions
<1>2. sessions' \in Seq(Session) /\ Sessions' = Sessions
  BY SMT, <1>1 DEF Sessions
<1>3. ASSUME NEW t \in Sessions' PROVE sessions'[t].detector => sessions'[t].mounted
  <2>1. CASE t = s BY SMT, <2>1, <1>1
  <2>2. CASE t # s BY Zenon, <2>2, <1>1, <1>2, <1>3 DEF SessionInv, Sessions
  <2> QED BY Zenon, <2>1, <2>2
<1> QED BY Zenon, <1>2, <1>3 DEF SessionInv

\* No step leaves a closed mounting with a detector.
LEMMA SessionStep == SessionInv /\ [ListenNext]_listenVars => SessionInv'
<1> SUFFICES ASSUME SessionInv, [ListenNext]_listenVars PROVE SessionInv'
  BY Zenon
<1>a. \A s \in Sessions : sessions[s] \in Session /\ (sessions[s].detector => sessions[s].mounted)
  BY SMT DEF SessionInv, Sessions
<1>1. CASE mount
  <2>1. Mounted \in Session /\ Mounted.mounted
    BY Zenon DEF Mounted, Session
  <2>2. sessions' = Append(sessions, Mounted)
    BY Zenon, <1>1 DEF mount
  <2> QED BY SMT, <2>1, <2>2 DEF SessionInv, Sessions
<1>2. ASSUME NEW s \in Open, unmount(s) PROVE SessionInv'
  <2> DEFINE c == [stop(sessions[s]) EXCEPT !.mounted = FALSE, !.detector = FALSE]
  <2>1. s \in Sessions /\ sessions' = [sessions EXCEPT ![s] = c]
    BY Zenon, <1>2 DEF unmount, Open
  <2>2. stop(sessions[s]) \in Session
    BY Zenon, <2>1, <1>a, StopKeeps
  <2>3. c \in Session /\ c.detector = FALSE
    BY Zenon, <2>2 DEF Session
  <2> HIDE DEF c
  <2> QED BY Zenon, <2>1, <2>3, SessionChanges, <1>2 DEF SessionInv
<1>3. CASE onClose
  BY Zenon, <1>3, <1>2 DEF onClose
<1>4. CASE dismiss
  BY Zenon, <1>4, <1>2 DEF dismiss
<1>5. CASE handleVisibilityChange
  <2>2. CASE sessions' = sessions BY Zenon, <2>2 DEF SessionInv, Sessions
  <2>3. CASE stopMounted
    <3>1. sessions' = [s \in Sessions |-> IF s \in Open THEN stop(sessions[s]) ELSE sessions[s]]
      BY Zenon, <2>3 DEF stopMounted
    <3>2. \A s \in Sessions : /\ sessions'[s] \in Session
                              /\ sessions'[s].detector => sessions'[s].mounted
      BY Zenon, <3>1, <1>a, StopKeeps
    <3>3. DOMAIN sessions' = 1 .. Len(sessions) /\ Len(sessions) \in Nat /\ Sessions = 1 .. Len(sessions)
      BY SMT, <3>1 DEF SessionInv, Sessions
    <3>4. sessions' \in Seq(Session)
      BY SMT, <3>1, <3>2, <3>3
    <3> QED BY Zenon, <3>2, <3>3, <3>4 DEF SessionInv, Sessions
  <2> QED BY Zenon, <2>2, <2>3, <1>5 DEF handleVisibilityChange
<1>6. ASSUME NEW s \in Sessions, init(s) PROVE SessionInv'
  <2>1. sessions[s] \in Session
    BY Zenon, <1>6, <1>a DEF init
  <2> DEFINE c == [sessions[s] EXCEPT !.ph = "media", !.capture = TRUE]
             d == [sessions[s] EXCEPT !.ph = "failed"]
  <2>2. sessions' = [sessions EXCEPT ![s] = c] \/ sessions' = [sessions EXCEPT ![s] = d]
    BY Zenon, <1>6 DEF init
  <2>3. /\ c \in Session /\ c.detector = sessions[s].detector /\ c.mounted = sessions[s].mounted
        /\ d \in Session /\ d.detector = sessions[s].detector /\ d.mounted = sessions[s].mounted
    BY Zenon, <2>1 DEF Session
  <2> HIDE DEF c, d
  <2> QED BY Zenon, <2>1, <2>2, <2>3, <1>a, SessionChanges DEF SessionInv
<1>7. ASSUME NEW s \in Sessions, getUserMedia(s) PROVE SessionInv'
  <2>1. sessions[s] \in Session
    BY Zenon, <1>7, <1>a DEF getUserMedia
  <2> DEFINE c == [sessions[s] EXCEPT !.ph = "worklet", !.stream = TRUE, !.context = TRUE]
             d == [stop(sessions[s]) EXCEPT !.ph = "failed"]
  <2>2. sessions' = [sessions EXCEPT ![s] = c] \/ sessions' = [sessions EXCEPT ![s] = d]
    BY Zenon, <1>7 DEF getUserMedia
  <2>3. /\ stop(sessions[s]) \in Session /\ stop(sessions[s]).detector = sessions[s].detector
        /\ stop(sessions[s]).mounted = sessions[s].mounted
    BY Zenon, <2>1, StopKeeps
  <2>4. /\ c \in Session /\ c.detector = sessions[s].detector /\ c.mounted = sessions[s].mounted
        /\ d \in Session /\ d.detector = sessions[s].detector /\ d.mounted = sessions[s].mounted
    BY Zenon, <2>1, <2>3 DEF Session
  <2> HIDE DEF c, d
  <2> QED BY Zenon, <2>1, <2>2, <2>4, <1>a, SessionChanges DEF SessionInv
<1>8. ASSUME NEW s \in Sessions, addModule(s) PROVE SessionInv'
  <2>1. sessions[s] \in Session
    BY Zenon, <1>8, <1>a DEF addModule
  <2> DEFINE c == [sessions[s] EXCEPT !.ph = "on"]
             d == [stop(sessions[s]) EXCEPT !.ph = "failed"]
  <2>2. sessions' = [sessions EXCEPT ![s] = c] \/ sessions' = [sessions EXCEPT ![s] = d]
    BY Zenon, <1>8 DEF addModule
  <2>3. /\ stop(sessions[s]) \in Session /\ stop(sessions[s]).detector = sessions[s].detector
        /\ stop(sessions[s]).mounted = sessions[s].mounted
    BY Zenon, <2>1, StopKeeps
  <2>4. /\ c \in Session /\ c.detector = sessions[s].detector /\ c.mounted = sessions[s].mounted
        /\ d \in Session /\ d.detector = sessions[s].detector /\ d.mounted = sessions[s].mounted
    BY Zenon, <2>1, <2>3 DEF Session
  <2> HIDE DEF c, d
  <2> QED BY Zenon, <2>1, <2>2, <2>4, <1>a, SessionChanges DEF SessionInv
<1>9. CASE UNCHANGED sessions
  BY Zenon, <1>9 DEF SessionInv, Sessions
<1> QED
  BY Zenon, <1>1, <1>3, <1>4, <1>5, <1>6, <1>7, <1>8, <1>9
  DEF ListenNext, listenVars, onWindow, processWindow, submitAcousticSignal

\* A window is begun by a mounting with a detector, and keeps what it says of it.
LEMMA WindowStep ==
  SessionInv /\ windows \subseteq Window /\ heard \in Nat /\ [ListenNext]_listenVars
    => windows' \subseteq Window /\ heard' \in Nat
<1> SUFFICES ASSUME SessionInv, windows \subseteq Window, heard \in Nat, [ListenNext]_listenVars
             PROVE  windows' \subseteq Window /\ heard' \in Nat
  BY Zenon
<1>1. ASSUME NEW s \in Sessions, NEW scores \in Sounds, onWindow(s, scores)
      PROVE  windows' \subseteq Window /\ heard' \in Nat
  <2>1. heard' = heard + 1
    BY Zenon, <1>1 DEF onWindow
  <2>2. heard' \in Nat BY SMT, <2>1
  <2>3. ASSUME NEW w \in windows', w \notin windows PROVE w \in Window
    <3>1. sessions[s].detector /\ w = [id |-> heard, scores |-> scores, ph |-> "predict",
                                       open |-> sessions[s].mounted]
      BY Zenon, <1>1, <2>3 DEF onWindow
    <3>2. sessions[s].mounted = TRUE
      <4>1. sessions[s] \in Session BY SMT DEF SessionInv, Sessions
      <4> QED BY Zenon, <3>1, <4>1 DEF SessionInv, Session
    <3> QED BY Zenon, <3>1, <3>2 DEF Window
  <2> QED BY Zenon, <2>2, <2>3
<1>2. ASSUME NEW w \in windows, processWindow(w) PROVE windows' \subseteq Window /\ heard' \in Nat
  <2>1. [w EXCEPT !.ph = "locate"] \in Window
    BY Zenon DEF Window
  <2> QED BY Zenon, <1>2, <2>1 DEF processWindow
<1>3. ASSUME NEW w \in windows, submitAcousticSignal(w) PROVE windows' \subseteq Window /\ heard' \in Nat
  <2>1. [w EXCEPT !.ph = "sent"] \in Window
    BY Zenon DEF Window
  <2> QED BY Zenon, <1>3, <2>1 DEF submitAcousticSignal
<1>4. CASE UNCHANGED <<windows, heard>>
  BY Zenon, <1>4
<1> QED
  BY Zenon, <1>1, <1>2, <1>3, <1>4
  DEF ListenNext, listenVars, mount, onClose, dismiss, handleVisibilityChange, init,
      getUserMedia, addModule

\* What leaves the device was heard by an open overlay (useAcousticDetection.ts):
\* for any threshold and sounds, however late the browser grants the microphone.
THEOREM SignalsHeardWhileOpen == ListenSpec => []SentWasHeardOpen
<1>1. ListenInit => ListenInv
  BY SMT DEF ListenInit, ListenInv, SessionInv, Sessions
<1>2. ListenInv /\ [ListenNext]_listenVars => ListenInv'
  BY Zenon, SessionStep, WindowStep DEF ListenInv
<1>3. ListenInv => SentWasHeardOpen
  BY Zenon DEF ListenInv, Window, SentWasHeardOpen
<1> QED BY <1>1, <1>2, <1>3, PTL DEF ListenSpec

-----------------------------------------------------------------------------
(* Runs: what a step function computes along a sequence *)

IsRun(f, a, n, S, G) == f \in [0..n -> S] /\ f[0] = a /\ \A k \in 1..n : f[k] = G[k][f[k - 1]]
FollowsRun(g, a, n, S, G) == g[0] = a /\ \A k \in 1..n : g[k - 1] \in S => g[k] = G[k][g[k - 1]]
RunSteps(S, n) == [1..n -> [S -> S]]

\* A run of n steps from a exists, whatever the steps are ...
LEMMA RunExists ==
  ASSUME NEW S, NEW a \in S, NEW n \in Nat, NEW G \in RunSteps(S, n)
  PROVE  \E f : IsRun(f, a, n, S, G)
<1> USE DEF RunSteps
<1> DEFINE Runs(m) == {f \in [0..m -> S] : f[0] = a /\ \A k \in 1..m : f[k] = G[k][f[k - 1]]}
           Bad == {m \in 0..n : Runs(m) = {}}
<1>1. Bad = {}
  <2> SUFFICES ASSUME Bad # {} PROVE FALSE BY Zenon
  <2>1. Bad \subseteq Nat BY SMT
  <2>2. PICK m \in Bad : \A x \in Bad : ~(<<x, m>> \in OpToRel(<, Nat))
    BY Zenon, <2>1, NatLessThanWellFounded, WFMin
  <2>3. m \in 0..n /\ m \in Nat BY SMT
  <2>4. CASE m = 0
    <3> DEFINE f == [x \in 0..0 |-> a]
    <3>1. f \in Runs(0) BY SMT
    <3> QED BY Zenon, <3>1, <2>4
  <2>5. CASE m # 0
    <3>1. m - 1 \in 0..n /\ m - 1 \in Nat /\ m - 1 < m /\ m \in 1..n BY SMT, <2>3, <2>5
    <3>2. m - 1 \notin Bad BY Zenon, <2>2, <2>3, <3>1 DEF OpToRel
    <3>3. PICK g \in Runs(m - 1) : TRUE BY Zenon, <3>1, <3>2
    <3> DEFINE f == [x \in 0..m |-> IF x = m THEN G[m][g[m - 1]] ELSE g[x]]
    <3>4. g \in [0..(m - 1) -> S] /\ g[0] = a /\ \A k \in 1..(m - 1) : g[k] = G[k][g[k - 1]] BY Zenon, <3>3
    <3>5. G[m] \in [S -> S] /\ g[m - 1] \in S BY SMT, <3>1, <3>4
    <3>6. f \in [0..m -> S] /\ f[0] = a BY SMT, <2>3, <2>5, <3>4, <3>5
    <3>7. \A k \in 1..m : f[k] = G[k][f[k - 1]] BY SMT, <2>3, <2>5, <3>4
    <3> HIDE DEF f
    <3>8. f \in Runs(m) BY Zenon, <3>6, <3>7
    <3> QED BY Zenon, <3>8
  <2> QED BY Zenon, <2>4, <2>5
<1>2. n \in 0..n BY SMT
<1>3. Runs(n) # {} BY Zenon, <1>1, <1>2
<1> QED BY Zenon, <1>3 DEF IsRun

\* ... and is determined by its steps.
LEMMA RunUnique ==
  ASSUME NEW n \in Nat, NEW S, NEW G \in RunSteps(S, n), NEW a, NEW f, IsRun(f, a, n, S, G),
         NEW g, FollowsRun(g, a, n, S, G)
  PROVE  \A m \in 0..n : f[m] = g[m]
<1> USE DEF RunSteps, IsRun, FollowsRun
<1> DEFINE Bad == {m \in 0..n : f[m] # g[m]}
<1>1. Bad = {}
  <2> SUFFICES ASSUME Bad # {} PROVE FALSE BY Zenon
  <2>1. Bad \subseteq Nat BY SMT
  <2>2. PICK m \in Bad : \A x \in Bad : ~(<<x, m>> \in OpToRel(<, Nat))
    BY Zenon, <2>1, NatLessThanWellFounded, WFMin
  <2>3. m # 0 BY Zenon
  <2>4. m \in 1..n /\ m - 1 \in 0..n /\ m - 1 \in Nat /\ m \in Nat /\ m - 1 < m BY SMT, <2>3
  <2>5. f[m - 1] = g[m - 1] /\ f[m - 1] \in S BY Zenon, <2>2, <2>4 DEF OpToRel
  <2>6. f[m] = g[m] BY Zenon, <2>4, <2>5
  <2> QED BY Zenon, <2>6
<1> QED BY Zenon, <1>1

-----------------------------------------------------------------------------
(* The viewport socket *)

Socketed ==
  [pc : {"await", "sent", "loop", "resync", "closed"}, known : Digests,
   bounds : Areas \cup {NoBounds}, pending : Areas \cup {NoBounds}, rx : Seq(Message),
   lagged : BOOLEAN, rate_count : Nat, sure : BOOLEAN, cut : SUBSET Event]
Asked == [type : {"SUBSCRIBE", "VIEWPORT_CHANGED"}, bounds : Areas]

ViewTypes ==
  /\ row \in Digests /\ tosend \subseteq Message /\ srv \in Socketed
  /\ up \in Seq(Asked) /\ hook \in Hook

\* Before its loop, and from a lag to the next query, the handler is not sure.
SureInv == srv.sure => srv.pc \in {"loop", "closed"}
\* A handler past its first message has bounds.
BoundInv == srv.pc \in {"sent", "loop", "resync"} => srv.bounds \in Areas
ViewInv == ViewTypes /\ SureInv /\ BoundInv /\ NothingMissed

\* The ids of what the receiver holds.
Ids(q) == {m.id : m \in Range(q)}
Accounted(e, s, t) == \/ e \in Keys(s.known) \/ e \in s.cut \/ e \in Ids(s.rx)
                      \/ \E m \in t : m.id = e

\* A fresh handler.
LEMMA FreshFact == Fresh \in Socketed /\ Fresh.sure = FALSE /\ Fresh.pc = "await"
<1>1. <<>> \in Seq(Message) /\ 0 \in Nat /\ Nothing \in Digests
  BY SMT DEF Nothing, Digests, Digest
<1> QED BY Zenon, <1>1 DEF Fresh, Socketed

\* What a query returns lies in the bounds, and is read as it is stored.
LEMMA QueryFact ==
  ASSUME ViewTypes, NEW b \in Areas, NEW R \in query_viewport_events(b)
  PROVE  /\ R \subseteq Inside(b) /\ Inside(b) \subseteq Event
         /\ Read(R) \in Digests /\ R \subseteq Keys(Read(R))
<1>1. R \subseteq Inside(b) /\ Inside(b) \subseteq Event
  BY Zenon, ViewAssumption DEF query_viewport_events, Inside
<1>2. Read(R) \in Digests
  BY SMT DEF Read, Digests, Digest, ViewTypes
<1>3. R \subseteq Keys(Read(R))
  BY Zenon, <1>1 DEF Keys, Read, Inside
<1> QED BY Zenon, <1>1, <1>2, <1>3

\* Ids of a queue that gets or loses a message.
LEMMA IdsFact ==
  ASSUME NEW q \in Seq(Message)
  PROVE  /\ \A m \in Message : Append(q, m) \in Seq(Message) /\ Ids(q) \cup {m.id} \subseteq Ids(Append(q, m))
         /\ q # <<>> => /\ Tail(q) \in Seq(Message) /\ Head(q) \in Message
                        /\ Ids(q) \subseteq Ids(Tail(q)) \cup {Head(q).id}
<1>1. ASSUME NEW m \in Message
      PROVE  Append(q, m) \in Seq(Message) /\ Ids(q) \cup {m.id} \subseteq Ids(Append(q, m))
  <2>1. Append(q, m) \in Seq(Message) /\ Len(q) \in Nat /\ Len(Append(q, m)) = Len(q) + 1
        /\ Append(q, m)[Len(q) + 1] = m
    BY SMT
  <2>2. \A i \in DOMAIN q : i \in DOMAIN Append(q, m) /\ Append(q, m)[i] = q[i]
    BY SMT
  <2>3. Len(q) + 1 \in DOMAIN Append(q, m)
    BY SMT, <2>1
  <2>4. \A x \in Range(q) : x \in Range(Append(q, m))
    BY Zenon, <2>2 DEF Range
  <2>5. m \in Range(Append(q, m))
    BY Zenon, <2>1, <2>3 DEF Range
  <2> QED BY Zenon, <2>1, <2>4, <2>5 DEF Ids
<1>2. ASSUME q # <<>>
      PROVE  /\ Tail(q) \in Seq(Message) /\ Head(q) \in Message
             /\ Ids(q) \subseteq Ids(Tail(q)) \cup {Head(q).id}
  <2>1. Tail(q) \in Seq(Message) /\ Head(q) \in Message
    BY SMT, <1>2
  <2>2. ASSUME NEW i \in DOMAIN q PROVE q[i] = Head(q) \/ \E j \in DOMAIN Tail(q) : Tail(q)[j] = q[i]
    <3>1. CASE i = 1 BY SMT, <3>1, <1>2
    <3>2. CASE i # 1
      <4>1. i - 1 \in DOMAIN Tail(q) /\ Tail(q)[i - 1] = q[i] BY SMT, <3>2, <1>2
      <4> QED BY Zenon, <4>1
    <3> QED BY Zenon, <3>1, <3>2
  <2>3. \A x \in Range(q) : x = Head(q) \/ x \in Range(Tail(q))
    BY Zenon, <2>2 DEF Range
  <2> QED BY Zenon, <2>1, <2>3 DEF Ids
<1> QED BY Zenon, <1>1, <1>2

\* NothingMissed, event by event.
LEMMA MissedFact ==
  NothingMissed <=>
    (srv.pc = "loop" /\ srv.sure /\ ~srv.lagged =>
       \A e \in srv.bounds : row[e] # 0 => Accounted(e, srv, tosend))
BY Zenon DEF NothingMissed, Inside, Accounted, Ids

\* The page's side of the socket: the handler stays as it is, or starts afresh.
LEMMA PageKeeps ==
  ASSUME ViewInv, UNCHANGED <<row, tosend>>, srv' = srv \/ srv' = Fresh,
         up' \in Seq(Asked), hook' \in Hook
  PROVE  ViewInv'
<1>1. CASE srv' = srv
  <2>1. NothingMissed' BY Zenon, <1>1 DEF ViewInv, NothingMissed, Inside
  <2> QED BY Zenon, <1>1, <2>1 DEF ViewInv, ViewTypes, SureInv, BoundInv
<1>2. CASE srv' = Fresh
  <2>1. NothingMissed' BY Zenon, <1>2, FreshFact DEF NothingMissed
  <2> QED BY Zenon, <1>2, <2>1, FreshFact DEF ViewInv, ViewTypes, SureInv, BoundInv
<1> QED BY Zenon, <1>1, <1>2

\* A step of the handler: what is to be shown of it.
LEMMA HandlerKeeps ==
  ASSUME ViewInv, UNCHANGED <<row, tosend, hook>>, up' \in Seq(Asked), srv' \in Socketed,
         srv'.sure => srv'.pc \in {"loop", "closed"},
         srv'.pc \in {"sent", "loop", "resync"} => srv'.bounds \in Areas,
         srv'.pc = "loop" /\ srv'.sure /\ ~srv'.lagged =>
           \A e \in srv'.bounds : row[e] # 0 => Accounted(e, srv', tosend)
  PROVE  ViewInv'
<1>1. NothingMissed'
  BY Zenon DEF NothingMissed, Inside, Accounted, Ids
<1> QED BY Zenon, <1>1 DEF ViewInv, ViewTypes, SureInv, BoundInv

\* ViewInv is inductive: the writers and the broadcasts.
LEMMA WritersStep ==
  ASSUME ViewInv, Writer \/ \E m \in tosend : Broadcast(m) PROVE ViewInv'
<1> USE DEF ViewInv
<1>1. ASSUME NEW e \in Event, NEW d \in {1, 2}, announced(e, d) PROVE ViewInv'
  <2>1. /\ row' = [row EXCEPT ![e] = d] /\ tosend' = tosend \cup {[id |-> e, digest |-> d]}
        /\ UNCHANGED <<srv, up, hook>>
    BY Zenon, <1>1 DEF announced, socket
  <2>2. row' \in Digests
    BY SMT, <2>1 DEF ViewTypes, Digests, Digest
  <2>3. [id |-> e, digest |-> d] \in Message /\ [id |-> e, digest |-> d].id = e
    <3>1. d \in Digest \ {0} BY SMT DEF Digest
    <3> QED BY Zenon, <3>1 DEF Message
  <2>4. ASSUME srv.pc = "loop", srv.sure, ~srv.lagged, NEW x \in srv.bounds, row'[x] # 0
        PROVE  Accounted(x, srv, tosend')
    <3>1. CASE x = e BY Zenon, <3>1, <2>1, <2>3 DEF Accounted
    <3>2. CASE x # e
      <4>0. x \in Event BY Zenon, <2>4, ViewAssumption DEF BoundInv
      <4>1. row[x] # 0 BY Zenon, <4>0, <3>2, <2>1, <2>4 DEF ViewTypes, Digests
      <4>2. Accounted(x, srv, tosend) BY Zenon, <4>1, <2>4, MissedFact
      <4> QED BY Zenon, <4>2, <2>1 DEF Accounted
    <3> QED BY Zenon, <3>1, <3>2
  <2>5. NothingMissed'
    <3>1. srv'.pc = "loop" /\ srv'.sure /\ ~srv'.lagged =>
            \A x \in srv'.bounds : row'[x] # 0 => Accounted(x, srv', tosend')
      BY Zenon, <2>1, <2>4
    <3> QED BY Zenon, <3>1 DEF NothingMissed, Inside, Accounted, Ids
  <2> QED BY Zenon, <2>1, <2>2, <2>3, <2>5 DEF ViewTypes, SureInv, BoundInv
<1>2. ASSUME NEW e \in Event, expire_stale_events(e) PROVE ViewInv'
  <2>1. row' = [row EXCEPT ![e] = 0] /\ UNCHANGED <<tosend, srv, up, hook>>
    BY Zenon, <1>2 DEF expire_stale_events, socket
  <2>2. row' \in Digests /\ \A x \in Event : row'[x] # 0 => row[x] # 0
    BY SMT, <2>1 DEF ViewTypes, Digests, Digest
  <2>4. ASSUME srv.pc = "loop", NEW x \in srv.bounds, row'[x] # 0 PROVE row[x] # 0
    BY Zenon, <2>2, <2>4, ViewAssumption DEF BoundInv
  <2>5. NothingMissed'
    BY Zenon, <2>1, <2>4 DEF NothingMissed, Inside, Accounted, Ids
  <2> QED BY Zenon, <2>1, <2>2, <2>5 DEF ViewTypes, SureInv, BoundInv
<1>3. ASSUME NEW m \in tosend, Broadcast(m) PROVE ViewInv'
  <2> DEFINE q == Append(srv.rx, m)
             lost == Len(q) > Capacity
             r == IF lost THEN Tail(q) ELSE q
  <2>1. tosend' = tosend \ {m} /\ UNCHANGED <<row, up, hook>>
    BY Zenon, <1>3 DEF Broadcast, socket
  <2>2. m \in Message /\ srv.rx \in Seq(Message) /\ srv \in Socketed
    BY Zenon DEF ViewTypes, Socketed
  <2>3. CASE srv.pc \notin {"loop", "resync"}
    <3>1. srv' = srv BY Zenon, <1>3, <2>3 DEF Broadcast
    <3>2. NothingMissed' BY Zenon, <3>1, <2>3 DEF NothingMissed
    <3> QED BY Zenon, <2>1, <3>1, <3>2 DEF ViewTypes, SureInv, BoundInv
  <2>4. CASE srv.pc \in {"loop", "resync"}
    <3>1. srv' = [srv EXCEPT !.rx = r, !.lagged = srv.lagged \/ lost]
      BY Zenon, <1>3, <2>4 DEF Broadcast
    <3>2. q \in Seq(Message) /\ Ids(srv.rx) \cup {m.id} \subseteq Ids(q)
      BY Zenon, <2>2, IdsFact
    <3>3. r \in Seq(Message) /\ (lost \in BOOLEAN) /\ (srv.lagged \/ lost) \in BOOLEAN
      <4>1. q # <<>> BY SMT, <2>2
      <4>2. Tail(q) \in Seq(Message) BY Zenon, <4>1, <3>2, IdsFact
      <4>3. r \in Seq(Message) BY Zenon, <3>2, <4>2
      <4>4. lost \in BOOLEAN /\ (srv.lagged \/ lost) \in BOOLEAN BY SMT
      <4> QED BY Zenon, <4>3, <4>4
    <3> HIDE DEF q, lost, r
    <3>4. /\ srv' \in Socketed /\ srv'.pc = srv.pc /\ srv'.sure = srv.sure /\ srv'.known = srv.known
          /\ srv'.cut = srv.cut /\ srv'.bounds = srv.bounds /\ srv'.rx = r
          /\ srv'.lagged = (srv.lagged \/ lost)
      BY Zenon, <3>1, <3>3, <2>2 DEF Socketed
    <3>5. ASSUME srv.pc = "loop", srv.sure, ~srv'.lagged, NEW e \in srv.bounds, row[e] # 0
          PROVE  Accounted(e, srv', tosend')
      <4>1. ~srv.lagged /\ ~lost BY Zenon, <3>4, <3>5
      <4>2. r = q BY Zenon, <4>1 DEF r
      <4>3. Accounted(e, srv, tosend) BY Zenon, <4>1, <3>5, MissedFact
      <4> QED BY Zenon, <4>2, <4>3, <3>2, <3>4, <2>1 DEF Accounted
    <3>6. NothingMissed'
      BY Zenon, <2>1, <3>4, <3>5 DEF NothingMissed, Inside, Accounted, Ids
    <3>7. tosend' \subseteq Message BY Zenon, <2>1 DEF ViewTypes
    <3> QED BY Zenon, <2>1, <3>4, <3>6, <3>7 DEF ViewTypes, SureInv, BoundInv
  <2> QED BY Zenon, <2>3, <2>4
<1> QED BY Zenon, <1>1, <1>2, <1>3 DEF Writer

\* ViewInv is inductive: the handler.
LEMMA HandlerStep ==
  ASSUME ViewInv, Server \/ SubscribeFails \/ DebouncedFails \/ SnapshotFails PROVE ViewInv'
<1> USE DEF ViewInv
<1>t. srv \in Socketed /\ up \in Seq(Asked) /\ row \in Digests
  BY Zenon DEF ViewTypes
<1>h. up # <<>> => Tail(up) \in Seq(Asked) /\ Head(up).bounds \in Areas
  <2>1. up # <<>> => Tail(up) \in Seq(Asked) /\ Head(up) \in Asked
    BY SMT, <1>t
  <2> QED BY Zenon, <2>1 DEF Asked
<1>1. CASE Subscribe
  <2>1. PICK R \in query_viewport_events(Head(up).bounds) :
          srv' = [srv EXCEPT !.pc = "sent", !.bounds = Head(up).bounds, !.known = Read(R)]
    BY Zenon, <1>1 DEF Subscribe
  <2>2. UNCHANGED <<row, tosend, hook>> /\ up' = Tail(up) /\ up # <<>> /\ srv.pc = "await"
    BY Zenon, <1>1 DEF Subscribe, Elsewhere
  <2>3. Read(R) \in Digests
    BY Zenon, <2>2, <1>h, QueryFact
  <2>4. srv' \in Socketed /\ srv'.pc = "sent" /\ srv'.sure = srv.sure /\ srv'.bounds = Head(up).bounds
    BY Zenon, <2>1, <2>2, <2>3, <1>h, <1>t DEF Socketed
  <2>5. ~srv.sure BY Zenon, <2>2 DEF SureInv
  <2> QED BY Zenon, <2>2, <2>4, <2>5, <1>h, HandlerKeeps
<1>2. CASE SubscribeFails
  <2>1. UNCHANGED <<row, tosend, hook>> /\ up' = Tail(up) /\ up # <<>> /\ srv' = [srv EXCEPT !.pc = "closed"]
    BY Zenon, <1>2 DEF SubscribeFails, Elsewhere
  <2>2. srv' \in Socketed /\ srv'.pc = "closed"
    BY Zenon, <2>1, <1>t DEF Socketed
  <2> QED BY Zenon, <2>1, <2>2, <1>h, HandlerKeeps
<1>3. CASE Listen
  <2>1. UNCHANGED <<row, tosend, hook, up>> /\ srv.pc = "sent" /\ srv' = [srv EXCEPT !.pc = "loop"]
    BY Zenon, <1>3 DEF Listen, Elsewhere, socket
  <2>2. srv' \in Socketed /\ srv'.sure = srv.sure /\ srv'.bounds = srv.bounds
    BY Zenon, <2>1, <1>t DEF Socketed
  <2>3. ~srv.sure BY Zenon, <2>1 DEF SureInv
  <2> QED BY Zenon, <2>1, <2>2, <2>3, <1>t, HandlerKeeps DEF BoundInv
<1>4. CASE ViewportChanged
  <2>1. /\ UNCHANGED <<row, tosend, hook>> /\ up' = Tail(up) /\ up # <<>> /\ srv.pc = "loop"
        /\ srv' = [srv EXCEPT !.pending = Head(up).bounds]
    BY Zenon, <1>4 DEF ViewportChanged, Elsewhere
  <2>2. /\ srv' \in Socketed /\ srv'.pc = srv.pc /\ srv'.sure = srv.sure /\ srv'.known = srv.known
        /\ srv'.cut = srv.cut /\ srv'.bounds = srv.bounds /\ srv'.rx = srv.rx
        /\ srv'.lagged = srv.lagged
    BY Zenon, <2>1, <1>h, <1>t DEF Socketed
  <2>3. srv'.pc = "loop" /\ srv'.sure /\ ~srv'.lagged =>
          \A e \in srv'.bounds : row[e] # 0 => Accounted(e, srv', tosend)
    BY Zenon, <2>2, MissedFact DEF Accounted
  <2> QED BY Zenon, <2>1, <2>2, <2>3, <1>h, HandlerKeeps DEF BoundInv
<1>5. ASSUME NEW s \in Socketed, NEW b \in Areas, NEW R \in query_viewport_events(b), srv' = s,
             s.pc = "loop", s.bounds = b, s.known = Read(R), s.cut = Inside(b) \ R,
             UNCHANGED <<row, tosend, hook, up>>
      PROVE  ViewInv'
  <2>1. R \subseteq Keys(Read(R))
    BY Zenon, QueryFact
  <2>2. ASSUME NEW e \in b, row[e] # 0 PROVE Accounted(e, s, tosend)
    BY Zenon, <2>1, <2>2, <1>5 DEF Accounted, Inside
  <2> QED BY Zenon, <2>2, <1>5, <1>t, HandlerKeeps
<1>6. CASE Debounced
  <2>1. srv.pending \in Areas /\ srv.pc = "loop" /\ UNCHANGED <<row, tosend, hook, up>>
    BY Zenon, <1>6, <1>t DEF Debounced, Elsewhere, Socketed
  <2>2. PICK R \in query_viewport_events(srv.pending) :
          srv' = [Moved EXCEPT !.known = Read(R), !.sure = TRUE, !.cut = Inside(srv.pending) \ R]
    BY Zenon, <1>6 DEF Debounced
  <2>3. Read(R) \in Digests /\ Inside(srv.pending) \ R \subseteq Event
    BY Zenon, <2>1, QueryFact
  <2>4. Moved \in Socketed /\ Moved.pc = "loop" /\ Moved.bounds = srv.pending
    BY Zenon, <2>1, <1>t DEF Moved, Socketed
  <2>5. /\ srv' \in Socketed /\ srv'.pc = "loop" /\ srv'.bounds = srv.pending
        /\ srv'.known = Read(R) /\ srv'.cut = Inside(srv.pending) \ R
    BY Zenon, <2>2, <2>3, <2>4 DEF Socketed
  <2> QED BY Zenon, <2>1, <2>5, <1>5
<1>7. CASE DebouncedFails
  <2>1. srv.pending \in Areas /\ srv.pc = "loop" /\ UNCHANGED <<row, tosend, hook, up>>
    BY Zenon, <1>7, <1>t DEF DebouncedFails, Elsewhere, Socketed, socket
  <2>2. Moved \in Socketed /\ Moved.pc = "loop" /\ Moved.bounds = srv.pending /\ Moved.cut = srv.cut
    BY Zenon, <2>1, <1>t DEF Moved, Socketed
  <2>3. srv' = [Moved EXCEPT !.cut = @ \cup Inside(srv.pending)]
    BY Zenon, <1>7 DEF DebouncedFails
  <2>4. srv.cut \cup Inside(srv.pending) \subseteq Event
    BY Zenon, <2>1, <1>t, ViewAssumption DEF Inside, Socketed
  <2>5. /\ srv' \in Socketed /\ srv'.pc = "loop" /\ srv'.bounds = srv.pending
        /\ srv'.cut = srv.cut \cup Inside(srv.pending)
    BY Zenon, <2>2, <2>3, <2>4 DEF Socketed
  <2>6. ASSUME NEW e \in srv'.bounds, row[e] # 0 PROVE Accounted(e, srv', tosend)
    BY Zenon, <2>5, <2>6 DEF Accounted, Inside
  <2> QED BY Zenon, <2>1, <2>5, <2>6, <1>t, HandlerKeeps
<1>8. CASE Receive
  <2> DEFINE m == Head(srv.rx)
             s == [srv EXCEPT !.rx = Tail(@)]
  <2>1. /\ srv.pc = "loop" /\ ~srv.lagged /\ srv.rx # <<>> /\ UNCHANGED <<row, tosend, hook, up>>
    BY Zenon, <1>8 DEF Receive, Elsewhere
  <2>2. /\ m \in Message /\ Tail(srv.rx) \in Seq(Message)
        /\ Ids(srv.rx) \subseteq Ids(Tail(srv.rx)) \cup {m.id}
    <3>1. srv.rx \in Seq(Message) BY Zenon, <1>t DEF Socketed
    <3> QED BY Zenon, <3>1, <2>1, IdsFact
  <2>3. m.id \in Event /\ m.digest \in Digest /\ m.digest # 0
    BY Zenon, <2>2 DEF Message
  <2>4. \/ srv' = s /\ m.id \notin srv.bounds
        \/ srv' = [s EXCEPT !.cut = @ \cup {m.id}]
        \/ \E n \in {0, srv.rate_count} : srv' = [s EXCEPT !.rate_count = n + 1, !.known[m.id] = m.digest]
    BY Zenon, <1>8 DEF Receive
  <2>5. /\ s \in Socketed /\ s.rx = Tail(srv.rx) /\ s.pc = srv.pc /\ s.sure = srv.sure /\ s.known = srv.known
        /\ s.cut = srv.cut /\ s.bounds = srv.bounds /\ s.lagged = srv.lagged /\ s.rate_count = srv.rate_count
    BY Zenon, <2>2, <1>t DEF Socketed
  <2> HIDE DEF m, s
  <2>6. ASSUME srv.sure, NEW e \in srv.bounds, row[e] # 0 PROVE Accounted(e, srv, tosend)
    BY Zenon, <2>1, <2>6, MissedFact
  <2>7. ASSUME srv' = s, m.id \notin srv.bounds PROVE ViewInv'
    <3>1. ASSUME srv.sure, NEW e \in srv.bounds, row[e] # 0 PROVE Accounted(e, s, tosend)
      BY Zenon, <3>1, <2>2, <2>5, <2>6, <2>7 DEF Accounted
    <3> QED BY Zenon, <3>1, <2>1, <2>5, <2>7, <1>t, HandlerKeeps DEF BoundInv
  <2>8. ASSUME srv' = [s EXCEPT !.cut = @ \cup {m.id}] PROVE ViewInv'
    <3>1. s.cut \cup {m.id} \subseteq Event BY Zenon, <2>3, <2>5 DEF Socketed
    <3>2. /\ srv' \in Socketed /\ srv'.rx = s.rx /\ srv'.pc = s.pc /\ srv'.sure = s.sure /\ srv'.known = s.known
          /\ srv'.cut = s.cut \cup {m.id} /\ srv'.bounds = s.bounds
      BY Zenon, <3>1, <2>5, <2>8 DEF Socketed
    <3>3. ASSUME srv.sure, NEW e \in srv.bounds, row[e] # 0 PROVE Accounted(e, srv', tosend)
      BY Zenon, <3>2, <3>3, <2>2, <2>5, <2>6 DEF Accounted
    <3> QED BY Zenon, <3>2, <3>3, <2>1, <2>5, <1>t, HandlerKeeps DEF BoundInv
  <2>9. ASSUME NEW n \in {0, srv.rate_count}, srv' = [s EXCEPT !.rate_count = n + 1, !.known[m.id] = m.digest]
        PROVE  ViewInv'
    <3> DEFINE k == [s.known EXCEPT ![m.id] = m.digest]
    <3>1. n + 1 \in Nat
      <4>1. srv.rate_count \in Nat BY Zenon, <1>t DEF Socketed
      <4> QED BY SMT, <4>1
    <3>2. s.known \in Digests /\ k \in Digests /\ k[m.id] = m.digest /\ \A e \in Event : e # m.id => k[e] = s.known[e]
      BY Zenon, <2>3, <2>5 DEF Socketed, Digests
    <3>3. srv' = [s EXCEPT !.rate_count = n + 1, !.known = k]
      BY Zenon, <2>9
    <3> HIDE DEF k
    <3>4. /\ srv' \in Socketed /\ srv'.rx = s.rx /\ srv'.pc = s.pc /\ srv'.sure = s.sure /\ srv'.known = k
          /\ srv'.cut = s.cut /\ srv'.bounds = s.bounds
      BY Zenon, <3>1, <3>2, <3>3, <2>5 DEF Socketed
    <3>5. Keys(s.known) \cup {m.id} \subseteq Keys(k)
      BY Zenon, <3>2, <2>3 DEF Keys
    <3>6. ASSUME srv.sure, NEW e \in srv.bounds, row[e] # 0 PROVE Accounted(e, srv', tosend)
      BY Zenon, <3>4, <3>5, <3>6, <2>2, <2>5, <2>6 DEF Accounted
    <3> QED BY Zenon, <3>4, <3>6, <2>1, <2>5, <1>t, HandlerKeeps DEF BoundInv
  <2> QED BY Zenon, <2>4, <2>7, <2>8, <2>9
<1>9. CASE Lagged
  <2>1. /\ UNCHANGED <<row, tosend, hook, up>> /\ srv.pc = "loop"
        /\ srv' = [srv EXCEPT !.pc = "resync", !.rx = <<>>, !.lagged = FALSE, !.sure = FALSE]
    BY Zenon, <1>9 DEF Lagged, Elsewhere, socket
  <2>2. srv' \in Socketed /\ srv'.pc = "resync" /\ srv'.sure = FALSE /\ srv'.bounds = srv.bounds
    <3>1. <<>> \in Seq(Message) BY SMT
    <3> QED BY Zenon, <3>1, <2>1, <1>t DEF Socketed
  <2> QED BY Zenon, <2>1, <2>2, <1>t, HandlerKeeps DEF BoundInv
<1>10. CASE Snapshot
  <2>1. srv.pc = "resync" /\ UNCHANGED <<row, tosend, hook, up>>
    BY Zenon, <1>10 DEF Snapshot, Elsewhere
  <2>2. PICK R \in query_viewport_events(srv.bounds) :
          srv' = [Resumed(srv) EXCEPT !.known = Read(R), !.sure = TRUE, !.cut = Inside(srv.bounds) \ R]
    BY Zenon, <1>10 DEF Snapshot
  <2>3. Resumed(srv) \in Socketed /\ Resumed(srv).pc = "loop" /\ Resumed(srv).bounds = srv.bounds
    BY Zenon, <1>t DEF Resumed, Socketed
  <2>4. srv.bounds \in Areas
    BY Zenon, <2>1, <1>t DEF BoundInv
  <2>5. Read(R) \in Digests /\ Inside(srv.bounds) \ R \subseteq Event
    BY Zenon, <2>4, QueryFact
  <2>6. /\ srv' \in Socketed /\ srv'.pc = "loop" /\ srv'.bounds = srv.bounds
        /\ srv'.known = Read(R) /\ srv'.cut = Inside(srv.bounds) \ R
    BY Zenon, <2>2, <2>3, <2>5 DEF Socketed
  <2> QED BY Zenon, <2>1, <2>4, <2>6, <1>5
<1>11. CASE SnapshotFails
  <2>1. srv.pc = "resync" /\ UNCHANGED <<row, tosend, hook, up>> /\ srv' = Resumed(srv)
    BY Zenon, <1>11 DEF SnapshotFails, Elsewhere, socket
  <2>2. srv' \in Socketed /\ srv'.sure = srv.sure /\ srv'.bounds = srv.bounds
    BY Zenon, <2>1, <1>t DEF Resumed, Socketed
  <2>3. ~srv.sure BY Zenon, <2>1 DEF SureInv
  <2> QED BY Zenon, <2>1, <2>2, <2>3, <1>t, HandlerKeeps DEF BoundInv
<1> QED BY Zenon, <1>1, <1>2, <1>3, <1>4, <1>6, <1>7, <1>8, <1>9, <1>10, <1>11 DEF Server

\* ViewInv is inductive: the page.
LEMMA PageStep ==
  ASSUME ViewInv, onerror \/ Page \/ unmountView \/ \E b \in Areas : boundsEffect(b) PROVE ViewInv'
<1>t. up \in Seq(Asked) /\ hook \in Hook /\ <<>> \in Seq(Asked)
  <2>1. <<>> \in Seq(Asked) BY SMT
  <2> QED BY Zenon, <2>1 DEF ViewInv, ViewTypes
<1>a. ASSUME NEW k \in {"SUBSCRIBE", "VIEWPORT_CHANGED"}, NEW b \in Areas, Asks(k, b) PROVE up' \in Seq(Asked)
  <2>1. [type |-> k, bounds |-> b] \in Asked BY Zenon DEF Asked
  <2>2. Append(up, [type |-> k, bounds |-> b]) \in Seq(Asked) BY SMT, <1>t, <2>1
  <2> QED BY Zenon, <1>a, <2>2 DEF Asks
<1>c. ASSUME NEW code, onclose(code) PROVE ViewInv'
  <2>1. \E b \in BOOLEAN : hook' = [hook EXCEPT !.ws = "none", !.subscribed = FALSE, !.timer = b]
    <3>1. (code # 1000) \in BOOLEAN BY SMT
    <3>2. hook' = [hook EXCEPT !.ws = "none", !.subscribed = FALSE, !.timer = (code # 1000)]
      BY Zenon, <1>c DEF onclose
    <3> QED BY Zenon, <3>1, <3>2
  <2>2. hook' \in Hook BY Zenon, <1>t, <2>1 DEF Hook
  <2> QED BY Zenon, <1>c, <1>t, <2>2, PageKeeps DEF onclose
<1>1. ASSUME NEW b \in Areas, boundsEffect(b) PROVE ViewInv'
  <2>1. hook' \in Hook
    <3>1. (hook.ws = "open") \in BOOLEAN BY Zenon
    <3> QED BY Zenon, <1>1, <1>t, <3>1 DEF boundsEffect, Hook
  <2>2. up' \in Seq(Asked)
    <3>1. UNCHANGED up \/ Asks("SUBSCRIBE", b) \/ Asks("VIEWPORT_CHANGED", b)
      BY Zenon, <1>1 DEF boundsEffect
    <3> QED BY Zenon, <3>1, <1>t, <1>a
  <2> QED BY Zenon, <1>1, <2>1, <2>2, PageKeeps DEF boundsEffect
<1>2. CASE onopen
  <2>1. hook' \in Hook
    <3>1. (hook.bounds # NoBounds) \in BOOLEAN BY Zenon
    <3> QED BY Zenon, <1>2, <1>t, <3>1 DEF onopen, Hook
  <2>2. up' \in Seq(Asked)
    <3>1. hook.bounds # NoBounds => hook.bounds \in Areas BY Zenon, <1>t DEF Hook
    <3>2. UNCHANGED up \/ (hook.bounds \in Areas /\ Asks("SUBSCRIBE", hook.bounds))
      BY Zenon, <1>2, <3>1 DEF onopen
    <3> QED BY Zenon, <3>2, <1>t, <1>a
  <2> QED BY Zenon, <1>2, <2>1, <2>2, PageKeeps DEF onopen
<1>3. CASE onmessage
  <2>1. UNCHANGED <<row, tosend, srv, up, hook>> BY Zenon, <1>3 DEF onmessage
  <2> QED BY Zenon, <2>1, <1>t, PageKeeps
<1>4. CASE unmountView
  <2>1. hook' \in Hook
    <3>1. (IF hook.ws = "none" THEN hook.ws ELSE "closing") \in {"none", "closing"} BY Zenon
    <3> QED BY Zenon, <1>4, <1>t, <3>1 DEF unmountView, Hook
  <2> QED BY Zenon, <1>4, <1>t, <2>1, PageKeeps DEF unmountView, socket
<1>5. CASE connect
  <2>1. hook' \in Hook BY Zenon, <1>5, <1>t DEF connect, Hook
  <2> QED BY Zenon, <1>5, <1>t, <2>1, PageKeeps DEF connect, socket
<1>6. CASE onerror \/ handlerGone \/ \E code \in {1000, 1006} : closeAnswered(code)
  <2>1. \E code : onclose(code) BY SMT, <1>6 DEF onerror, handlerGone, closeAnswered
  <2> QED BY Zenon, <2>1, <1>c
<1> QED BY SMT, <1>1, <1>2, <1>3, <1>4, <1>5, <1>6 DEF Page

\* ViewInv is an invariant of the map.
LEMMA ViewInvariant == ViewSpec => []ViewInv
<1>1. ViewInit => ViewInv
  <2> SUFFICES ASSUME ViewInit PROVE ViewInv BY Zenon
  <2>1. /\ row \in Digests /\ tosend = {} /\ srv = Fresh /\ up = <<>>
    <3>1. row = [e \in Event |-> 0] BY Zenon DEF ViewInit, Nothing
    <3>2. row \in Digests BY SMT, <3>1 DEF Digests, Digest
    <3> QED BY Zenon, <3>2 DEF ViewInit
  <2>2. hook \in Hook BY Zenon DEF ViewInit, Hook
  <2>3. up \in Seq(Asked) BY SMT, <2>1
  <2> QED BY Zenon, <2>1, <2>2, <2>3, FreshFact DEF ViewInv, ViewTypes, SureInv, BoundInv, NothingMissed
<1>2. ViewInv /\ [ViewNext]_viewVars => ViewInv'
  <2> SUFFICES ASSUME ViewInv, [ViewNext]_viewVars PROVE ViewInv' BY Zenon
  <2>1. CASE UNCHANGED viewVars
    BY Zenon, <2>1, PageKeeps DEF viewVars, socket, ViewInv, ViewTypes
  <2>2. CASE ViewNext
    BY Zenon, <2>2, WritersStep, HandlerStep, PageStep DEF ViewNext, Faults
  <2> QED BY Zenon, <2>1, <2>2
<1> QED BY <1>1, <1>2, PTL DEF ViewSpec

\* Nothing is missed (cap_and_send, resync_after_lag and the loop of handle_viewport_socket).
THEOREM NothingSlipsThrough == ViewSpec => []NothingMissed
<1>1. ViewInv => NothingMissed BY Zenon DEF ViewInv
<1> QED BY <1>1, ViewInvariant, PTL

-----------------------------------------------------------------------------
(* LiveMap: what the page will show *)

Frame == [type : {"BATCH", "PATCH"}, events : Digests, removed : SUBSET Event]

\* The ids on the map once the page has read the frames q.
Delivered(ids, q) ==
  LET after[n \in 0..Len(q)] == IF n = 0 THEN ids ELSE onmessageIds(after[n - 1], q[n])
  IN  after[Len(q)]

\* The reducers stay among the events.
LEMMA ReducerType == ASSUME NEW ids, NEW m \in Frame, ids \subseteq Event PROVE onmessageIds(ids, m) \in SUBSET Event
BY Zenon DEF onmessageIds, viewportEventsSet, viewportEventsBatchApply, Keys, Frame

\* Delivered is the end of the run of the reducers.
LEMMA DeliveredFact ==
  ASSUME NEW ids \in SUBSET Event, NEW q \in Seq(Frame)
  PROVE  \E f \in [0..Len(q) -> SUBSET Event] :
           /\ f[0] = ids /\ \A k \in 1..Len(q) : f[k] = onmessageIds(f[k - 1], q[k])
           /\ Delivered(ids, q) = f[Len(q)]
           /\ \A g : g[0] = ids /\ (\A k \in 1..Len(q) : g[k] = onmessageIds(g[k - 1], q[k]))
                       => f[Len(q)] = g[Len(q)]
<1> DEFINE N == Len(q)
           S == SUBSET Event
           G == [k \in 1..N |-> [x \in S |-> onmessageIds(x, q[k])]]
           Is(f) == f = [n \in 0..N |-> IF n = 0 THEN ids ELSE onmessageIds(f[n - 1], q[n])]
           after == CHOOSE f : Is(f)
<1>1. N \in Nat /\ \A k \in 1..N : q[k] \in Frame /\ k - 1 \in 0..N /\ k \in 0..N /\ k # 0 BY SMT
<1>2. G \in RunSteps(S, N) BY Zenon, <1>1, ReducerType DEF RunSteps
<1>0. PICK f : IsRun(f, ids, N, S, G)
  <2> HIDE DEF N, S, G
  <2>1. ids \in S BY Zenon DEF S
  <2> QED BY Zenon, <2>1, <1>1, <1>2, RunExists
<1>3. f \in [0..N -> S] /\ f[0] = ids /\ \A k \in 1..N : f[k] = G[k][f[k - 1]]
  BY Zenon, <1>0 DEF IsRun
<1>4. \A k \in 1..N : f[k] = onmessageIds(f[k - 1], q[k])
  <2> SUFFICES ASSUME NEW k \in 1..N PROVE f[k] = onmessageIds(f[k - 1], q[k]) BY Zenon
  <2>1. f[k - 1] \in S BY Zenon, <1>1, <1>3
  <2> QED BY Zenon, <2>1, <1>3
<1>5. Is(f)
  <2>1. \A n \in 0..N : n = 0 \/ n \in 1..N BY SMT, <1>1
  <2>2. \A n \in 0..N : f[n] = IF n = 0 THEN ids ELSE onmessageIds(f[n - 1], q[n])
    BY Zenon, <2>1, <1>3, <1>4
  <2> HIDE DEF N, S, G
  <2> QED BY Zenon, <2>2, <1>3
<1>6. Is(after) BY Zenon, <1>5
<1>7. after[0] = ids /\ \A k \in 1..N : after[k] = onmessageIds(after[k - 1], q[k])
  <2>1. 0 \in 0..N BY SMT, <1>1
  <2> HIDE DEF after, N
  <2> QED BY Zenon, <2>1, <1>1, <1>6
<1>8. Delivered(ids, q) = after[N] BY Zenon DEF Delivered
<1>9. ASSUME NEW g, g[0] = ids, \A k \in 1..N : g[k] = onmessageIds(g[k - 1], q[k]) PROVE f[N] = g[N]
  <2>1. FollowsRun(g, ids, N, S, G) BY Zenon, <1>9 DEF FollowsRun
  <2>2. N \in 0..N BY SMT, <1>1
  <2> HIDE DEF N, S, G
  <2>3. \A m \in 0..N : f[m] = g[m] BY <2>1, <1>0, <1>1, <1>2, RunUnique
  <2> QED BY Zenon, <2>2, <2>3
<1> HIDE DEF after
<1>10. Delivered(ids, q) = f[N] BY Zenon, <1>7, <1>8, <1>9
<1> QED BY Zenon, <1>3, <1>4, <1>9, <1>10

\* A frame is sent ...
LEMMA FrameSent ==
  ASSUME NEW ids \in SUBSET Event, NEW q \in Seq(Frame), NEW m \in Frame
  PROVE  Append(q, m) \in Seq(Frame) /\ Delivered(ids, Append(q, m)) = onmessageIds(Delivered(ids, q), m)
<1> DEFINE N == Len(q)
           r == Append(q, m)
<1>1. N \in Nat /\ r \in Seq(Frame) /\ Len(r) = N + 1 /\ r[N + 1] = m /\ \A k \in 1..N : r[k] = q[k]
  BY SMT
<1>2. PICK f \in [0..N -> SUBSET Event] :
        /\ f[0] = ids /\ \A k \in 1..N : f[k] = onmessageIds(f[k - 1], q[k])
        /\ Delivered(ids, q) = f[N]
  BY Zenon, DeliveredFact
<1> DEFINE g == [k \in 0..(N + 1) |-> IF k = N + 1 THEN onmessageIds(f[N], m) ELSE f[k]]
<1>3. g[0] = ids /\ g[N + 1] = onmessageIds(f[N], m) /\ (\A k \in 0..N : g[k] = f[k]) BY SMT, <1>1, <1>2
<1>4. \A k \in 1..(N + 1) : g[k] = onmessageIds(g[k - 1], r[k])
  <2> SUFFICES ASSUME NEW k \in 1..(N + 1) PROVE g[k] = onmessageIds(g[k - 1], r[k]) BY Zenon
  <2> HIDE DEF g, r
  <2>1. CASE k = N + 1
    <3>1. N \in 0..N /\ k - 1 = N BY SMT, <1>1, <2>1
    <3> QED BY Zenon, <3>1, <2>1, <1>1, <1>3
  <2>2. CASE k # N + 1
    <3>1. k \in 1..N /\ k \in 0..N /\ k - 1 \in 0..N BY SMT, <1>1, <2>2
    <3> QED BY Zenon, <3>1, <1>1, <1>2, <1>3
  <2> QED BY Zenon, <2>1, <2>2
<1> HIDE DEF g, r
<1>5. Delivered(ids, r) = g[Len(r)]
  <2>1. \A k \in 1..Len(r) : g[k] = onmessageIds(g[k - 1], r[k]) BY Zenon, <1>1, <1>4
  <2>2. PICK h \in [0..Len(r) -> SUBSET Event] :
          /\ Delivered(ids, r) = h[Len(r)]
          /\ \A x : x[0] = ids /\ (\A k \in 1..Len(r) : x[k] = onmessageIds(x[k - 1], r[k])) => h[Len(r)] = x[Len(r)]
    BY Zenon, <1>1, DeliveredFact
  <2> QED BY Zenon, <2>1, <2>2, <1>3
<1> QED BY Zenon, <1>1, <1>2, <1>3, <1>5 DEF r

\* ... and the first one is read.
LEMMA FrameRead ==
  ASSUME NEW ids \in SUBSET Event, NEW q \in Seq(Frame), q # <<>>
  PROVE  /\ Tail(q) \in Seq(Frame) /\ onmessageIds(ids, Head(q)) \in SUBSET Event
         /\ Delivered(onmessageIds(ids, Head(q)), Tail(q)) = Delivered(ids, q)
<1> DEFINE N == Len(q)
           r == Tail(q)
           v == onmessageIds(ids, Head(q))
<1>1. /\ N \in Nat /\ N # 0 /\ r \in Seq(Frame) /\ Len(r) = N - 1 /\ Head(q) = q[1] /\ Head(q) \in Frame
      /\ \A k \in 1..(N - 1) : r[k] = q[k + 1]
  BY SMT
<1>2. v \in SUBSET Event BY Zenon, <1>1, ReducerType
<1>3. PICK f \in [0..N -> SUBSET Event] :
        /\ f[0] = ids /\ \A k \in 1..N : f[k] = onmessageIds(f[k - 1], q[k])
        /\ Delivered(ids, q) = f[N]
  BY Zenon, DeliveredFact
<1> DEFINE g == [k \in 0..(N - 1) |-> f[k + 1]]
<1>4. f[1] = v
  <2>1. 1 \in 1..N /\ 1 - 1 = 0 BY SMT, <1>1
  <2>2. f[1] = onmessageIds(f[1 - 1], q[1]) BY Zenon, <2>1, <1>3
  <2> QED BY Zenon, <2>1, <2>2, <1>1, <1>3
<1>5. g[0] = v /\ g[N - 1] = f[N] /\ \A k \in 1..(N - 1) : g[k] = f[k + 1] /\ g[k - 1] = f[k] BY SMT, <1>1, <1>4
<1>6. \A k \in 1..(N - 1) : g[k] = onmessageIds(g[k - 1], r[k])
  <2> SUFFICES ASSUME NEW k \in 1..(N - 1) PROVE g[k] = onmessageIds(g[k - 1], r[k]) BY Zenon
  <2> HIDE DEF g, r
  <2>1. k + 1 \in 1..N /\ (k + 1) - 1 = k BY SMT, <1>1
  <2>2. f[k + 1] = onmessageIds(f[(k + 1) - 1], q[k + 1]) BY Zenon, <2>1, <1>3
  <2> QED BY Zenon, <2>1, <2>2, <1>1, <1>5
<1> HIDE DEF g, r, v
<1>7. Delivered(v, r) = g[Len(r)]
  <2>1. \A k \in 1..Len(r) : g[k] = onmessageIds(g[k - 1], r[k]) BY Zenon, <1>1, <1>6
  <2>2. PICK h \in [0..Len(r) -> SUBSET Event] :
          /\ Delivered(v, r) = h[Len(r)]
          /\ \A x : x[0] = v /\ (\A k \in 1..Len(r) : x[k] = onmessageIds(x[k - 1], r[k])) => h[Len(r)] = x[Len(r)]
    BY Zenon, <1>1, <1>2, DeliveredFact
  <2> QED BY Zenon, <2>1, <2>2, <1>5
<1> QED BY Zenon, <1>1, <1>2, <1>3, <1>5, <1>7 DEF r, v

\* The handler's base is what the page will show.
BaseInv ==
  /\ down \in Seq(Frame) /\ viewportIds \in SUBSET Event
  /\ srv.pc \in {"sent", "loop", "resync"} => Delivered(viewportIds, down) = Keys(srv.known)
LEMMA SameViewFact ==
  SameView <=> (srv.pc \in {"sent", "loop", "resync"} => Delivered(viewportIds, down) = Keys(srv.known))
BY Zenon DEF SameView, Delivered

\* A batch sets the base, a patch moves it.
LEMMA DiffFact ==
  ASSUME NEW known \in Digests, NEW new \in Digests
  PROVE  LET p == compute_diff(known, new)
         IN  /\ p \in Frame /\ onmessageIds(Keys(known), p) = Keys(new)
             /\ Keys(p.events) = {} /\ p.removed = {} => Keys(known) = Keys(new)
<1> DEFINE v == [e \in Event |-> IF new[e] # known[e] THEN new[e] ELSE 0]
           gone == Keys(known) \ Keys(new)
           p == compute_diff(known, new)
<1>1. 0 \in Digest BY SMT DEF Digest
<1>2. v \in Digests BY Zenon, <1>1 DEF Digests
<1>3. gone \in SUBSET Event BY Zenon DEF Keys
<1>4. (Keys(known) \ gone) \cup Keys(v) = Keys(new)
  <2>1. \A e \in Event : known[e] = 0 /\ new[e] # 0 => new[e] # known[e] BY Zenon
  <2> QED BY Zenon, <2>1 DEF Keys
<1>5. p = [type |-> "PATCH", events |-> v, removed |-> gone] BY Zenon DEF compute_diff, Patch
<1> HIDE DEF v, gone, p
<1>6. p \in Frame /\ p.type = "PATCH" /\ p.events = v /\ p.removed = gone BY Zenon, <1>2, <1>3, <1>5 DEF Frame
<1>7. onmessageIds(Keys(known), p) = Keys(new)
  BY Zenon, <1>4, <1>6 DEF onmessageIds, viewportEventsBatchApply
<1>8. Keys(p.events) = {} /\ p.removed = {} => Keys(known) = Keys(new) BY Zenon, <1>4, <1>6
<1> QED BY Zenon, <1>6, <1>7, <1>8 DEF p

LEMMA BatchFact ==
  ASSUME NEW v \in Digests
  PROVE  Batch(v) \in Frame /\ \A ids : onmessageIds(ids, Batch(v)) = Keys(v)
BY Zenon DEF Batch, Frame, onmessageIds, viewportEventsSet

\* The handler and the page leave the base alone, or move it by a frame.
LEMMA BaseKept ==
  ASSUME BaseInv, UNCHANGED <<down, viewportIds>>,
         srv'.pc \in {"sent", "loop", "resync"} => srv.pc \in {"sent", "loop", "resync"} /\ Keys(srv'.known) = Keys(srv.known)
  PROVE  BaseInv'
BY Zenon DEF BaseInv
LEMMA BaseMoved ==
  ASSUME BaseInv, NEW m \in Frame, down' = Append(down, m), UNCHANGED viewportIds,
         onmessageIds(Delivered(viewportIds, down), m) = Keys(srv'.known)
  PROVE  BaseInv'
<1>1. down' \in Seq(Frame) /\ Delivered(viewportIds, down') = onmessageIds(Delivered(viewportIds, down), m)
  BY Zenon, FrameSent DEF BaseInv
<1> QED BY Zenon, <1>1 DEF BaseInv

\* The steps of the handler.
LEMMA BaseHandler ==
  ASSUME ViewInv, BaseInv, Server \/ SubscribeFails \/ DebouncedFails \/ SnapshotFails PROVE BaseInv'
<1>t. srv \in Socketed /\ srv.known \in Digests /\ ViewTypes /\ up \in Seq(Asked)
  BY Zenon DEF ViewInv, ViewTypes, Socketed
<1>1. CASE Subscribe
  <2>1. PICK R \in query_viewport_events(Head(up).bounds) :
          /\ srv' = [srv EXCEPT !.pc = "sent", !.bounds = Head(up).bounds, !.known = Read(R)]
          /\ down' = Append(down, Batch(Read(R)))
    BY Zenon, <1>1 DEF Subscribe, Sends
  <2>2. up # <<>> /\ UNCHANGED viewportIds BY Zenon, <1>1 DEF Subscribe, Elsewhere
  <2>3. Head(up).bounds \in Areas
    <3>1. Head(up) \in Asked BY SMT, <2>2, <1>t
    <3> QED BY Zenon, <3>1 DEF Asked
  <2>4. Read(R) \in Digests BY Zenon, <2>3, <1>t, QueryFact
  <2>5. srv'.known = Read(R) BY Zenon, <2>1, <1>t DEF Socketed
  <2> QED BY Zenon, <2>1, <2>2, <2>4, <2>5, BatchFact, BaseMoved
<1>2. CASE SubscribeFails
  <2>1. UNCHANGED <<down, viewportIds>> /\ srv' = [srv EXCEPT !.pc = "closed"]
    BY Zenon, <1>2 DEF SubscribeFails, Elsewhere
  <2>2. srv'.pc = "closed" BY Zenon, <2>1, <1>t DEF Socketed
  <2>3. srv'.pc \notin {"sent", "loop", "resync"} BY Zenon, <2>2
  <2> QED BY Zenon, <2>1, <2>3, BaseKept
<1>3. CASE Listen
  <2>1. UNCHANGED <<down, viewportIds>> /\ srv.pc = "sent" /\ srv' = [srv EXCEPT !.pc = "loop"]
    BY Zenon, <1>3 DEF Listen, Elsewhere, socket
  <2>2. srv'.known = srv.known BY Zenon, <2>1, <1>t DEF Socketed
  <2> QED BY Zenon, <2>1, <2>2, BaseKept
<1>4. CASE ViewportChanged
  <2>1. UNCHANGED <<down, viewportIds>> /\ srv' = [srv EXCEPT !.pending = Head(up).bounds]
    BY Zenon, <1>4 DEF ViewportChanged, Elsewhere
  <2>2. srv'.known = srv.known /\ srv'.pc = srv.pc BY Zenon, <2>1, <1>t DEF Socketed
  <2> QED BY Zenon, <2>1, <2>2, BaseKept
<1>5. CASE Debounced
  <2>1. srv.pending \in Areas /\ srv.pc = "loop" /\ UNCHANGED viewportIds
    BY Zenon, <1>5, <1>t DEF Debounced, Elsewhere, Socketed
  <2>2. PICK R \in query_viewport_events(srv.pending) :
          /\ srv' = [Moved EXCEPT !.known = Read(R), !.sure = TRUE, !.cut = Inside(srv.pending) \ R]
          /\ LET patch == compute_diff(srv.known, Read(R))
             IN  IF Keys(patch.events) # {} \/ patch.removed # {} THEN Sends(patch) ELSE UNCHANGED down
    BY Zenon, <1>5 DEF Debounced
  <2> DEFINE patch == compute_diff(srv.known, Read(R))
  <2>3. Read(R) \in Digests BY Zenon, <2>1, <1>t, QueryFact
  <2>4. /\ patch \in Frame /\ onmessageIds(Keys(srv.known), patch) = Keys(Read(R))
        /\ Keys(patch.events) = {} /\ patch.removed = {} => Keys(srv.known) = Keys(Read(R))
    BY Zenon, <2>3, <1>t, DiffFact
  <2>5. srv'.known = Read(R)
    <3>1. Moved \in Socketed BY Zenon, <2>1, <1>t DEF Moved, Socketed
    <3> QED BY Zenon, <2>2, <3>1 DEF Socketed
  <2>6. down' = Append(down, patch) \/ (down' = down /\ Keys(srv.known) = Keys(Read(R)))
    BY Zenon, <2>2, <2>4 DEF Sends
  <2> HIDE DEF patch
  <2>7. Delivered(viewportIds, down) = Keys(srv.known) BY Zenon, <2>1 DEF BaseInv
  <2>8. CASE down' = Append(down, patch)
    BY Zenon, <2>1, <2>4, <2>5, <2>7, <2>8, BaseMoved
  <2>9. CASE down' = down /\ Keys(srv.known) = Keys(Read(R))
    BY Zenon, <2>1, <2>5, <2>9, BaseKept
  <2> QED BY Zenon, <2>6, <2>8, <2>9
<1>6. CASE DebouncedFails
  <2>1. /\ UNCHANGED <<down, viewportIds>> /\ srv.pc = "loop" /\ srv.pending \in Areas
        /\ srv' = [Moved EXCEPT !.cut = @ \cup Inside(srv.pending)]
    BY Zenon, <1>6, <1>t DEF DebouncedFails, Elsewhere, socket, Socketed
  <2>2. Moved \in Socketed /\ Moved.known = srv.known BY Zenon, <2>1, <1>t DEF Moved, Socketed
  <2>3. srv'.known = srv.known BY Zenon, <2>1, <2>2 DEF Socketed
  <2> QED BY Zenon, <2>1, <2>3, BaseKept
<1>7. CASE Receive
  <2> DEFINE m == Head(srv.rx)
             s == [srv EXCEPT !.rx = Tail(@)]
             p == Patch([Nothing EXCEPT ![m.id] = m.digest], {})
  <2>1. srv.pc = "loop" /\ srv.rx # <<>> /\ UNCHANGED viewportIds BY Zenon, <1>7 DEF Receive, Elsewhere
  <2>2. m.id \in Event /\ m.digest \in Digest /\ m.digest # 0 /\ Tail(srv.rx) \in Seq(Message)
    <3>1. srv.rx \in Seq(Message) BY Zenon, <1>t DEF Socketed
    <3>2. m \in Message /\ Tail(srv.rx) \in Seq(Message) BY Zenon, <3>1, <2>1, IdsFact
    <3> QED BY Zenon, <3>2 DEF Message
  <2>3. \/ srv' = s /\ UNCHANGED down
        \/ srv' = [s EXCEPT !.cut = @ \cup {m.id}] /\ UNCHANGED down
        \/ \E n \in {0, srv.rate_count} : /\ srv' = [s EXCEPT !.rate_count = n + 1, !.known[m.id] = m.digest]
                                          /\ down' = Append(down, p)
    BY Zenon, <1>7 DEF Receive, Sends
  <2>4. s \in Socketed /\ s.pc = "loop" /\ s.known = srv.known BY Zenon, <2>1, <2>2, <1>t DEF Socketed
  <2> HIDE DEF s
  <2>5. ASSUME srv' = s \/ srv' = [s EXCEPT !.cut = @ \cup {m.id}], UNCHANGED down PROVE BaseInv'
    <3>1. srv'.known = srv.known BY Zenon, <2>4, <2>5 DEF Socketed
    <3> QED BY Zenon, <3>1, <2>1, <2>5, BaseKept
  <2>6. ASSUME NEW n, srv' = [s EXCEPT !.rate_count = n + 1, !.known[m.id] = m.digest], down' = Append(down, p)
        PROVE  BaseInv'
    <3> DEFINE k == [s.known EXCEPT ![m.id] = m.digest]
               v == [Nothing EXCEPT ![m.id] = m.digest]
    <3>1. k \in Digests /\ Keys(k) = Keys(srv.known) \cup {m.id}
      BY Zenon, <2>2, <2>4, <1>t DEF Digests, Keys
    <3>2. v \in Digests /\ Keys(v) = {m.id}
      <4>1. Nothing \in Digests /\ \A e \in Event : Nothing[e] = 0 BY SMT DEF Nothing, Digests, Digest
      <4> QED BY Zenon, <4>1, <2>2 DEF Digests, Keys
    <3>3. srv' = [s EXCEPT !.rate_count = n + 1, !.known = k] BY Zenon, <2>6
    <3>4. p = [type |-> "PATCH", events |-> v, removed |-> {}] BY Zenon DEF Patch
    <3> HIDE DEF k, v, p
    <3>5. srv'.known = k BY Zenon, <3>3, <2>4 DEF Socketed
    <3>6. p \in Frame /\ p.type = "PATCH" /\ p.events = v /\ p.removed = {} BY Zenon, <3>2, <3>4 DEF Frame
    <3>7. onmessageIds(Keys(srv.known), p) = Keys(k)
      BY Zenon, <3>1, <3>2, <3>6 DEF onmessageIds, viewportEventsBatchApply
    <3>8. Delivered(viewportIds, down) = Keys(srv.known) BY Zenon, <2>1 DEF BaseInv
    <3> QED BY Zenon, <3>5, <3>6, <3>7, <3>8, <2>1, <2>6, BaseMoved
  <2> QED BY Zenon, <2>3, <2>5, <2>6
<1>8. CASE Lagged
  <2>1. /\ UNCHANGED <<down, viewportIds>> /\ srv.pc = "loop"
        /\ srv' = [srv EXCEPT !.pc = "resync", !.rx = <<>>, !.lagged = FALSE, !.sure = FALSE]
    BY Zenon, <1>8 DEF Lagged, Elsewhere, socket
  <2>2. srv'.known = srv.known BY Zenon, <2>1, <1>t DEF Socketed
  <2> QED BY Zenon, <2>1, <2>2, BaseKept
<1>9. CASE Snapshot
  <2>1. PICK R \in query_viewport_events(srv.bounds) :
          /\ srv' = [Resumed(srv) EXCEPT !.known = Read(R), !.sure = TRUE, !.cut = Inside(srv.bounds) \ R]
          /\ down' = Append(down, Batch(Read(R)))
    BY Zenon, <1>9 DEF Snapshot, Sends
  <2>2. srv.pc = "resync" /\ UNCHANGED viewportIds BY Zenon, <1>9 DEF Snapshot, Elsewhere
  <2>3. srv.bounds \in Areas BY Zenon, <2>2 DEF ViewInv, BoundInv
  <2>4. Read(R) \in Digests BY Zenon, <2>3, <1>t, QueryFact
  <2>5. srv'.known = Read(R)
    <3>1. Resumed(srv) \in Socketed BY Zenon, <1>t DEF Resumed, Socketed
    <3> QED BY Zenon, <2>1, <3>1 DEF Socketed
  <2> QED BY Zenon, <2>1, <2>2, <2>4, <2>5, BatchFact, BaseMoved
<1>10. CASE SnapshotFails
  <2>1. UNCHANGED <<down, viewportIds>> /\ srv.pc = "resync" /\ srv' = [srv EXCEPT !.pc = "loop"]
    BY Zenon, <1>10 DEF SnapshotFails, Elsewhere, socket, Resumed
  <2>2. srv'.known = srv.known BY Zenon, <2>1, <1>t DEF Socketed
  <2> QED BY Zenon, <2>1, <2>2, BaseKept
<1> QED BY Zenon, <1>1, <1>2, <1>3, <1>4, <1>5, <1>6, <1>7, <1>8, <1>9, <1>10 DEF Server

\* The steps of the page, of the writers and of the channel.
LEMMA BaseOthers ==
  ASSUME ViewInv, BaseInv, Writer \/ (\E m \in tosend : Broadcast(m)) \/ onerror \/ Page \/ unmountView
                           \/ \E b \in Areas : boundsEffect(b)
  PROVE  BaseInv'
<1>t. srv \in Socketed BY Zenon DEF ViewInv, ViewTypes
<1>0. ASSUME UNCHANGED <<down, viewportIds, srv>> PROVE BaseInv'
  BY Zenon, <1>0 DEF BaseInv
<1>1. CASE Writer
  BY Zenon, <1>0, <1>1 DEF Writer, announced, expire_stale_events, socket
<1>2. ASSUME NEW m \in tosend, Broadcast(m) PROVE BaseInv'
  <2>1. UNCHANGED <<down, viewportIds>> BY Zenon, <1>2 DEF Broadcast, socket
  <2>2. PICK q, l : srv' = srv \/ srv' = [srv EXCEPT !.rx = q, !.lagged = l] BY Zenon, <1>2 DEF Broadcast
  <2>3. srv'.pc = srv.pc /\ srv'.known = srv.known BY Zenon, <2>2, <1>t DEF Socketed
  <2> QED BY Zenon, <2>1, <2>3, BaseKept
<1>3. ASSUME srv' = Fresh, down' = <<>>, UNCHANGED viewportIds PROVE BaseInv'
  <2>1. down' \in Seq(Frame) BY SMT, <1>3
  <2>2. srv'.pc \notin {"sent", "loop", "resync"} BY Zenon, <1>3, FreshFact
  <2> QED BY Zenon, <2>1, <2>2, <1>3 DEF BaseInv
<1>4. CASE onerror \/ handlerGone \/ \E code \in {1000, 1006} : closeAnswered(code)
  <2>1. srv' = Fresh /\ down' = <<>> /\ UNCHANGED viewportIds
    BY <1>4 DEF onerror, handlerGone, closeAnswered, onclose
  <2> QED BY Zenon, <2>1, <1>3
<1>5. CASE onopen \/ connect \/ unmountView \/ \E b \in Areas : boundsEffect(b)
  BY Zenon, <1>0, <1>5 DEF onopen, connect, unmountView, boundsEffect, socket
<1>6. CASE onmessage
  <2>1. /\ down # <<>> /\ down' = Tail(down) /\ viewportIds' = onmessageIds(viewportIds, Head(down))
        /\ UNCHANGED srv
    BY Zenon, <1>6 DEF onmessage
  <2>2. /\ down' \in Seq(Frame) /\ viewportIds' \in SUBSET Event
        /\ Delivered(viewportIds', down') = Delivered(viewportIds, down)
    BY Zenon, <2>1, FrameRead DEF BaseInv
  <2> QED BY Zenon, <2>1, <2>2 DEF BaseInv
<1> QED BY SMT, <1>1, <1>2, <1>4, <1>5, <1>6 DEF Page

\* The diffs of the handler are against the right base: what it believes the
\* page shows is what it will show (compute_diff and the two reducers).
THEOREM DiffsFitTheView == ViewSpec => []SameView
<1>1. ViewInit => BaseInv
  <2> SUFFICES ASSUME ViewInit PROVE BaseInv BY Zenon
  <2>1. down \in Seq(Frame) BY SMT DEF ViewInit
  <2>2. srv.pc \notin {"sent", "loop", "resync"} BY Zenon, FreshFact DEF ViewInit
  <2> QED BY Zenon, <2>1, <2>2 DEF BaseInv, ViewInit
<1>2. ViewInv /\ BaseInv /\ [ViewNext]_viewVars => BaseInv'
  <2> SUFFICES ASSUME ViewInv, BaseInv, [ViewNext]_viewVars PROVE BaseInv' BY Zenon
  <2>1. CASE UNCHANGED viewVars BY Zenon, <2>1 DEF viewVars, socket, BaseInv
  <2> QED BY Zenon, <2>1, BaseHandler, BaseOthers DEF ViewNext, Faults
<1>3. BaseInv => SameView BY Zenon, SameViewFact DEF BaseInv
<1>4. ViewSpec => []ViewInv BY Zenon, ViewInvariant
<1> QED BY <1>1, <1>2, <1>3, <1>4, PTL DEF ViewSpec
=============================================================================
