--------------------------- MODULE ReportsProofs ----------------------------
(*************************************************************************)
(* The safety properties of Reports for any users, reports, budget and   *)
(* decay settings, and of FieldReports, the page on which reports are    *)
(* written and listed, for any reports, presses, votes and lost answers. *)
(*************************************************************************)
EXTENDS Reports, FieldReports, FiniteSetTheorems, TLAPS

-----------------------------------------------------------------------------
\* compute_tier is total on scores.
LEMMA TierType == ASSUME NEW s \in Nat PROVE compute_tier(s) \in Tier
  BY DEF compute_tier, Tier

\* compute_new_status stays among the statuses of a filed report.
LEMMA StatusType ==
  ASSUME NEW st \in Status \ {"NONE"}, NEW s \in Int, NEW conf \in Nat,
         NEW deny \in Nat, NEW est \in Nat
  PROVE  compute_new_status(st, s, conf, deny, est) \in Status \ {"NONE"}
  BY Zenon DEF compute_new_status, Progress, Status

\* Rounding a point of the line from e to Floor stays between them.
LEMMA Rounding ==
  ASSUME NEW e \in Nat, NEW f \in Nat, f < e, NEW h \in Nat, NEW o \in Nat,
         0 < o, o < h
  PROVE  (2 * (e * h - o * (e - f)) + h) \div (2 * h) \in f..e
  <1> DEFINE p == o * (e - f)
             x == 2 * (e * h - p) + h
             q == x \div (2 * h)
  <1>1. p \in Nat /\ p <= h * (e - f)
    <2>1. h * (e - f) = o * (e - f) + (h - o) * (e - f)
      OBVIOUS
    <2>2. (h - o) * (e - f) >= 0 /\ o * (e - f) >= 0
      OBVIOUS
    <2> QED BY <2>1, <2>2
  <1>2. h * (e - f) = e * h - h * f
    OBVIOUS
  <1>3. x >= 2 * (h * f) + h /\ x <= 2 * (h * e) + h /\ x \in Nat
    BY <1>1, <1>2
  <1>4. q \in Int /\ (2 * h) * q <= x /\ x < (2 * h) * (q + 1)
    BY <1>3
  <1>5. q >= f
    <2>1. SUFFICES ASSUME q + 1 <= f PROVE FALSE
      BY <1>4
    <2>2. (2 * h) * (q + 1) <= (2 * h) * f
      BY <1>4, <2>1
    <2> QED BY <1>3, <1>4, <2>2
  <1>6. q <= e
    <2>1. SUFFICES ASSUME e + 1 <= q PROVE FALSE
      BY <1>4
    <2>2. (2 * h) * (e + 1) <= (2 * h) * q
      BY <1>4, <2>1
    <2> QED BY <1>3, <1>4, <2>2
  <1> QED BY <1>4, <1>5, <1>6

\* A decayed score lies between the floor and the earned score.
LEMMA ScoreInRange ==
  ASSUME NEW e \in Nat, Floor < e, NEW d \in Nat, NEW m \in 1..2
  PROVE  effective_score(e, d, m) \in Floor..e
  <1> DEFINE h == HorizonDays * m
             over == d - GraceDays
  <1>0. h \in Nat /\ over \in Int /\ Floor \in Nat
    BY DecayAssumption
  <1>1. CASE over <= 0 \/ over >= h
    BY <1>0, <1>1 DEF effective_score
  <1>2. CASE over > 0 /\ over < h
    <2>1. effective_score(e, d, m) = (2 * (e * h - over * (e - Floor)) + h) \div (2 * h)
      BY <1>0, <1>2 DEF effective_score
    <2>2. over \in Nat
      BY <1>0, <1>2
    <2> HIDE DEF h, over
    <2> QED BY <1>0, <1>2, <2>1, <2>2, Rounding
  <1> QED BY <1>0, <1>1, <1>2

\* The counters compute_new_status is given are counts.
LEMMA Counts ==
  ASSUME NEW S \in SUBSET User
  PROVE  Cardinality(S) \in Nat /\ IsFiniteSet(S)
  BY Zenon, ReportAssumption, FS_Subset, FS_CardinalityType

\* What a vote may do to the report: it stays filed, and it becomes VERIFIED
\* only from UNVERIFIED.
LEMMA VoteOutcome ==
  ASSUME TypeOK, NEW u \in User, NEW r \in Report, NEW v \in {"CONFIRM", "DENY"},
         NEW near \in {0, 1}, CastVote(u, r, v, near)
  PROVE  /\ score' \in [Report -> Int]
         /\ status'[r] = StatusAfter(r, score'[r])
         /\ status' = [status EXCEPT ![r] = StatusAfter(r, score'[r])]
         /\ StatusAfter(r, score'[r]) \in Status \ {"NONE"}
         /\ Voters(r, "CONFIRM")' \in SUBSET User
         /\ Voters(r, "DENY")' \in SUBSET User
  <1>1. Magnitude(u, near) \in Int
    BY DEF Magnitude, vote_weight, TypeOK, Tier
  <1>2. score' \in [Report -> Int]
    BY <1>1 DEF CastVote, TypeOK
  <1>3. /\ Voters(r, "CONFIRM")' \in SUBSET User
        /\ Voters(r, "DENY")' \in SUBSET User
    BY Zenon DEF Voters
  <1>4. StatusAfter(r, score'[r]) \in Status \ {"NONE"}
    <2>1. /\ Cardinality(Voters(r, "CONFIRM")') \in Nat
          /\ Cardinality(Voters(r, "DENY")') \in Nat
          /\ Cardinality({w \in Voters(r, "CONFIRM")' : Established(w)}) \in Nat
      BY Zenon, <1>3, Counts
    <2>2. status[r] \in Status \ {"NONE"}
      BY Zenon DEF CastVote, TypeOK
    <2> QED BY Zenon, <1>2, <2>1, <2>2, StatusType DEF StatusAfter
  <1>5. status' = [status EXCEPT ![r] = StatusAfter(r, score'[r])]
    BY Zenon DEF CastVote
  <1> QED BY Zenon, <1>2, <1>3, <1>4, <1>5 DEF TypeOK

\* Types hold at the start.
LEMMA TypeInit == Init => TypeOK
  BY ReportAssumption, DecayAssumption, TierType DEF Init, TypeOK, Voters, Status

\* Every step keeps the types.
LEMMA TypeStep == TypeOK /\ [Next]_vars => TypeOK'
  <1> SUFFICES ASSUME TypeOK, [Next]_vars PROVE TypeOK'
    BY Zenon
  <1> USE ReportAssumption, DecayAssumption
  <1>1. CASE UNCHANGED vars
    BY Zenon, <1>1 DEF vars, users, reports, trust, TypeOK, Voters
  <1>2. ASSUME NEW r \in Report, CreateReport(r), UNCHANGED earned0 PROVE TypeOK'
    <2>1. tier_score(tier[Author[r]]) \in Int
      BY DEF tier_score
    <2> QED
      BY Zenon, <1>2, <2>1 DEF CreateReport, TypeOK, users, trust, Voters, Status
  <1>3. ASSUME NEW u \in User, NEW r \in Report, NEW v \in {"CONFIRM", "DENY"},
               NEW near \in {0, 1}, CastVote(u, r, v, near), UNCHANGED earned0
        PROVE  TypeOK'
    <2>1. status' \in [Report -> Status] /\ score' \in [Report -> Int]
      <3>1. /\ score' \in [Report -> Int]
            /\ status' = [status EXCEPT ![r] = StatusAfter(r, score'[r])]
            /\ StatusAfter(r, score'[r]) \in Status \ {"NONE"}
        BY Zenon, <1>3, VoteOutcome
      <3> QED BY Zenon, <3>1 DEF TypeOK
    <2>2. vote' \in [Report -> [User -> {"NONE", "CONFIRM", "DENY"}]]
      BY Zenon, <1>3 DEF CastVote, TypeOK
    <2>3. \A x \in Report : vote'[x][Author[x]] = "NONE"
      BY Zenon, <1>3 DEF CastVote, TypeOK, MayVote
    <2>4. \A x \in Report : status'[x] = "NONE" => Voters(x, "NONE")' = User
      <3>1. status'[r] # "NONE"
        BY Zenon, <1>3, VoteOutcome
      <3>2. \A x \in Report \ {r} : status'[x] = status[x] /\ vote'[x] = vote[x]
        BY Zenon, <1>3 DEF CastVote, TypeOK
      <3> QED BY <3>1, <3>2 DEF TypeOK, Voters
    <2>5. /\ earned' \in [User -> Nat] /\ effective' \in [User -> Nat]
          /\ tier' \in [User -> Tier] /\ days' \in [User -> 0..MaxDays]
          /\ credited' \in [Report -> Nat]
      <3>1. CASE status'[r] = "VERIFIED" /\ status[r] # "VERIFIED"
        <4>1. Author[r] \in User /\ earned[Author[r]] + 10 \in Nat
          BY DEF TypeOK
        <4>2. compute_tier(earned[Author[r]] + 10) \in Tier
          BY Zenon, <4>1, TierType
        <4>3. CreditAuthor(Author[r]) /\ credited' = [credited EXCEPT ![r] = @ + 1]
          BY Zenon, <1>3, <3>1 DEF CastVote
        <4>4. earned' \in [User -> Nat] /\ effective' \in [User -> Nat]
          BY Zenon, <4>1, <4>3 DEF CreditAuthor, TypeOK
        <4>5. tier' \in [User -> Tier]
          BY Zenon, <4>1, <4>2, <4>3 DEF CreditAuthor, TypeOK
        <4>6. days' \in [User -> 0..MaxDays] /\ credited' \in [Report -> Nat]
          BY <4>1, <4>3 DEF CreditAuthor, TypeOK
        <4> QED BY Zenon, <4>4, <4>5, <4>6
      <3>2. CASE ~(status'[r] = "VERIFIED" /\ status[r] # "VERIFIED")
        BY Zenon, <1>3, <3>2 DEF CastVote, TypeOK, users
      <3> QED BY Zenon, <3>1, <3>2
    <2> QED
      BY Zenon, <1>3, <2>1, <2>2, <2>3, <2>4, <2>5 DEF CastVote, trust, TypeOK
  <1>4. ASSUME NEW w \in User, NEW u \in User,
               PostVouch(w, u) \/ IssueVouch(w, u) \/ RevokeVouch(w, u),
               UNCHANGED earned0
        PROVE  TypeOK'
    BY <1>4 DEF PostVouch, IssueVouch, RevokeVouch, TypeOK, users, reports, Voters
  <1>5. ASSUME DecaySelect, UNCHANGED earned0 PROVE TypeOK'
    <2>1. decaying' \in [User -> Nat \cup {-1}]
      <3> DEFINE due == {u \in User : earned[u] > Floor /\ days[u] >= GraceDays}
      <3>1. PICK m \in [due -> 1..2] : decaying' = [u \in User |->
              IF u \in due THEN effective_score(earned[u], days[u], m[u]) ELSE -1]
        BY Zenon, <1>5 DEF DecaySelect
      <3>2. \A u \in due : effective_score(earned[u], days[u], m[u]) \in Nat
        <4> SUFFICES ASSUME NEW u \in due
                     PROVE  effective_score(earned[u], days[u], m[u]) \in Nat
          BY Zenon
        <4>1. earned[u] \in Nat /\ Floor < earned[u] /\ days[u] \in Nat /\ m[u] \in 1..2
          BY DEF TypeOK
        <4>2. effective_score(earned[u], days[u], m[u]) \in Floor..earned[u]
          BY Zenon, <4>1, ScoreInRange
        <4> QED BY <4>1, <4>2
      <3> QED BY Zenon, <3>1, <3>2
    <2> QED
      BY Zenon, <1>5, <2>1 DEF DecaySelect, TypeOK, users, reports, trust, Voters
  <1>6. ASSUME NEW u \in User, DecayWrite(u), UNCHANGED earned0 PROVE TypeOK'
    <2>1. decaying[u] \in Nat /\ compute_tier(decaying[u]) \in Tier
      BY Zenon, <1>6, TierType DEF DecayWrite, TypeOK
    <2> QED BY Zenon, <1>6, <2>1 DEF DecayWrite, TypeOK, reports, trust, Voters
  <1>7. ASSUME DayPasses, UNCHANGED earned0 PROVE TypeOK'
    BY <1>7 DEF DayPasses, TypeOK, reports, trust, Voters
  <1> QED
    BY Zenon, <1>1, <1>2, <1>3, <1>4, <1>5, <1>6, <1>7
    DEF Next, ReportStep, VouchStep, DecayStep

\* Every variable always has its type; only filed reports have votes, and
\* nobody votes on their own.
THEOREM TypeCorrect == Spec => []TypeOK
  BY TypeInit, TypeStep, PTL DEF Spec

-----------------------------------------------------------------------------
\* A decayed score on its way is still within bounds when it is written: what
\* was earned only grows.
InRange ==
  /\ DecayStaysInRange
  /\ \A u \in User : decaying[u] # -1 => decaying[u] \in Floor..earned[u]

\* A report that was paid for is past UNVERIFIED for good.
Credit ==
  /\ CreditedOnce
  /\ \A r \in Report : credited[r] # 0 =>
       status[r] \in {"VERIFIED", "AUTHORITATIVE", "DISPUTED", "REJECTED"}

\* The start of TrustNeedsARoot.
ColdStart == Roots = {} /\ RequireEstablished /\ \A u \in User : earned0[u] = 0

Cold ==
  ColdStart =>
    /\ \A u \in User : earned[u] = 0
    /\ vouches = {} /\ issuing = {}
    /\ \A r \in Report : status[r] \notin {"VERIFIED", "AUTHORITATIVE"}

\* Scores and tiers stay in range over one step.
LEMMA RangeStep == TypeOK /\ InRange /\ [Next]_vars => InRange'
  <1> SUFFICES ASSUME TypeOK, InRange, [Next]_vars PROVE InRange'
    BY Zenon
  <1> USE ReportAssumption, DecayAssumption
  <1>1. CASE UNCHANGED <<earned, effective, tier, decaying>>
    BY Zenon, <1>1 DEF InRange, DecayStaysInRange
  <1>2. ASSUME NEW u \in User, NEW r \in Report, NEW v \in {"CONFIRM", "DENY"},
               NEW near \in {0, 1}, CastVote(u, r, v, near)
        PROVE  InRange'
    <2>1. CASE status'[r] = "VERIFIED" /\ status[r] # "VERIFIED"
      <3>1. Author[r] \in User /\ decaying' = decaying
        BY Zenon, <1>2 DEF CastVote
      <3>2. CreditAuthor(Author[r])
        BY Zenon, <1>2, <2>1 DEF CastVote
      <3>3. \A x \in User \ {Author[r]} :
              earned'[x] = earned[x] /\ effective'[x] = effective[x] /\ tier'[x] = tier[x]
        BY Zenon, <3>1, <3>2 DEF CreditAuthor, TypeOK
      <3>4. /\ earned'[Author[r]] = earned[Author[r]] + 10
            /\ effective'[Author[r]] = earned'[Author[r]]
            /\ tier'[Author[r]] = compute_tier(effective'[Author[r]])
        BY Zenon, <3>1, <3>2 DEF CreditAuthor, TypeOK
      <3>5. earned[Author[r]] \in Nat
        BY Zenon, <3>1 DEF TypeOK
      <3>6. DecayStaysInRange'
        BY <3>3, <3>4, <3>5 DEF InRange, DecayStaysInRange
      <3>7. \A x \in User : decaying'[x] # -1 => decaying'[x] \in Floor..earned'[x]
        <4> SUFFICES ASSUME NEW x \in User, decaying[x] # -1
                     PROVE  decaying[x] \in Floor..earned'[x]
          BY Zenon, <3>1
        <4>1. decaying[x] \in Floor..earned[x] /\ earned[x] \in Nat
          BY Zenon DEF InRange, TypeOK
        <4> QED BY <4>1, <3>3, <3>4
      <3> QED BY Zenon, <3>6, <3>7 DEF InRange
    <2>2. CASE ~(status'[r] = "VERIFIED" /\ status[r] # "VERIFIED")
      BY Zenon, <1>1, <1>2, <2>2 DEF CastVote, users
    <2> QED BY Zenon, <2>1, <2>2
  <1>3. ASSUME DecaySelect PROVE InRange'
    <2> DEFINE due == {u \in User : earned[u] > Floor /\ days[u] >= GraceDays}
    <2>1. PICK m \in [due -> 1..2] : decaying' = [u \in User |->
            IF u \in due THEN effective_score(earned[u], days[u], m[u]) ELSE -1]
      BY Zenon, <1>3 DEF DecaySelect
    <2>2. ASSUME NEW u \in due
          PROVE  effective_score(earned[u], days[u], m[u]) \in Floor..earned[u]
      <3>1. earned[u] \in Nat /\ Floor < earned[u] /\ days[u] \in Nat /\ m[u] \in 1..2
        BY DEF TypeOK
      <3> QED BY Zenon, <3>1, ScoreInRange
    <2>3. UNCHANGED <<earned, effective, tier>>
      BY Zenon, <1>3 DEF DecaySelect, users
    <2>4. DecayStaysInRange'
      BY Zenon, <2>3 DEF InRange, DecayStaysInRange
    <2> QED BY Zenon, <2>1, <2>2, <2>3, <2>4 DEF InRange
  <1>4. ASSUME NEW u \in User, DecayWrite(u) PROVE InRange'
    <2>1. decaying[u] \in Floor..earned[u]
      BY Zenon, <1>4 DEF DecayWrite, InRange
    <2>2. /\ earned' = earned
          /\ effective' = [effective EXCEPT ![u] = decaying[u]]
          /\ tier' = [tier EXCEPT ![u] = compute_tier(decaying[u])]
          /\ decaying' = [decaying EXCEPT ![u] = -1]
      BY Zenon, <1>4 DEF DecayWrite
    <2>3. DecayStaysInRange'
      BY <2>1, <2>2 DEF InRange, DecayStaysInRange, TypeOK
    <2> QED BY Zenon, <2>2, <2>3 DEF InRange, TypeOK
  <1> QED
    BY Zenon, <1>1, <1>2, <1>3, <1>4
    DEF Next, ReportStep, VouchStep, DecayStep, CreateReport, PostVouch, IssueVouch,
        RevokeVouch, DayPasses, vars, users

\* Only a vote changes a report, and how it does.
LEMMA ReportFrame ==
  ASSUME TypeOK, [Next]_vars
  PROVE  \/ UNCHANGED <<status, vote, credited, earned>>
         \/ \E r \in Report :
              /\ status[r] = "NONE" /\ status' = [status EXCEPT ![r] = "PENDING"]
              /\ UNCHANGED <<vote, credited, earned>>
         \/ \E u \in User, r \in Report, v \in {"CONFIRM", "DENY"}, near \in {0, 1} :
              CastVote(u, r, v, near)
  BY Zenon DEF Next, ReportStep, VouchStep, DecayStep, CreateReport, PostVouch, IssueVouch,
         RevokeVouch, DecaySelect, DecayWrite, DayPasses, vars, users, reports

\* Payment happens once, over one step.
LEMMA CreditStep == TypeOK /\ Credit /\ [Next]_vars => Credit'
  <1> SUFFICES ASSUME TypeOK, Credit, [Next]_vars PROVE Credit'
    BY Zenon
  <1>1. CASE UNCHANGED <<status, vote, credited, earned>>
    BY Zenon, <1>1 DEF Credit, CreditedOnce
  <1>2. ASSUME NEW r \in Report, status[r] = "NONE",
               status' = [status EXCEPT ![r] = "PENDING"], credited' = credited
        PROVE  Credit'
    BY Zenon, <1>2 DEF Credit, CreditedOnce, TypeOK
  <1>3. ASSUME NEW u \in User, NEW r \in Report, NEW v \in {"CONFIRM", "DENY"},
               NEW near \in {0, 1}, CastVote(u, r, v, near)
        PROVE  Credit'
    <2> DEFINE new == StatusAfter(r, score'[r])
    <2>1. status' = [status EXCEPT ![r] = new] /\ status[r] # "NONE" /\ status[r] \in Status
      BY Zenon, <1>3, VoteOutcome DEF CastVote, TypeOK
    <2>2. /\ new = "VERIFIED" => status[r] \in {"UNVERIFIED", "VERIFIED"}
          /\ new = "AUTHORITATIVE" => status[r] \in {"VERIFIED", "AUTHORITATIVE"}
          /\ status[r] \in {"VERIFIED", "AUTHORITATIVE", "DISPUTED", "REJECTED"} =>
               new \in {"VERIFIED", "AUTHORITATIVE", "DISPUTED", "REJECTED"}
      BY Zenon, <2>1 DEF StatusAfter, compute_new_status, Progress, Status
    <2>3. credited' = IF new = "VERIFIED" /\ status[r] # "VERIFIED"
                      THEN [credited EXCEPT ![r] = @ + 1] ELSE credited
      BY Zenon, <1>3, <2>1 DEF CastVote, TypeOK
    <2> HIDE DEF new
    <2> QED BY <2>1, <2>2, <2>3 DEF Credit, CreditedOnce, TypeOK
  <1> QED BY Zenon, <1>1, <1>2, <1>3, ReportFrame

\* A report only climbs on enough confirmers.
LEMMA Rungs ==
  ASSUME NEW st \in Status \ {"NONE"}, NEW s \in Int, NEW conf \in Nat,
         NEW deny \in Nat, NEW est \in Nat
  PROVE  LET new == compute_new_status(st, s, conf, deny, est) IN
         /\ (new = "UNVERIFIED" /\ st # "UNVERIFIED") => conf >= 2
         /\ (new = "VERIFIED" /\ st # "VERIFIED") => conf >= 3
         /\ (new = "AUTHORITATIVE" /\ st # "AUTHORITATIVE") => conf >= 4
  BY Zenon DEF compute_new_status, Progress, EnoughConfirmers, Status

\* The ladder stands on people, over one step: votes are only added.
LEMMA LadderStep == TypeOK /\ LadderNeedsPeople /\ [Next]_vars => LadderNeedsPeople'
  <1> SUFFICES ASSUME TypeOK, LadderNeedsPeople, [Next]_vars PROVE LadderNeedsPeople'
    BY Zenon
  <1>1. CASE UNCHANGED <<status, vote, credited, earned>>
    BY Zenon, <1>1 DEF LadderNeedsPeople, Voters
  <1>2. ASSUME NEW r \in Report, status' = [status EXCEPT ![r] = "PENDING"], vote' = vote
        PROVE  LadderNeedsPeople'
    BY Zenon, <1>2 DEF LadderNeedsPeople, Voters, TypeOK
  <1>3. ASSUME NEW u \in User, NEW r \in Report, NEW v \in {"CONFIRM", "DENY"},
               NEW near \in {0, 1}, CastVote(u, r, v, near)
        PROVE  LadderNeedsPeople'
    <2> DEFINE new == StatusAfter(r, score'[r])
               before == Voters(r, "CONFIRM") \ {Author[r]}
               after == Voters(r, "CONFIRM")' \ {Author[r]}
    <2>1. /\ status' = [status EXCEPT ![r] = new]
          /\ score'[r] \in Int
          /\ status[r] \in Status \ {"NONE"}
      BY Zenon, <1>3, VoteOutcome DEF CastVote, TypeOK
    <2>2. \A x \in Report \ {r} : status'[x] = status[x] /\ Voters(x, "CONFIRM")' = Voters(x, "CONFIRM")
      BY <1>3, <2>1 DEF CastVote, TypeOK, Voters
    <2>3. Voters(r, "CONFIRM")' = after
      <3>1. Author[r] # u /\ Author[r] \in User
        BY Zenon, <1>3, ReportAssumption DEF CastVote, MayVote
      <3>2. vote'[r][Author[r]] = "NONE"
        BY Zenon, <1>3, <3>1 DEF CastVote, TypeOK
      <3> QED BY Zenon, <3>2 DEF Voters
    <2>4. before \subseteq after
      BY <1>3 DEF CastVote, TypeOK, Voters, MayVote
    <2>5. /\ Cardinality(before) \in Nat /\ Cardinality(after) \in Nat
          /\ Cardinality(before) <= Cardinality(after)
      <3>1. before \in SUBSET User /\ after \in SUBSET User
        BY Zenon DEF Voters
      <3> HIDE DEF before, after
      <3> QED BY Zenon, <3>1, <2>4, Counts, FS_Subset
    <2>6. /\ (new = "UNVERIFIED" /\ status[r] # "UNVERIFIED") => Cardinality(after) >= 2
          /\ (new = "VERIFIED" /\ status[r] # "VERIFIED") => Cardinality(after) >= 3
          /\ (new = "AUTHORITATIVE" /\ status[r] # "AUTHORITATIVE") => Cardinality(after) >= 4
      <3> DEFINE conf == Cardinality(Voters(r, "CONFIRM")')
                 deny == Cardinality(Voters(r, "DENY")')
                 est == Cardinality({w \in Voters(r, "CONFIRM")' : Established(w)})
      <3>1. conf \in Nat /\ deny \in Nat /\ est \in Nat /\ conf = Cardinality(after)
        <4>1. /\ Voters(r, "CONFIRM")' \in SUBSET User
              /\ Voters(r, "DENY")' \in SUBSET User
              /\ {w \in Voters(r, "CONFIRM")' : Established(w)} \in SUBSET User
          BY Zenon DEF Voters
        <4> QED BY Zenon, <4>1, <2>3, Counts
      <3>2. new = compute_new_status(status[r], score'[r], conf, deny, est)
        BY Zenon DEF StatusAfter
      <3> HIDE DEF conf, deny, est, new, after
      <3> QED BY Zenon, <2>1, <3>1, <3>2, Rungs
    <2>7. /\ status[r] = "UNVERIFIED" => Cardinality(before) >= 2
          /\ status[r] = "VERIFIED" => Cardinality(before) >= 3
          /\ status[r] = "AUTHORITATIVE" => Cardinality(before) >= 4
      BY Zenon DEF LadderNeedsPeople
    <2>8. status'[r] = new
      BY Zenon, <2>1 DEF TypeOK
    <2> HIDE DEF new
    <2>9. /\ status'[r] = "UNVERIFIED" => Cardinality(after) >= 2
          /\ status'[r] = "VERIFIED" => Cardinality(after) >= 3
          /\ status'[r] = "AUTHORITATIVE" => Cardinality(after) >= 4
      <3> HIDE DEF before, after
      <3> QED BY <2>5, <2>6, <2>7, <2>8
    <2> QED BY Zenon, <2>2, <2>9 DEF LadderNeedsPeople
  <1> QED BY Zenon, <1>1, <1>2, <1>3, ReportFrame

\* The budget holds over one step: a vouch is only added under it.
LEMMA BudgetStep == TypeOK /\ BudgetHolds /\ [Next]_vars => BudgetHolds'
  <1> SUFFICES ASSUME TypeOK, BudgetHolds, [Next]_vars,
                      NEW w \in User
               PROVE  Cardinality({x \in User : <<w, x>> \in vouches'}) <= VouchBudget
    BY Zenon DEF BudgetHolds
  <1> DEFINE before == {x \in User : <<w, x>> \in vouches}
             after == {x \in User : <<w, x>> \in vouches'}
  <1>0. before \in SUBSET User /\ Cardinality(before) <= VouchBudget
        /\ VouchBudget \in Nat
    BY Zenon, DecayAssumption DEF BudgetHolds
  <1>1. CASE after \subseteq before
    <2>1. after \in SUBSET User
      BY Zenon
    <2> HIDE DEF before, after
    <2>2. Cardinality(after) <= Cardinality(before) /\ Cardinality(after) \in Nat
          /\ Cardinality(before) \in Nat
      BY Zenon, <1>0, <1>1, <2>1, Counts, FS_Subset
    <2>3. Cardinality(after) <= VouchBudget
      BY <1>0, <2>2
    <2> QED BY Zenon, <2>3 DEF after
  <1>2. ASSUME NEW u \in User, IssueVouch(w, u)
        PROVE  Cardinality(after) <= VouchBudget
    <2>1. CASE Cardinality(before) >= VouchBudget
      <3>1. vouches' = vouches
        BY Zenon, <1>2, <2>1 DEF IssueVouch
      <3> QED BY Zenon, <1>1, <3>1
    <2>2. CASE ~(Cardinality(before) >= VouchBudget)
      <3>1. after = before \cup {u}
        BY Zenon, <1>2, <2>2 DEF IssueVouch
      <3> HIDE DEF before, after
      <3>2. Cardinality(before) \in Nat /\ IsFiniteSet(before)
        BY Zenon, <1>0, Counts
      <3>3. Cardinality(before) + 1 <= VouchBudget
        BY <1>0, <2>2, <3>2
      <3>4. Cardinality(after) <= Cardinality(before) + 1
        BY <3>1, <3>2, FS_AddElement
      <3>5. Cardinality(after) \in Nat
        BY Zenon, <3>1, <1>0, Counts
      <3> QED BY <1>0, <3>2, <3>3, <3>4, <3>5
    <2> QED BY Zenon, <2>1, <2>2
  <1>3. CASE \E u \in User : IssueVouch(w, u)
    BY Zenon, <1>2, <1>3
  <1>4. CASE ~\E u \in User : IssueVouch(w, u)
    <2>1. \/ vouches' \subseteq vouches
          \/ \E z \in User, u \in User : IssueVouch(z, u) /\ z # w
      BY Zenon, <1>4
      DEF Next, ReportStep, VouchStep, DecayStep, CreateReport, CastVote, PostVouch,
          RevokeVouch, DecaySelect, DecayWrite, DayPasses, vars, trust
    <2>2. after \subseteq before
      BY Zenon, <2>1 DEF IssueVouch
    <2> QED BY Zenon, <1>1, <2>2
  <1> QED BY Zenon, <1>3, <1>4

\* From a cold start nobody is established.
LEMMA ColdNobody ==
  ASSUME TypeOK, InRange, Cold, ColdStart
  PROVE  \A u \in User : ~eligible_from(u) /\ ~Established(u)
  <1>1. ASSUME NEW u \in User PROVE ~eligible_from(u)
    <2>1. effective[u] = 0
      BY DEF TypeOK, InRange, DecayStaysInRange, Cold
    <2>2. tier[u] = "NEWCOMER"
      BY <2>1 DEF InRange, DecayStaysInRange, compute_tier
    <2> QED BY Zenon, <2>2 DEF eligible_from, tier_is_established, ColdStart
  <1> QED BY Zenon, <1>1 DEF Established, Cold

\* Without established confirmers the gate keeps a report below VERIFIED.
LEMMA GateHolds ==
  ASSUME RequireEstablished, NEW st \in Status \ {"NONE", "VERIFIED", "AUTHORITATIVE"},
         NEW s \in Int, NEW conf \in Nat, NEW deny \in Nat
  PROVE  compute_new_status(st, s, conf, deny, 0) \notin {"VERIFIED", "AUTHORITATIVE"}
  BY DEF compute_new_status, Progress, established_ok, Status

\* A cold start stays cold, over one step.
LEMMA ColdStep == TypeOK /\ InRange /\ Cold /\ [Next]_vars => Cold'
  <1> SUFFICES ASSUME TypeOK, InRange, Cold, [Next]_vars, ColdStart' PROVE
        /\ \A u \in User : earned'[u] = 0
        /\ vouches' = {} /\ issuing' = {}
        /\ \A r \in Report : status'[r] \notin {"VERIFIED", "AUTHORITATIVE"}
    BY Zenon DEF Cold
  <1>1. ColdStart
    BY Zenon DEF ColdStart, Next, vars
  <1>2. \A u \in User : ~eligible_from(u) /\ ~Established(u)
    BY Zenon, <1>1, ColdNobody
  <1>3. vouches' = {} /\ issuing' = {}
    <2>1. vouches = {} /\ issuing = {}
      BY Zenon, <1>1 DEF Cold
    <2> QED
      BY Zenon, <1>2, <2>1
      DEF Next, ReportStep, VouchStep, DecayStep, CreateReport, CastVote, PostVouch,
          IssueVouch, RevokeVouch, DecaySelect, DecayWrite, DayPasses, vars, trust
  <1> DEFINE Goal == /\ \A u \in User : earned'[u] = 0
                     /\ \A r \in Report : status'[r] \notin {"VERIFIED", "AUTHORITATIVE"}
  <1>4. /\ \A u \in User : earned[u] = 0
        /\ \A r \in Report : status[r] \notin {"VERIFIED", "AUTHORITATIVE"}
    BY Zenon, <1>1 DEF Cold
  <1>5. ASSUME UNCHANGED <<status, vote, credited, earned>> PROVE Goal
    BY Zenon, <1>4, <1>5
  <1>6. ASSUME NEW r \in Report, status' = [status EXCEPT ![r] = "PENDING"],
               earned' = earned
        PROVE  Goal
    BY Zenon, <1>4, <1>6 DEF TypeOK
  <1>7. ASSUME NEW u \in User, NEW r \in Report, NEW v \in {"CONFIRM", "DENY"},
               NEW near \in {0, 1}, CastVote(u, r, v, near)
        PROVE  Goal
    <2> DEFINE new == StatusAfter(r, score'[r])
               conf == Cardinality(Voters(r, "CONFIRM")')
               deny == Cardinality(Voters(r, "DENY")')
    <2>1. /\ status' = [status EXCEPT ![r] = new]
          /\ score'[r] \in Int
          /\ status[r] \in Status \ {"NONE", "VERIFIED", "AUTHORITATIVE"}
      BY Zenon, <1>4, <1>7, VoteOutcome DEF CastVote, TypeOK
    <2>2. conf \in Nat /\ deny \in Nat
      <3>1. Voters(r, "CONFIRM")' \in SUBSET User /\ Voters(r, "DENY")' \in SUBSET User
        BY Zenon DEF Voters
      <3> QED BY Zenon, <3>1, Counts
    <2>3. {w \in Voters(r, "CONFIRM")' : Established(w)} = {}
      BY Zenon, <1>2 DEF Voters
    <2>4. new = compute_new_status(status[r], score'[r], conf, deny, 0)
      BY Zenon, <2>3, FS_EmptySet DEF StatusAfter
    <2>5. new \notin {"VERIFIED", "AUTHORITATIVE"}
      <3> HIDE DEF new, conf, deny
      <3> QED BY Zenon, <1>1, <2>1, <2>2, <2>4, GateHolds DEF ColdStart
    <2> HIDE DEF new
    <2>6. status'[r] # "VERIFIED"
      BY Zenon, <2>1, <2>5 DEF TypeOK
    <2>7. earned' = earned
      BY Zenon, <1>7, <2>6 DEF CastVote, users
    <2> QED BY Zenon, <1>4, <2>1, <2>5, <2>7 DEF TypeOK
  <1>8. Goal
    BY Zenon, <1>5, <1>6, <1>7, ReportFrame
  <1> QED BY Zenon, <1>3, <1>8

-----------------------------------------------------------------------------
\* Decay keeps every effective score between the floor and the earned score,
\* and the tier in step with it, however passes and credits interleave.
THEOREM DecayInRange == Spec => []DecayStaysInRange
  <1>1. Init => InRange
    BY ReportAssumption, DecayAssumption DEF Init, InRange, DecayStaysInRange
  <1>2. InRange => DecayStaysInRange
    BY Zenon DEF InRange
  <1> QED BY <1>1, <1>2, RangeStep, TypeCorrect, PTL DEF Spec

\* A report pays its author at most once, whatever the order of votes.
THEOREM PaidOnce == Spec => []CreditedOnce
  <1>1. Init => Credit
    BY DEF Init, Credit, CreditedOnce
  <1>2. Credit => CreditedOnce
    BY Zenon DEF Credit
  <1> QED BY <1>1, <1>2, CreditStep, TypeCorrect, PTL DEF Spec

\* Every rung of the ladder stands on distinct confirmers, not on weight.
THEOREM LadderStandsOnPeople == Spec => []LadderNeedsPeople
  <1>1. Init => LadderNeedsPeople
    BY Zenon DEF Init, LadderNeedsPeople
  <1> QED BY <1>1, LadderStep, TypeCorrect, PTL DEF Spec

\* Interleaved vouch requests never overrun the voucher's budget.
THEOREM BudgetNeverOverrun == Spec => []BudgetHolds
  <1>1. ASSUME Init PROVE BudgetHolds
    <2>1. \A w \in User : {u \in User : <<w, u>> \in vouches} = {}
      BY Zenon, <1>1 DEF Init
    <2>2. Cardinality({}) = 0 /\ VouchBudget \in Nat
      BY Zenon, FS_EmptySet, DecayAssumption
    <2>3. Cardinality({}) <= VouchBudget
      BY <2>2
    <2> QED BY Zenon, <2>1, <2>3 DEF BudgetHolds
  <1> QED BY <1>1, BudgetStep, TypeCorrect, PTL DEF Spec

\* Without a root or earned reputation no report is ever VERIFIED and nobody
\* ever becomes established.
THEOREM TrustStartsAtARoot == Spec => []TrustNeedsARoot
  <1>1. Init => InRange /\ Cold
    BY ReportAssumption, DecayAssumption
    DEF Init, InRange, DecayStaysInRange, Cold, ColdStart
  <1>2. TypeOK /\ InRange /\ Cold => TrustNeedsARoot
    BY Zenon, ColdNobody DEF TrustNeedsARoot, Cold, ColdStart
  <1> QED BY <1>1, <1>2, RangeStep, ColdStep, TypeCorrect, PTL DEF Spec

-----------------------------------------------------------------------------
(* Runs: what a step function computes along a sequence *)

IsRun(f, a, n, S, G) == f \in [0..n -> S] /\ f[0] = a /\ \A k \in 1..n : f[k] = G[k][f[k - 1]]
FollowsRun(g, a, n, S, G) == g[0] = a /\ \A k \in 1..n : g[k - 1] \in S => g[k] = G[k][g[k - 1]]
RunSteps(S, n) == [1..n -> [S -> S]]

\* A run of n steps from a exists, whatever the steps are ...
LEMMA RunExists ==
  ASSUME NEW S, NEW a \in S, NEW n \in Nat, NEW G \in RunSteps(S, n)
  PROVE  \E f : IsRun(f, a, n, S, G)
<1> USE DEF RunSteps
<1> DEFINE Runs(m) == {f \in [0..m -> S] : f[0] = a /\ \A k \in 1..m : f[k] = G[k][f[k - 1]]}
           Bad == {m \in 0..n : Runs(m) = {}}
<1>1. Bad = {}
  <2> SUFFICES ASSUME Bad # {} PROVE FALSE BY Zenon
  <2>1. Bad \subseteq Nat BY SMT
  <2>2. PICK m \in Bad : \A x \in Bad : ~(<<x, m>> \in OpToRel(<, Nat))
    BY Zenon, <2>1, NatLessThanWellFounded, WFMin
  <2>3. m \in 0..n /\ m \in Nat BY SMT
  <2>4. CASE m = 0
    <3> DEFINE f == [x \in 0..0 |-> a]
    <3>1. f \in Runs(0) BY SMT
    <3> QED BY Zenon, <3>1, <2>4
  <2>5. CASE m # 0
    <3>1. m - 1 \in 0..n /\ m - 1 \in Nat /\ m - 1 < m /\ m \in 1..n BY SMT, <2>3, <2>5
    <3>2. m - 1 \notin Bad BY Zenon, <2>2, <2>3, <3>1 DEF OpToRel
    <3>3. PICK g \in Runs(m - 1) : TRUE BY Zenon, <3>1, <3>2
    <3> DEFINE f == [x \in 0..m |-> IF x = m THEN G[m][g[m - 1]] ELSE g[x]]
    <3>4. g \in [0..(m - 1) -> S] /\ g[0] = a /\ \A k \in 1..(m - 1) : g[k] = G[k][g[k - 1]] BY Zenon, <3>3
    <3>5. G[m] \in [S -> S] /\ g[m - 1] \in S BY SMT, <3>1, <3>4
    <3>6. f \in [0..m -> S] /\ f[0] = a BY SMT, <2>3, <2>5, <3>4, <3>5
    <3>7. \A k \in 1..m : f[k] = G[k][f[k - 1]] BY SMT, <2>3, <2>5, <3>4
    <3> HIDE DEF f
    <3>8. f \in Runs(m) BY Zenon, <3>6, <3>7
    <3> QED BY Zenon, <3>8
  <2> QED BY Zenon, <2>4, <2>5
<1>2. n \in 0..n BY SMT
<1>3. Runs(n) # {} BY Zenon, <1>1, <1>2
<1> QED BY Zenon, <1>3 DEF IsRun

\* ... and is determined by its steps.
LEMMA RunUnique ==
  ASSUME NEW n \in Nat, NEW S, NEW G \in RunSteps(S, n), NEW a, NEW f, IsRun(f, a, n, S, G),
         NEW g, FollowsRun(g, a, n, S, G)
  PROVE  \A m \in 0..n : f[m] = g[m]
<1> USE DEF RunSteps, IsRun, FollowsRun
<1> DEFINE Bad == {m \in 0..n : f[m] # g[m]}
<1>1. Bad = {}
  <2> SUFFICES ASSUME Bad # {} PROVE FALSE BY Zenon
  <2>1. Bad \subseteq Nat BY SMT
  <2>2. PICK m \in Bad : \A x \in Bad : ~(<<x, m>> \in OpToRel(<, Nat))
    BY Zenon, <2>1, NatLessThanWellFounded, WFMin
  <2>3. m # 0 BY Zenon
  <2>4. m \in 1..n /\ m - 1 \in 0..n /\ m - 1 \in Nat /\ m \in Nat /\ m - 1 < m BY SMT, <2>3
  <2>5. f[m - 1] = g[m - 1] /\ f[m - 1] \in S BY Zenon, <2>2, <2>4 DEF OpToRel
  <2>6. f[m] = g[m] BY Zenon, <2>4, <2>5
  <2> QED BY Zenon, <2>6
<1> QED BY Zenon, <1>1

-----------------------------------------------------------------------------
(* FieldReports: the form *)

Presses == [inst : Nat, pc : Steps, photo : Photo, cid : Photo, req : {"none", "sent", "stored", "refused"},
            answer : Id \cup {0}, lost : BOOLEAN]
Forms == [desktop : BOOLEAN, open : BOOLEAN, inst : Nat, submitState : {"idle", "locating", "submitting", "error"}]
FormTypes == press \in Seq(Presses) /\ form \in Forms /\ filed \in [Id -> Nat]

\* A run that has filed a report the page knows of, or may still do so.
Tallies(p) == ~p.lost /\ (p.pc # "done" \/ p.req = "stored")
Busy == {"locating", "submitting"}

\* What a run has sent at each of its steps.
Coherent(p) == /\ p.lost => p.pc = "done"
               /\ p.req = "sent" => p.pc = "posting" \/ p.lost
               /\ p.pc \notin {"posting", "done"} => p.req = "none"

\* Of the runs of one form at most one counts, and while the form is open its
\* button is disabled for it.
PressInv ==
  /\ \A h \in DOMAIN press : Coherent(press[h]) /\ press[h].inst <= form.inst
  /\ \A h, g \in DOMAIN press : Tallies(press[h]) /\ Tallies(press[g]) /\ press[h].inst = press[g].inst => h = g
  /\ \A h \in DOMAIN press :
       Tallies(press[h]) /\ form.open /\ press[h].inst = form.inst => form.submitState \in Busy

\* A report of the page's own is the answer of the run that filed it.
FiledInv == \A r \in Id : filed[r] # 0 =>
              filed[r] \in DOMAIN press /\ press[filed[r]].req = "stored" /\ press[filed[r]].answer = r
FormInv == FormTypes /\ PressInv /\ FiledInv

\* One element of a sequence replaced, one added.
LEMMA SeqPut ==
  ASSUME NEW S, NEW s \in Seq(S), NEW i \in DOMAIN s, NEW q \in S
  PROVE  /\ [s EXCEPT ![i] = q] \in Seq(S) /\ DOMAIN [s EXCEPT ![i] = q] = DOMAIN s
         /\ [s EXCEPT ![i] = q][i] = q /\ \A j \in DOMAIN s : j # i => [s EXCEPT ![i] = q][j] = s[j]
OBVIOUS
LEMMA SeqAdd ==
  ASSUME NEW S, NEW s \in Seq(S), NEW q \in S
  PROVE  /\ Append(s, q) \in Seq(S) /\ DOMAIN Append(s, q) = DOMAIN s \cup {Len(s) + 1} /\ Len(s) + 1 \notin DOMAIN s
         /\ Append(s, q)[Len(s) + 1] = q /\ \A j \in DOMAIN s : Append(s, q)[j] = s[j]
OBVIOUS
LEMMA SeqMember == ASSUME NEW S, NEW s \in Seq(S), NEW i \in DOMAIN s PROVE s[i] \in S /\ i \in Nat /\ i # 0
OBVIOUS

\* One run goes on, and the form shows what the run set if it is the run's own.
LEMMA PressMoves ==
  ASSUME FormTypes, PressInv, NEW h \in DOMAIN press, NEW q \in Presses, press' = [press EXCEPT ![h] = q],
         q.inst = press[h].inst, Coherent(q), Tallies(q) => Tallies(press[h]),
         form' \in Forms, form'.inst = form.inst, form'.open => form.open,
         \/ form'.submitState = form.submitState
         \/ form.inst = press[h].inst /\ Tallies(press[h]) /\ (form'.submitState \in Busy \/ ~Tallies(q))
  PROVE  press' \in Seq(Presses) /\ PressInv'
<1>1. /\ press' \in Seq(Presses) /\ DOMAIN press' = DOMAIN press /\ press'[h] = q
      /\ \A j \in DOMAIN press : j # h => press'[j] = press[j]
  BY Zenon, SeqPut DEF FormTypes
<1>2. \A g \in DOMAIN press : /\ press'[g].inst = press[g].inst /\ (Tallies(press'[g]) => Tallies(press[g]))
                              /\ Coherent(press'[g])
  BY Zenon, <1>1 DEF PressInv
<1>3. \A g \in DOMAIN press' : Coherent(press'[g]) /\ press'[g].inst <= form'.inst
  BY Zenon, <1>1, <1>2 DEF PressInv
<1>4. \A g, k \in DOMAIN press' : Tallies(press'[g]) /\ Tallies(press'[k]) /\ press'[g].inst = press'[k].inst => g = k
  <2> SUFFICES ASSUME NEW g \in DOMAIN press, NEW k \in DOMAIN press, Tallies(press'[g]), Tallies(press'[k]),
                      press'[g].inst = press'[k].inst
               PROVE  g = k
    BY Zenon, <1>1
  <2>1. Tallies(press[g]) /\ Tallies(press[k]) /\ press[g].inst = press[k].inst BY Zenon, <1>2
  <2> QED BY Zenon, <2>1 DEF PressInv
<1>5. ASSUME NEW g \in DOMAIN press', Tallies(press'[g]), form'.open, press'[g].inst = form'.inst
      PROVE  form'.submitState \in Busy
  <2>1. Tallies(press[g]) /\ form.open /\ press[g].inst = form.inst BY Zenon, <1>1, <1>2, <1>5
  <2>2. form.submitState \in Busy BY Zenon, <1>1, <2>1 DEF PressInv
  <2>3. press[g].inst = press[h].inst /\ Tallies(press[h]) => g = h BY Zenon, <1>1, <2>1 DEF PressInv
  <2> QED BY Zenon, <1>1, <1>5, <2>1, <2>2, <2>3
<1> QED BY Zenon, <1>1, <1>3, <1>4, <1>5 DEF PressInv

\* The rest of the invariant, where nothing is filed.
LEMMA RunMoves ==
  ASSUME FormInv, NEW h \in DOMAIN press, NEW q \in Presses, press' = [press EXCEPT ![h] = q],
         q.inst = press[h].inst, Coherent(q), Tallies(q) => Tallies(press[h]),
         form' \in Forms, form'.inst = form.inst, form'.open => form.open,
         \/ form'.submitState = form.submitState
         \/ form.inst = press[h].inst /\ Tallies(press[h]) /\ (form'.submitState \in Busy \/ ~Tallies(q)),
         UNCHANGED filed, q.answer = press[h].answer, press[h].req = "stored" => q.req = "stored"
  PROVE  FormInv'
<1>1. press' \in Seq(Presses) /\ PressInv' BY Zenon, PressMoves DEF FormInv
<1>2. DOMAIN press' = DOMAIN press /\ press'[h] = q /\ \A j \in DOMAIN press : j # h => press'[j] = press[j]
  BY Zenon, SeqPut DEF FormInv, FormTypes
<1>3. ASSUME NEW r \in Id, filed'[r] # 0
      PROVE  filed'[r] \in DOMAIN press' /\ press'[filed'[r]].req = "stored" /\ press'[filed'[r]].answer = r
  <2>1. filed[r] \in DOMAIN press /\ press[filed[r]].req = "stored" /\ press[filed[r]].answer = r
    BY Zenon, <1>3 DEF FormInv, FiledInv
  <2>2. CASE filed[r] = h BY Zenon, <1>2, <2>1, <2>2
  <2>3. CASE filed[r] # h BY Zenon, <1>2, <2>1, <2>3
  <2> QED BY Zenon, <2>2, <2>3
<1> QED BY Zenon, <1>1, <1>3 DEF FormInv, FormTypes, FiledInv

\* A run's form under setSubmitState.
LEMMA ShowsFact ==
  ASSUME FormTypes, NEW h \in DOMAIN press, NEW s \in {"idle", "locating", "submitting", "error"}, Shows(h, s)
  PROVE  /\ form' \in Forms /\ form'.inst = form.inst /\ form'.open = form.open
         /\ form'.submitState = form.submitState \/ (form.inst = press[h].inst /\ form'.submitState = s)
<1>1. form \in Forms BY Zenon DEF FormTypes
<1>2. CASE form' = form BY Zenon, <1>1, <1>2
<1>3. CASE form' = [form EXCEPT !.submitState = s] /\ form.inst = press[h].inst
  BY Zenon, <1>1, <1>3 DEF Forms
<1> QED BY Zenon, <1>2, <1>3 DEF Shows

\* The steps of one run of handleSubmit, and of its request.
LEMMA RunKeeps == ASSUME FormInv, NEW h \in DOMAIN press, Submission(h) PROVE FormInv'
<1> DEFINE p == press[h]
           Kept(q) == q \in Presses /\ q.inst = p.inst /\ q.answer = p.answer
<1>t. /\ FormTypes /\ p \in Presses /\ form \in Forms /\ press \in Seq(Presses)
      /\ Coherent(p)
  BY Zenon, SeqMember DEF FormInv, FormTypes, PressInv
\* The run goes to another step before its request, and the form stays.
<1>a. ASSUME NEW q, Kept(q), press' = [press EXCEPT ![h] = q], UNCHANGED <<filed, form>>,
             p.pc \notin {"posting", "done"}, q.pc \notin {"posting", "done"}, q.req = p.req, q.lost = p.lost
      PROVE  FormInv'
  <2>1. ~p.lost /\ Tallies(p) BY Zenon, <1>t, <1>a DEF Coherent, Tallies
  <2>2. Coherent(q) BY Zenon, <2>1, <1>t, <1>a DEF Coherent
  <2> QED BY Zenon, <1>t, <1>a, <2>1, <2>2, RunMoves
<1>1. CASE located(h)
  <2> DEFINE to == IF p.photo = "none" THEN "sign" ELSE "compress"
             q == [p EXCEPT !.pc = to]
  <2>1. p.pc = "locating" /\ Shows(h, "submitting") /\ press' = [press EXCEPT ![h] = q] /\ UNCHANGED filed
    BY Zenon, <1>1 DEF located, At, Goes, Alone, reportsServer
  <2>2. to \in Steps /\ to \notin {"posting", "done"} BY Zenon DEF Steps
  <2>3. Kept(q) /\ q.pc = to /\ q.req = p.req /\ q.lost = p.lost BY Zenon, <1>t, <2>2 DEF Presses
  <2> HIDE DEF q, to
  <2>4. ~p.lost /\ Tallies(p) BY Zenon, <1>t, <2>1 DEF Coherent, Tallies
  <2>5. Coherent(q) BY Zenon, <2>1, <2>2, <2>3, <2>4, <1>t DEF Coherent
  <2>6. /\ form' \in Forms /\ form'.inst = form.inst /\ form'.open = form.open
        /\ form'.submitState = form.submitState \/ (form.inst = press[h].inst /\ form'.submitState = "submitting")
    BY Zenon, <1>t, <2>1, ShowsFact
  <2> QED BY Zenon, <2>1, <2>3, <2>4, <2>5, <2>6, RunMoves DEF Busy
\* The run is over, and its form shows an error.
<1>e. ASSUME NEW q, Kept(q), press' = [press EXCEPT ![h] = q], UNCHANGED filed, Shows(h, "error"),
             p.pc # "done", q.pc = "done", q.req = p.req, q.lost \/ (p.req \notin {"sent", "stored"})
      PROVE  FormInv'
  <2>1. ~p.lost /\ Tallies(p) /\ ~Tallies(q) BY Zenon, <1>t, <1>e DEF Coherent, Tallies
  <2>2. Coherent(q) BY Zenon, <1>e DEF Coherent
  <2>3. /\ form' \in Forms /\ form'.inst = form.inst /\ form'.open = form.open
        /\ form'.submitState = form.submitState \/ (form.inst = press[h].inst /\ form'.submitState = "error")
    BY Zenon, <1>t, <1>e, ShowsFact
  <2> QED BY Zenon, <1>e, <2>1, <2>2, <2>3, RunMoves
<1>2. CASE notLocated(h)
  <2> DEFINE q == [p EXCEPT !.pc = "done"]
  <2>1. p.pc = "locating" /\ Shows(h, "error") /\ press' = [press EXCEPT ![h] = q] /\ UNCHANGED filed
    BY Zenon, <1>2 DEF notLocated, At, Goes, Alone, reportsServer
  <2>2. "done" \in Steps BY Zenon DEF Steps
  <2>3. Kept(q) /\ q.pc = "done" /\ q.req = p.req BY Zenon, <1>t, <2>2 DEF Presses
  <2>4. p.req = "none" /\ p.pc # "done" BY Zenon, <1>t, <2>1 DEF Coherent
  <2> HIDE DEF q
  <2> QED BY Zenon, <2>1, <2>3, <2>4, <1>e
<1>3. ASSUME NEW from, NEW photo \in Photo, NEW to \in Steps, PhotoBecomes(h, from, photo, to),
             from \notin {"posting", "done"}, to \notin {"posting", "done"}
      PROVE  FormInv'
  <2> DEFINE q == [p EXCEPT !.photo = photo, !.pc = to]
  <2>1. p.pc = from /\ press' = [press EXCEPT ![h] = q] /\ UNCHANGED <<filed, form>>
    BY Zenon, <1>3 DEF PhotoBecomes, At, Alone, reportsServer
  <2>2. Kept(q) /\ q.pc = to /\ q.req = p.req /\ q.lost = p.lost BY Zenon, <1>t DEF Presses
  <2> HIDE DEF q
  <2> QED BY Zenon, <2>1, <2>2, <1>3, <1>a
<1>4. CASE compressAndStrip(h) \/ drawImage(h) \/ blurFaces(h) \/ toBlob(h)
  <2>1. /\ "stripped" \in Photo /\ "drawn" \in Photo /\ "blurred" \in Photo
        /\ \A x \in {"draw", "blur", "encode", "upload"} : x \in Steps /\ x \notin {"posting", "done"}
        /\ \A x \in {"compress", "draw", "blur", "encode"} : x \notin {"posting", "done"}
    BY Zenon DEF Photo, Steps
  <2>2. p.photo \in Photo BY Zenon, <1>t DEF Presses
  <2>3. CASE compressAndStrip(h) BY Zenon, <2>1, <2>3, <1>3 DEF compressAndStrip
  <2>4. CASE drawImage(h) BY Zenon, <2>1, <2>4, <1>3 DEF drawImage
  <2>5. CASE blurFaces(h) BY Zenon, <2>1, <2>5, <1>3 DEF blurFaces
  <2>6. CASE toBlob(h) BY Zenon, <2>1, <2>2, <2>6, <1>3 DEF toBlob
  <2> QED BY Zenon, <1>4, <2>3, <2>4, <2>5, <2>6
<1>5. CASE uploadToIPFS(h)
  <2>1. PICK cid \in {"none", p.photo} : press' = [press EXCEPT ![h].pc = "sign", ![h].cid = cid]
    BY Zenon, <1>5 DEF uploadToIPFS
  <2> DEFINE q == [p EXCEPT !.pc = "sign", !.cid = cid]
  <2>2. p.pc = "upload" /\ press' = [press EXCEPT ![h] = q] /\ UNCHANGED <<filed, form>>
    BY Zenon, <1>5, <2>1 DEF uploadToIPFS, At, Alone, reportsServer
  <2>3. "sign" \in Steps /\ "none" \in Photo BY Zenon DEF Steps, Photo
  <2>5. cid \in Photo BY Zenon, <2>3, <1>t DEF Presses
  <2>4. Kept(q) /\ q.pc = "sign" /\ q.req = p.req /\ q.lost = p.lost BY Zenon, <1>t, <2>3, <2>5 DEF Presses
  <2> HIDE DEF q
  <2> QED BY Zenon, <2>2, <2>4, <1>a
<1>6. CASE photoFails(h)
  <2> DEFINE q == [p EXCEPT !.pc = "sign"]
  <2>1. /\ p.pc \in {"compress", "draw", "blur", "encode", "upload"} /\ press' = [press EXCEPT ![h] = q]
        /\ UNCHANGED <<filed, form>>
    BY Zenon, <1>6 DEF photoFails, Goes, Alone, reportsServer
  <2>2. "sign" \in Steps BY Zenon DEF Steps
  <2>3. Kept(q) /\ q.pc = "sign" /\ q.req = p.req /\ q.lost = p.lost BY Zenon, <1>t, <2>2 DEF Presses
  <2>4. p.pc \notin {"posting", "done"} BY Zenon, <2>1
  <2> HIDE DEF q
  <2> QED BY Zenon, <2>1, <2>3, <2>4, <1>a
<1>7. CASE signBoundEvent(h)
  <2> DEFINE q == [p EXCEPT !.pc = "posting", !.req = "sent"]
  <2>1. p.pc = "sign" /\ press' = [press EXCEPT ![h] = q] /\ UNCHANGED <<filed, form>>
    BY Zenon, <1>7 DEF signBoundEvent, At, Alone, reportsServer
  <2>2. "posting" \in Steps BY Zenon DEF Steps
  <2>3. Kept(q) /\ q.pc = "posting" /\ q.req = "sent" /\ q.lost = p.lost BY Zenon, <1>t, <2>2 DEF Presses
  <2> HIDE DEF q
  <2>4. ~p.lost /\ Tallies(p) /\ p.req = "none" BY Zenon, <1>t, <2>1 DEF Coherent, Tallies
  <2>5. Coherent(q) BY Zenon, <2>3, <2>4 DEF Coherent
  <2> QED BY Zenon, <1>t, <2>1, <2>3, <2>4, <2>5, RunMoves
<1>8. CASE answered(h)
  <2> DEFINE q == [p EXCEPT !.pc = "done"]
  <2>1. /\ p.pc = "posting" /\ p.req = "stored" /\ press' = [press EXCEPT ![h] = q]
        /\ UNCHANGED filed /\ form' = Closed
    BY Zenon, <1>8 DEF answered, At, Goes, reportsServer
  <2>2. "done" \in Steps BY Zenon DEF Steps
  <2>3. Kept(q) /\ q.pc = "done" /\ q.req = "stored" /\ q.lost = p.lost BY Zenon, <1>t, <2>1, <2>2 DEF Presses
  <2> HIDE DEF q
  <2>4. ~p.lost /\ Tallies(p) BY Zenon, <1>t, <2>1 DEF Coherent, Tallies
  <2>5. Coherent(q) BY Zenon, <2>3, <2>4 DEF Coherent
  <2>6. /\ form' \in Forms /\ form'.inst = form.inst /\ (form'.open => form.open)
        /\ form'.submitState = form.submitState
    BY Zenon, <1>t, <2>1 DEF Closed, Forms
  <2> QED BY Zenon, <2>1, <2>3, <2>4, <2>5, <2>6, RunMoves
<1>9. CASE statusError(h)
  <2> DEFINE q == [p EXCEPT !.pc = "done"]
  <2>1. /\ p.pc = "posting" /\ p.req = "refused" /\ Shows(h, "error") /\ press' = [press EXCEPT ![h] = q]
        /\ UNCHANGED filed
    BY Zenon, <1>9 DEF statusError, At, Goes, Alone, reportsServer
  <2>2. "done" \in Steps BY Zenon DEF Steps
  <2>3. Kept(q) /\ q.pc = "done" /\ q.req = p.req BY Zenon, <1>t, <2>2 DEF Presses
  <2>4. p.req \notin {"sent", "stored"} /\ p.pc # "done" BY Zenon, <2>1
  <2> HIDE DEF q
  <2> QED BY Zenon, <2>1, <2>3, <2>4, <1>e
<1>10. CASE submitFails(h)
  <2> DEFINE b == (p.pc = "posting")
             q == [p EXCEPT !.pc = "done", !.lost = b]
  <2>1. p.pc \in {"sign", "posting"} /\ Shows(h, "error") /\ press' = [press EXCEPT ![h] = q] /\ UNCHANGED filed
    BY Zenon, <1>10 DEF submitFails, Alone, reportsServer
  <2>2. "done" \in Steps BY Zenon DEF Steps
  <2>3. Kept(q) /\ q.pc = "done" /\ q.req = p.req /\ q.lost = b BY Zenon, <1>t, <2>2 DEF Presses
  <2>4. b \/ p.req \notin {"sent", "stored"} BY Zenon, <1>t, <2>1 DEF Coherent
  <2>5. p.pc # "done" BY Zenon, <2>1
  <2> HIDE DEF q, b
  <2> QED BY Zenon, <2>1, <2>3, <2>4, <2>5, <1>e
<1>11. CASE refused(h)
  <2> DEFINE q == [p EXCEPT !.req = "refused"]
  <2>1. p.req = "sent" /\ press' = [press EXCEPT ![h] = q] /\ UNCHANGED <<filed, form>>
    BY Zenon, <1>11 DEF refused, reportsServer
  <2>2. Kept(q) /\ q.pc = p.pc /\ q.req = "refused" /\ q.lost = p.lost BY Zenon, <1>t DEF Presses
  <2> HIDE DEF q
  <2>3. Coherent(q) /\ (Tallies(q) => Tallies(p)) BY Zenon, <2>1, <2>2, <1>t DEF Coherent, Tallies
  <2>4. p.req # "stored" BY Zenon, <2>1
  <2> QED BY Zenon, <1>t, <2>1, <2>2, <2>3, <2>4, RunMoves
<1>12. CASE create_report(h)
  <2>1. PICK r \in FreeId : Files(r, h) /\ press' = [press EXCEPT ![h].req = "stored", ![h].answer = r]
    BY Zenon, <1>12 DEF create_report
  <2> DEFINE q == [p EXCEPT !.req = "stored", !.answer = r]
  <2>2. /\ p.req = "sent" /\ press' = [press EXCEPT ![h] = q] /\ form' = form
        /\ filed' = [filed EXCEPT ![r] = h]
    BY Zenon, <1>12, <2>1 DEF create_report, Files
  <2>3. r \in Id BY Zenon DEF FreeId
  <2>4. q \in Presses /\ q.inst = p.inst /\ q.answer = r /\ q.pc = p.pc /\ q.req = "stored" /\ q.lost = p.lost
    BY Zenon, <1>t, <2>3 DEF Presses
  <2> HIDE DEF q
  <2>5. Coherent(q) /\ (Tallies(q) => Tallies(p)) BY Zenon, <2>2, <2>4, <1>t DEF Coherent, Tallies
  <2>6. press' \in Seq(Presses) /\ PressInv'
    BY Zenon, <1>t, <2>2, <2>4, <2>5, PressMoves DEF FormInv
  <2>7. DOMAIN press' = DOMAIN press /\ press'[h] = q /\ \A j \in DOMAIN press : j # h => press'[j] = press[j]
    BY Zenon, <1>t, <2>2, <2>4, SeqPut
  <2>8. h \in Nat BY Zenon, <1>t, SeqMember
  <2>9. filed' \in [Id -> Nat] BY Zenon, <2>2, <2>8, <1>t DEF FormTypes
  <2>10. ASSUME NEW x \in Id, filed'[x] # 0
         PROVE  filed'[x] \in DOMAIN press' /\ press'[filed'[x]].req = "stored" /\ press'[filed'[x]].answer = x
    <3>1. CASE x = r
      <4>1. filed'[x] = h BY Zenon, <3>1, <2>2, <2>3, <1>t DEF FormTypes
      <4> QED BY Zenon, <4>1, <3>1, <2>4, <2>7
    <3>2. CASE x # r
      <4>1. filed'[x] = filed[x] BY Zenon, <3>2, <2>2, <1>t DEF FormTypes
      <4>2. filed[x] \in DOMAIN press /\ press[filed[x]].req = "stored" /\ press[filed[x]].answer = x
        BY Zenon, <4>1, <2>10 DEF FormInv, FiledInv
      <4>3. filed[x] # h BY Zenon, <4>2, <2>2
      <4> QED BY Zenon, <4>1, <4>2, <4>3, <2>7
    <3> QED BY Zenon, <3>1, <3>2
  <2> QED BY Zenon, <2>2, <2>6, <2>9, <2>10, <1>t DEF FormInv, FormTypes, FiledInv
<1> QED BY Zenon, <1>1, <1>2, <1>4, <1>5, <1>6, <1>7, <1>8, <1>9, <1>10, <1>11, <1>12 DEF Submission

\* The steps of the form: opened, closed, submitted.
LEMMA FormKeeps ==
  ASSUME FormInv, setMobileFormOpen \/ onClose \/ \E photo \in {"none", "raw"} : handleSubmit(photo)
  PROVE  FormInv'
<1>t. form \in Forms /\ form.inst \in Nat /\ press \in Seq(Presses) /\ filed \in [Id -> Nat]
      /\ \A h \in DOMAIN press : press[h] \in Presses /\ press[h].inst \in Nat /\ press[h].inst <= form.inst
  <2>1. form \in Forms /\ press \in Seq(Presses) /\ filed \in [Id -> Nat] BY Zenon DEF FormInv, FormTypes
  <2>2. \A h \in DOMAIN press : press[h] \in Presses BY Zenon, <2>1, SeqMember
  <2> QED BY Zenon, <2>1, <2>2 DEF Forms, Presses, FormInv, PressInv
<1>1. CASE setMobileFormOpen
  <2>1. UNCHANGED <<press, filed>> /\ form' = [form EXCEPT !.open = TRUE, !.inst = @ + 1, !.submitState = "idle"]
    BY Zenon, <1>1 DEF setMobileFormOpen, reportsServer
  <2>2. form.inst + 1 \in Nat /\ \A h \in DOMAIN press : press[h].inst <= form.inst + 1 /\ press[h].inst # form.inst + 1
    BY SMT, <1>t
  <2>3. form' \in Forms /\ form'.inst = form.inst + 1 BY Zenon, <2>1, <2>2, <1>t DEF Forms
  <2> QED BY Zenon, <2>1, <2>2, <2>3, <1>t DEF FormInv, FormTypes, PressInv, FiledInv
<1>2. CASE onClose
  <2>1. UNCHANGED <<press, filed>> /\ form' = [form EXCEPT !.open = FALSE]
    BY Zenon, <1>2 DEF onClose, Closed, reportsServer
  <2>2. form' \in Forms /\ form'.inst = form.inst /\ ~form'.open BY Zenon, <2>1, <1>t DEF Forms
  <2> QED BY Zenon, <2>1, <2>2, <1>t DEF FormInv, FormTypes, PressInv, FiledInv
<1>3. ASSUME NEW photo \in {"none", "raw"}, handleSubmit(photo) PROVE FormInv'
  <2> DEFINE q == [inst |-> form.inst, pc |-> "locating", photo |-> photo, cid |-> "none",
                   req |-> "none", answer |-> 0, lost |-> FALSE]
             n == Len(press) + 1
  <2>1. /\ form.open /\ form.submitState \notin Busy /\ UNCHANGED filed /\ press' = Append(press, q)
        /\ form' = [form EXCEPT !.submitState = "locating"]
    BY Zenon, <1>3 DEF handleSubmit, submitEnabled, Busy, Alone, reportsServer
  <2>2. {"none", "raw"} \subseteq Photo /\ "locating" \in Steps BY Zenon DEF Photo, Steps
  <2>3. q \in Presses /\ q.inst = form.inst /\ Coherent(q) BY Zenon, <2>2, <1>t DEF Presses, Coherent
  <2>4. /\ form' \in Forms /\ form'.inst = form.inst /\ form'.open = form.open
        /\ form'.submitState \in Busy
    BY Zenon, <2>1, <1>t DEF Forms, Busy
  <2> HIDE DEF q
  <2>5. /\ press' \in Seq(Presses) /\ DOMAIN press' = DOMAIN press \cup {n} /\ n \notin DOMAIN press
        /\ press'[n] = q /\ \A j \in DOMAIN press : press'[j] = press[j]
    BY <2>1, <2>3, <1>t, SeqAdd
  <2> HIDE DEF n
  <2>6. \A h \in DOMAIN press : Tallies(press[h]) => press[h].inst # form.inst
    BY Zenon, <2>1 DEF FormInv, PressInv
  <2>7. form.inst <= form.inst BY SMT, <1>t
  <2>8. \A h \in DOMAIN press' : Coherent(press'[h]) /\ press'[h].inst <= form'.inst
    BY Zenon, <2>3, <2>4, <2>5, <2>7 DEF FormInv, PressInv
  <2>9. ASSUME NEW h \in DOMAIN press', NEW g \in DOMAIN press', Tallies(press'[h]), Tallies(press'[g]),
               press'[h].inst = press'[g].inst
        PROVE  h = g
    <3>1. CASE h = n \/ g = n BY Zenon, <3>1, <2>3, <2>5, <2>6, <2>9
    <3>2. CASE h # n /\ g # n
      <4>1. h \in DOMAIN press /\ g \in DOMAIN press BY Zenon, <3>2, <2>5
      <4> QED BY Zenon, <4>1, <2>5, <2>9 DEF FormInv, PressInv
    <3> QED BY Zenon, <3>1, <3>2
  <2>10. PressInv' BY Zenon, <2>4, <2>8, <2>9 DEF PressInv
  <2>11. FiledInv'
    <3> SUFFICES ASSUME NEW r \in Id, filed[r] # 0
                 PROVE  filed[r] \in DOMAIN press' /\ press'[filed[r]].req = "stored" /\ press'[filed[r]].answer = r
      BY Zenon, <2>1 DEF FiledInv
    <3>1. filed[r] \in DOMAIN press /\ press[filed[r]].req = "stored" /\ press[filed[r]].answer = r
      BY Zenon DEF FormInv, FiledInv
    <3> QED BY Zenon, <3>1, <2>5
  <2> QED BY Zenon, <2>1, <2>4, <2>5, <2>10, <2>11, <1>t DEF FormInv, FormTypes
<1> QED BY Zenon, <1>1, <1>2, <1>3

\* Somebody else's report.
LEMMA OthersFile == ASSUME FormInv, othersFile PROVE FormInv'
<1>1. PICK r \in FreeId : Files(r, 0) BY Zenon DEF othersFile
<1>2. UNCHANGED <<form, press>> /\ filed' = [filed EXCEPT ![r] = 0] BY Zenon, <1>1 DEF othersFile, Files
<1>3. 0 \in Nat BY Zenon 
<1>4. filed' \in [Id -> Nat] /\ \A x \in Id : filed'[x] # 0 => filed'[x] = filed[x]
  BY Zenon, <1>2, <1>3 DEF FormInv, FormTypes
<1>5. FiledInv' BY Zenon, <1>2, <1>4 DEF FormInv, FiledInv
<1> QED BY Zenon, <1>2, <1>4, <1>5 DEF FormInv, FormTypes, PressInv

\* The runs of a form that filed a report are one that counts and those lost.
LEMMA FiledOnce ==
  ASSUME FormInv, NEW i,
         NEW mine, mine = {r \in Id : filed[r] # 0 /\ press[filed[r]].inst = i},
         NEW lost, lost = {h \in DOMAIN press : press[h].inst = i /\ press[h].lost}
  PROVE  Cardinality(mine) <= 1 + Cardinality(lost)
<1> DEFINE one == {h \in DOMAIN press : press[h].inst = i /\ Tallies(press[h])}
           f == [r \in mine |-> filed[r]]
<1>1. IsFiniteSet(lost) /\ Cardinality(lost) \in Nat
  <2>1. press \in Seq(Presses) BY Zenon DEF FormInv, FormTypes
  <2>2. DOMAIN press = 1..Len(press) /\ Len(press) \in Nat BY <2>1
  <2>3. IsFiniteSet(DOMAIN press) BY SMT, <2>2, FS_Interval
  <2>4. lost \subseteq DOMAIN press BY Zenon
  <2> HIDE DEF one, f
  <2> QED BY Zenon, <2>3, <2>4, FS_Subset, FS_CardinalityType
<1>2. \A h, g \in one : h = g BY Zenon DEF FormInv, PressInv
<1>3. \A r \in mine : filed[r] \in lost \cup one
  <2> SUFFICES ASSUME NEW r \in mine PROVE filed[r] \in lost \cup one BY Zenon
  <2>1. r \in Id /\ filed[r] # 0 /\ press[filed[r]].inst = i BY Zenon
  <2>2. filed[r] \in DOMAIN press /\ press[filed[r]].req = "stored" BY Zenon, <2>1 DEF FormInv, FiledInv
  <2> QED BY Zenon, <2>1, <2>2 DEF Tallies
<1>4. f \in Injection(mine, lost \cup one)
  <2>1. f \in [mine -> lost \cup one] BY Zenon, <1>3
  <2>2. \A r, x \in mine : f[r] = f[x] => r = x
    <3> SUFFICES ASSUME NEW r \in mine, NEW x \in mine, filed[r] = filed[x] PROVE r = x BY Zenon 
    <3>1. r \in Id /\ filed[r] # 0 /\ x \in Id /\ filed[x] # 0 BY Zenon
    <3>2. press[filed[r]].answer = r /\ press[filed[x]].answer = x BY Zenon, <3>1 DEF FormInv, FiledInv
    <3> QED BY Zenon, <3>2
  <2> HIDE DEF f, one
  <2> QED BY Zenon, <2>1, <2>2 DEF Injection, IsInjective
<1> HIDE DEF f, one
<1>5. IsFiniteSet(lost \cup one) /\ Cardinality(lost \cup one) <= 1 + Cardinality(lost)
  <2>1. CASE one = {}
    <3>1. lost \cup one = lost BY Zenon, <2>1
    <3>2. Cardinality(lost) <= 1 + Cardinality(lost) BY SMT, <1>1
    <3> QED BY Zenon, <3>1, <3>2, <1>1
  <2>2. CASE one # {}
    <3>1. PICK h \in one : TRUE BY Zenon, <2>2
    <3>2. one = {h} BY Zenon, <3>1, <1>2
    <3> QED BY SMT, <3>2, <1>1, FS_AddElement
  <2> QED BY Zenon, <2>1, <2>2
<1>6. Cardinality(mine) <= Cardinality(lost \cup one) /\ IsFiniteSet(mine)
  BY Zenon, <1>4, <1>5, FS_Injection
<1>7. Cardinality(mine) \in Nat /\ Cardinality(lost \cup one) \in Nat BY Zenon, <1>5, <1>6, FS_CardinalityType
<1> QED BY SMT, <1>1, <1>5, <1>6, <1>7

\* FormInv is an invariant of the form.
LEMMA FormInvariant == FormSpec => []FormInv
<1>1. FormInit => FormInv
  <2> SUFFICES ASSUME FormInit PROVE FormInv BY Zenon
  <2>1. press \in Seq(Presses) /\ DOMAIN press = {} BY DEF FormInit
  <2>2. 0 \in Nat /\ 1 \in Nat BY Zenon 
  <2>5. PICK d \in BOOLEAN :
          form = [desktop |-> d, open |-> d, inst |-> IF d THEN 1 ELSE 0, submitState |-> "idle"]
    BY Zenon DEF FormInit
  <2>6. (IF d THEN 1 ELSE 0) \in Nat BY Zenon 
  <2>3. form \in Forms BY Zenon, <2>5, <2>6 DEF Forms
  <2>4. filed \in [Id -> Nat] /\ \A r \in Id : filed[r] = 0 BY Zenon, <2>2 DEF FormInit
  <2> QED BY Zenon, <2>1, <2>3, <2>4 DEF FormInv, FormTypes, PressInv, FiledInv
<1>2. FormInv /\ [FormNext]_formVars => FormInv'
  <2> SUFFICES ASSUME FormInv, [FormNext]_formVars PROVE FormInv' BY Zenon
  <2>1. ASSUME UNCHANGED <<form, press, filed>> PROVE FormInv'
    BY Zenon, <2>1 DEF FormInv, FormTypes, PressInv, FiledInv
  <2>2. CASE UNCHANGED formVars
    BY Zenon, <2>1, <2>2 DEF formVars, reportsServer
  <2>3. CASE Feeds \/ list_reports
    BY Zenon, <2>1, <2>3 DEF Feeds, list_reports, fetchInitialReports, reportsHydrationFailed, reportsOnopen,
       reportsOnclose, reportsConnect, reportsOnmessage, reportsServer
  <2>4. ASSUME NEW r, othersVote(r) \/ castVote(r) PROVE FormInv'
    BY Zenon, <2>1, <2>4 DEF othersVote, castVote, Raises, reportsServer
  <2>5. ASSUME NEW v, Voting(v) PROVE FormInv'
    BY Zenon, <2>1, <2>5 DEF Voting, voteSigned, votePosted, cast_vote, voteAnswered, voteFails, AdvanceVote, Raises,
       reportsServer
  <2> QED BY Zenon, <2>2, <2>3, <2>4, <2>5, OthersFile, FormKeeps, RunKeeps DEF FormNext
<1> QED BY <1>1, <1>2, PTL DEF FormSpec

\* A form that is filled in once files one report, unless the page gave up on
\* the request of the first (ReportSubmit's handleSubmit and create_report).
THEOREM FormsFileOnce == FormSpec => []DuplicateMeansLostAnswer
<1>1. FormInv => DuplicateMeansLostAnswer
  <2> SUFFICES ASSUME FormInv, NEW i
               PROVE  Cardinality({r \in Id : filed[r] # 0 /\ press[filed[r]].inst = i})
                        <= 1 + Cardinality({h \in DOMAIN press : press[h].inst = i /\ press[h].lost})
    BY Zenon DEF DuplicateMeansLostAnswer
  <2> DEFINE mine == {r \in Id : filed[r] # 0 /\ press[filed[r]].inst = i}
             lost == {h \in DOMAIN press : press[h].inst = i /\ press[h].lost}
  <2>1. mine = {r \in Id : filed[r] # 0 /\ press[filed[r]].inst = i}
        /\ lost = {h \in DOMAIN press : press[h].inst = i /\ press[h].lost}
    BY Zenon
  <2>2. SUFFICES Cardinality(mine) <= 1 + Cardinality(lost) BY Zenon
  <2> HIDE DEF mine, lost
  <2> QED BY Zenon, <2>1, FiledOnce
<1> QED BY <1>1, FormInvariant, PTL

-----------------------------------------------------------------------------
(* FieldReports: the store *)

Entry == [id : Id \cup {0}, ver : Nat]
IdsOf(list) == {list[i].id : i \in DOMAIN list}
Distinct(list) == \A i, j \in DOMAIN list : list[i].id = list[j].id => i = j
Store == {list \in Seq(Entry) : Len(list) <= Cap /\ Distinct(list)}
NotBack(old, new) == \A i \in DOMAIN old, j \in DOMAIN new : old[i].id = new[j].id => old[i].ver <= new[j].ver

Feed == [ws : {"connecting", "open", "down"}, connected : BOOLEAN, breaks : Nat,
         first : {"asked", "answered", "done", "failed"}, list : Seq(Entry)]
Cast == [pc : {"sign", "locate", "posting", "answered", "done"}, id : Id, ver : Nat]

\* The list holds no report twice and fits the cap.
StoreInv ==
  /\ rows \in [Id -> Nat] /\ wire \subseteq Entry /\ feed \in Feed /\ casts \in Seq(Cast)
  /\ items \in Store

\* The two outcomes of upsert.
Topped(list, r, n) == SubSeq(<<r>> \o list, 1, n)
IsTopped(u, list, r) ==
  \A j \in DOMAIN u : (j = 1 /\ u[j] = r) \/ (j - 1 \in DOMAIN list /\ u[j] = list[j - 1])
Placed(list, r) ==
  [i \in DOMAIN list |-> IF i \in {k \in DOMAIN list : list[k].id = r.id} /\ ~(r.ver < list[i].ver) THEN r ELSE list[i]]

\* A new report goes on top ...
LEMMA OnTop ==
  ASSUME NEW list \in Store, NEW r \in Entry, r.id \notin IdsOf(list), NEW n \in Nat, n <= Len(list) + 1, n <= Cap
  PROVE  Topped(list, r, n) \in Store /\ Len(Topped(list, r, n)) = n /\ IsTopped(Topped(list, r, n), list, r)
<1> DEFINE u == Topped(list, r, n)
<1>1. list \in Seq(Entry) /\ Distinct(list) BY Zenon DEF Store
<1> DEFINE w == <<r>> \o list
<1>2. w \in Seq(Entry) /\ Len(w) = Len(list) + 1 /\ w[1] = r
      /\ \A j \in 2..(Len(list) + 1) : w[j] = list[j - 1]
  BY SMT, <1>1
<1> HIDE DEF w
<1>3. u = SubSeq(w, 1, n) BY Zenon DEF w, Topped
<1> HIDE DEF u
<1>4. u \in Seq(Entry) /\ Len(u) = n /\ \A j \in 1..n : u[j] = w[j]
  BY SMT, <1>2, <1>3
<1>5. \A j \in DOMAIN u : (j = 1 /\ u[j] = r) \/ (j - 1 \in DOMAIN list /\ u[j] = list[j - 1])
  BY SMT, <1>1, <1>2, <1>4
<1>6. Distinct(u)
  <2> SUFFICES ASSUME NEW i \in DOMAIN u, NEW j \in DOMAIN u, u[i].id = u[j].id PROVE i = j BY Zenon DEF Distinct
  <2>1. i \in Nat /\ j \in Nat BY SMT, <1>4
  <2>2. CASE i = 1 /\ j = 1 BY Zenon, <2>2
  <2>3. CASE i = 1 /\ j # 1
    <3>1. u[i] = r \/ i - 1 \in DOMAIN list BY Zenon, <1>5
    <3>2. i - 1 \notin DOMAIN list BY SMT, <2>3, <1>1
    <3>3. j - 1 \in DOMAIN list /\ u[j] = list[j - 1] BY Zenon, <1>5, <2>3
    <3> QED BY Zenon, <3>1, <3>2, <3>3 DEF IdsOf
  <2>4. CASE i # 1 /\ j = 1
    <3>1. u[j] = r \/ j - 1 \in DOMAIN list BY Zenon, <1>5
    <3>2. j - 1 \notin DOMAIN list BY SMT, <2>4, <1>1
    <3>3. i - 1 \in DOMAIN list /\ u[i] = list[i - 1] BY Zenon, <1>5, <2>4
    <3> QED BY Zenon, <3>1, <3>2, <3>3 DEF IdsOf
  <2>5. CASE i # 1 /\ j # 1
    <3>1. i - 1 \in DOMAIN list /\ u[i] = list[i - 1] /\ j - 1 \in DOMAIN list /\ u[j] = list[j - 1]
      BY Zenon, <1>5, <2>5
    <3>2. i - 1 = j - 1 BY Zenon, <3>1, <1>1 DEF Distinct
    <3> QED BY SMT, <3>2, <2>1
  <2> QED BY Zenon, <2>2, <2>3, <2>4, <2>5
<1>7. Len(u) <= Cap BY Zenon, <1>4
<1>8. IsTopped(u, list, r) BY Zenon, <1>5 DEF IsTopped
<1> QED BY Zenon, <1>4, <1>6, <1>7, <1>8 DEF Store, u

\* ... one that has the report already keeps the younger version.
LEMMA InPlace ==
  ASSUME NEW list \in Store, NEW r \in Entry
  PROVE  Placed(list, r) \in Store /\ NotBack(list, Placed(list, r)) /\ IdsOf(Placed(list, r)) = IdsOf(list)
<1> DEFINE at == {k \in DOMAIN list : list[k].id = r.id}
           u == [i \in DOMAIN list |-> IF i \in at /\ ~(r.ver < list[i].ver) THEN r ELSE list[i]]
<1>0. u = Placed(list, r) BY Zenon DEF Placed
<1>1. list \in Seq(Entry) /\ Distinct(list) /\ Len(list) <= Cap BY Zenon DEF Store
<1>2. u \in Seq(Entry) /\ DOMAIN u = DOMAIN list /\ Len(u) = Len(list)
  <2>1. Len(list) \in Nat /\ DOMAIN list = 1..Len(list) /\ \A i \in DOMAIN list : list[i] \in Entry BY SMT, <1>1
  <2>2. u \in [1..Len(list) -> Entry] BY Zenon, <2>1
  <2> QED BY SMT, <2>1, <2>2
<1>3. \A i \in DOMAIN list : u[i].id = list[i].id BY Zenon 
<1>4. \A i \in DOMAIN list : list[i].ver <= u[i].ver
  <2> SUFFICES ASSUME NEW i \in DOMAIN list PROVE list[i].ver <= u[i].ver BY Zenon
  <2>1. list[i] \in Entry BY SMT, <1>1
  <2>2. list[i].ver \in Nat /\ r.ver \in Nat BY Zenon, <2>1 DEF Entry
  <2>3. u[i] = list[i] \/ (u[i] = r /\ ~(r.ver < list[i].ver)) BY Zenon 
  <2>4. CASE u[i] = list[i] BY SMT, <2>2, <2>4
  <2>5. CASE u[i] = r /\ ~(r.ver < list[i].ver) BY SMT, <2>2, <2>5
  <2> QED BY Zenon, <2>3, <2>4, <2>5
<1> HIDE DEF u
<1>5. Distinct(u)
  <2> SUFFICES ASSUME NEW i \in DOMAIN list, NEW j \in DOMAIN list, u[i].id = u[j].id PROVE i = j
    BY Zenon, <1>2 DEF Distinct
  <2>1. list[i].id = list[j].id BY Zenon, <1>3
  <2> QED BY Zenon, <2>1, <1>1 DEF Distinct
<1>6. NotBack(list, u) BY Zenon, <1>1, <1>2, <1>3, <1>4 DEF NotBack, Distinct
<1>7. IdsOf(u) = IdsOf(list) BY Zenon, <1>2, <1>3 DEF IdsOf
<1>8. Len(u) <= Cap BY Zenon, <1>1, <1>2
<1> QED BY Zenon, <1>0, <1>2, <1>5, <1>6, <1>7, <1>8 DEF Store

\* The ids of a full list, and another one, do not fit the cap.
LEMMA FullList ==
  ASSUME NEW list \in Store, NEW x, x \notin IdsOf(list), NEW U, IsFiniteSet(U), Cardinality(U) <= Cap,
         IdsOf(list) \subseteq U, x \in U
  PROVE  Len(list) < Cap
<1>1. list \in Seq(Entry) /\ Distinct(list) BY Zenon DEF Store
<1> DEFINE L == Len(list)
           g == [i \in 1..(L + 1) |-> IF i = L + 1 THEN x ELSE list[i].id]
<1>2. L \in Nat /\ DOMAIN list = 1..L /\ \A i \in 1..(L + 1) : i = L + 1 \/ i \in DOMAIN list BY SMT, <1>1
<1>3. g \in [1..(L + 1) -> U] BY Zenon, <1>2 DEF IdsOf
<1>4. \A i, j \in 1..(L + 1) : g[i] = g[j] => i = j BY Zenon, <1>1, <1>2 DEF IdsOf, Distinct
<1> HIDE DEF g
<1>5. g \in Injection(1..(L + 1), U) BY Zenon, <1>3, <1>4 DEF Injection, IsInjective
<1>6. Cardinality(1..(L + 1)) <= Cardinality(U) BY Zenon, <1>5, FS_Injection
<1>7. Cardinality(1..(L + 1)) = L + 1
  <2>1. L + 1 \in Int /\ 1 \in Int /\ ~(1 > L + 1) /\ (L + 1) - 1 + 1 = L + 1 BY SMT, <1>2
  <2> HIDE DEF L
  <2> QED BY Zenon, <2>1, FS_Interval
<1>8. Cardinality(U) \in Nat BY Zenon, FS_CardinalityType
<1> HIDE DEF L
<1>9. L < Cap BY SMT, <1>2, <1>6, <1>7, <1>8, FormAssumption
<1> QED BY Zenon, <1>9 DEF L

\* What upsert does to a list.
LEMMA UpsertFact ==
  ASSUME NEW list \in Store, NEW r \in Entry
  PROVE  LET u == upsertReport(list, r)
         IN  /\ u \in Store /\ NotBack(list, u) /\ IdsOf(u) \subseteq IdsOf(list) \cup {r.id}
             /\ \A U : IsFiniteSet(U) /\ Cardinality(U) <= Cap /\ IdsOf(list) \cup {r.id} \subseteq U
                         => IdsOf(list) \subseteq IdsOf(u)
<1> DEFINE at == {i \in DOMAIN list : list[i].id = r.id}
           n == IF Len(list) < Cap THEN Len(list) + 1 ELSE Cap
           u == upsertReport(list, r)
<1>1. list \in Seq(Entry) /\ Distinct(list) /\ Len(list) <= Cap BY Zenon DEF Store
<1>2. CASE at = {}
  <2>1. u = Topped(list, r, n) BY Zenon, <1>2 DEF upsertReport, Topped
  <2>2. n \in Nat /\ n <= Len(list) + 1 /\ n <= Cap /\ (Len(list) < Cap => n = Len(list) + 1)
    BY SMT, <1>1, FormAssumption
  <2>3. r.id \notin IdsOf(list) BY Zenon, <1>2 DEF IdsOf
  <2> HIDE DEF u, n, at
  <2>0. u \in Store /\ Len(u) = n /\ IsTopped(u, list, r) BY Zenon, <2>1, <2>2, <2>3, OnTop
  <2>4. /\ u \in Store /\ Len(u) = n
        /\ \A j \in DOMAIN u : (j = 1 /\ u[j] = r) \/ (j - 1 \in DOMAIN list /\ u[j] = list[j - 1])
    BY Zenon, <2>0 DEF IsTopped
  <2>5. NotBack(list, u)
    <3> SUFFICES ASSUME NEW i \in DOMAIN list, NEW j \in DOMAIN u, list[i].id = u[j].id
                 PROVE  list[i].ver <= u[j].ver
      BY Zenon DEF NotBack
    <3>1. u[j] # r BY Zenon, <2>3 DEF IdsOf
    <3>2. j - 1 \in DOMAIN list /\ u[j] = list[j - 1] BY Zenon, <3>1, <2>4
    <3>3. i = j - 1 BY Zenon, <3>2, <1>1 DEF Distinct
    <3>4. list[i] \in Entry BY SMT, <1>1
    <3>5. list[i].ver \in Nat BY Zenon, <3>4 DEF Entry
    <3>6. list[i].ver <= list[i].ver BY SMT, <3>5
    <3> QED BY Zenon, <3>2, <3>3, <3>6
  <2>6. IdsOf(u) \subseteq IdsOf(list) \cup {r.id} BY Zenon, <2>4 DEF IdsOf
  <2>7. ASSUME NEW U, IsFiniteSet(U), Cardinality(U) <= Cap, IdsOf(list) \cup {r.id} \subseteq U
        PROVE  IdsOf(list) \subseteq IdsOf(u)
    <3>0. IdsOf(list) \subseteq U /\ r.id \in U BY Zenon, <2>7
    <3>1. Len(list) < Cap BY Zenon, <2>3, <2>7, <3>0, FullList
    <3>2. \A i \in DOMAIN list : i + 1 \in DOMAIN u /\ i + 1 # 1 /\ (i + 1) - 1 = i
      <4>1. u \in Seq(Entry) /\ Len(u) = Len(list) + 1 BY Zenon, <3>1, <2>2, <2>4 DEF Store
      <4> QED BY SMT, <4>1, <1>1
    <3>3. \A i \in DOMAIN list : u[i + 1] = list[i] BY Zenon, <3>2, <2>4
    <3>4. \A i \in DOMAIN list : \E j \in DOMAIN u : u[j] = list[i] BY Zenon, <3>2, <3>3
    <3> QED BY Zenon, <3>4 DEF IdsOf
  <2> QED BY Zenon, <2>4, <2>5, <2>6, <2>7 DEF u
<1>3. CASE at # {}
  <2>1. u = Placed(list, r) BY Zenon, <1>3 DEF upsertReport, Placed
  <2> HIDE DEF u
  <2>2. u \in Store /\ NotBack(list, u) /\ IdsOf(u) = IdsOf(list) BY Zenon, <2>1, InPlace
  <2> QED BY Zenon, <2>2 DEF u
<1> QED BY Zenon, <1>2, <1>3

\* What every upsert keeps, a hydration keeps.
LEMMA HydratedIn ==
  ASSUME NEW list \in Seq(Entry), NEW S, items \in S,
         \A s \in S : \A k \in DOMAIN list : upsertReport(s, list[k]) \in S,
         reportsHydrated(list)
  PROVE  items' \in S
<1> DEFINE N == Len(list)
           G == [k \in 1..N |-> [x \in S |-> upsertReport(x, list[k])]]
           Is(f) == f = [n \in 0..N |-> IF n = 0 THEN items ELSE upsertReport(f[n - 1], list[n])]
           after == CHOOSE f : Is(f)
<1>1. N \in Nat /\ N \in 0..N /\ 0 \in 0..N /\ DOMAIN list = 1..N
      /\ \A k \in 1..N : k - 1 \in 0..N /\ k \in 0..N /\ k # 0
  BY SMT
<1>2. G \in RunSteps(S, N) BY Zenon, <1>1 DEF RunSteps
<1>0. PICK f : IsRun(f, items, N, S, G)
  <2> HIDE DEF N, G
  <2> QED BY Zenon, <1>1, <1>2, RunExists
<1>3. f \in [0..N -> S] /\ f[0] = items /\ \A k \in 1..N : f[k] = G[k][f[k - 1]]
  BY Zenon, <1>0 DEF IsRun
<1>4. \A k \in 1..N : f[k] = upsertReport(f[k - 1], list[k])
  <2> SUFFICES ASSUME NEW k \in 1..N PROVE f[k] = upsertReport(f[k - 1], list[k]) BY Zenon
  <2>1. f[k - 1] \in S BY Zenon, <1>1, <1>3
  <2> QED BY Zenon, <2>1, <1>3
<1>5. Is(f)
  <2>1. \A n \in 0..N : n = 0 \/ n \in 1..N BY SMT, <1>1
  <2>2. \A n \in 0..N : f[n] = IF n = 0 THEN items ELSE upsertReport(f[n - 1], list[n])
    BY Zenon, <2>1, <1>3, <1>4
  <2> HIDE DEF N, G
  <2> QED BY Zenon, <2>2, <1>3
<1>6. Is(after) BY Zenon, <1>5
<1>7. after[0] = items /\ \A k \in 1..N : after[k] = upsertReport(after[k - 1], list[k])
  <2> HIDE DEF after, N
  <2> QED BY Zenon, <1>1, <1>6
<1>8. items' = after[N] BY Zenon DEF reportsHydrated
<1>9. FollowsRun(after, items, N, S, G)
  <2> HIDE DEF after, N
  <2> QED BY Zenon, <1>7 DEF FollowsRun
<1> HIDE DEF after, N, G
<1>10. \A m \in 0..N : f[m] = after[m] BY <1>0, <1>1, <1>2, <1>9, RunUnique
<1> QED BY Zenon, <1>1, <1>3, <1>8, <1>10

\* The three ways in which a step changes the store.
Stays == UNCHANGED items
Upserts == \E r \in Entry : items' = upsertReport(items, r)
Hydrates == feed.first = "answered" /\ feed'.first = "done" /\ reportsHydrated(feed.list)

\* The store keeps its shape.
LEMMA StoreKeeps == ASSUME StoreInv, Stays \/ Upserts \/ Hydrates PROVE items' \in Store
<1>1. items \in Store /\ feed.list \in Seq(Entry) BY Zenon DEF StoreInv, Feed
<1>2. CASE Stays BY Zenon, <1>1, <1>2 DEF Stays
<1>3. CASE Upserts BY Zenon, <1>1, <1>3, UpsertFact DEF Upserts
<1>4. CASE Hydrates
  <2>1. \A k \in DOMAIN feed.list : feed.list[k] \in Entry BY SMT, <1>1
  <2>2. \A s \in Store : \A k \in DOMAIN feed.list : upsertReport(s, feed.list[k]) \in Store
    BY Zenon, <2>1, UpsertFact
  <2>3. reportsHydrated(feed.list) BY Zenon, <1>4 DEF Hydrates
  <2> QED BY Zenon, <2>2, <2>3, <1>1, HydratedIn
<1> QED BY Zenon, <1>2, <1>3, <1>4

\* No report goes back, unless the first answer overflows the list.
LEMMA NeverBack == ASSUME StoreInv, Stays \/ Upserts \/ Hydrates PROVE Overflows \/ NotBack(items, items')
<1>1. items \in Store /\ items \in Seq(Entry) /\ Distinct(items) /\ feed.list \in Seq(Entry)
  BY Zenon DEF StoreInv, Feed, Store
<1>0. NotBack(items, items)
  <2>1. \A i \in DOMAIN items : items[i] \in Entry BY SMT, <1>1
  <2>2. \A x \in Entry : x.ver <= x.ver
    <3>1. \A v \in Nat : v <= v BY SMT
    <3> QED BY Zenon, <3>1 DEF Entry
  <2> QED BY Zenon, <1>1, <2>1, <2>2 DEF NotBack, Distinct
<1>2. CASE Stays BY Zenon, <1>0, <1>2 DEF Stays
<1>3. CASE Upserts BY Zenon, <1>1, <1>3, UpsertFact DEF Upserts
<1>4. CASE Hydrates /\ ~Overflows
  <2> DEFINE list == feed.list
             U == IdsOf(items) \cup IdsOf(list)
             S == {s \in Store : IdsOf(s) \subseteq U /\ IdsOf(items) \subseteq IdsOf(s) /\ NotBack(items, s)}
  <2>1. \A k \in DOMAIN list : list[k] \in Entry BY SMT, <1>1
  <2>2. U \subseteq 0..MaxReports
    <3>1. \A i \in DOMAIN items : items[i] \in Entry BY SMT, <1>1
    <3>2. U \subseteq Id \cup {0} BY Zenon, <2>1, <3>1 DEF IdsOf, Entry
    <3>3. Id \cup {0} \subseteq 0..MaxReports BY SMT, FormAssumption DEF Id
    <3> QED BY Zenon, <3>2, <3>3
  <2>3. IsFiniteSet(U) /\ Cardinality(U) \in Nat
    <3>1. IsFiniteSet(0..MaxReports) BY SMT, FS_Interval, FormAssumption
    <3> HIDE DEF U
    <3> QED BY Zenon, <2>2, <3>1, FS_Subset, FS_CardinalityType
  <2>4. Cardinality(U) <= Cap
    <3>1. ~(Cardinality(U) > Cap) BY Zenon, <1>4 DEF Overflows, Hydrates, IdsOf
    <3> HIDE DEF U
    <3> QED BY SMT, <3>1, <2>3, FormAssumption
  <2>5. ASSUME NEW s \in S, NEW k \in DOMAIN list PROVE upsertReport(s, list[k]) \in S
    <3> DEFINE r == list[k]
               u == upsertReport(s, r)
    <3>1. r \in Entry /\ s \in Store /\ IdsOf(s) \subseteq U /\ IdsOf(items) \subseteq IdsOf(s) /\ NotBack(items, s)
      BY Zenon, <2>1
    <3>2. r.id \in IdsOf(list) BY Zenon DEF IdsOf
    <3>3. IdsOf(s) \cup {r.id} \subseteq U BY Zenon, <3>1, <3>2
    <3> HIDE DEF u, r, U, S, list
    <3>4. u \in Store /\ NotBack(s, u) /\ IdsOf(u) \subseteq IdsOf(s) \cup {r.id} /\ IdsOf(s) \subseteq IdsOf(u)
      BY Zenon, <3>1, <3>3, <2>3, <2>4, UpsertFact DEF u
    <3>5. NotBack(items, u)
      <4> SUFFICES ASSUME NEW i \in DOMAIN items, NEW j \in DOMAIN u, items[i].id = u[j].id
                   PROVE  items[i].ver <= u[j].ver
        BY Zenon DEF NotBack
      <4>1. PICK m \in DOMAIN s : s[m].id = items[i].id BY Zenon, <3>1 DEF IdsOf
      <4>2. items[i].ver <= s[m].ver /\ s[m].ver <= u[j].ver BY Zenon, <4>1, <3>1, <3>4 DEF NotBack
      <4>3. items[i] \in Entry /\ s[m] \in Entry /\ u[j] \in Entry
        <5>1. s \in Seq(Entry) /\ u \in Seq(Entry) BY Zenon, <3>1, <3>4 DEF Store
        <5> QED BY SMT, <5>1, <1>1
      <4>4. items[i].ver \in Nat /\ s[m].ver \in Nat /\ u[j].ver \in Nat BY Zenon, <4>3 DEF Entry
      <4> QED BY SMT, <4>2, <4>4
    <3>6. IdsOf(u) \subseteq U /\ IdsOf(items) \subseteq IdsOf(u) BY Zenon, <3>1, <3>3, <3>4
    <3> QED BY Zenon, <3>4, <3>5, <3>6 DEF S, u, r
  <2>6. items \in S BY Zenon, <1>0, <1>1
  <2>7. reportsHydrated(list) BY Zenon, <1>4 DEF Hydrates
  <2>8. items' \in S
    <3> HIDE DEF S, list
    <3>1. list \in Seq(Entry) BY Zenon, <1>1 DEF list
    <3> QED BY Zenon, <3>1, <2>5, <2>6, <2>7, HydratedIn
  <2> QED BY Zenon, <2>8
<1> QED BY Zenon, <1>2, <1>3, <1>4

\* What is announced and what is listed are reports.
LEMMA AnnounceFact == ASSUME StoreInv, NEW m \in Entry, Announce(m) PROVE wire' \subseteq Entry
BY Zenon DEF StoreInv, Announce

\* Every step keeps the types, and changes the store in one of the three ways.
LEMMA StoreStep ==
  ASSUME FormInv, StoreInv, FormNext
  PROVE  /\ rows' \in [Id -> Nat] /\ wire' \subseteq Entry /\ feed' \in Feed /\ casts' \in Seq(Cast)
         /\ Stays \/ Upserts \/ Hydrates
<1> DEFINE Goal == /\ rows' \in [Id -> Nat] /\ wire' \subseteq Entry /\ feed' \in Feed /\ casts' \in Seq(Cast)
                   /\ Stays \/ Upserts \/ Hydrates
<1>t. rows \in [Id -> Nat] /\ wire \subseteq Entry /\ feed \in Feed /\ casts \in Seq(Cast)
  BY Zenon DEF StoreInv
<1>n. 0 \in Nat /\ 1 \in Nat /\ <<>> \in Seq(Entry) /\ \A x \in Nat : x + 1 \in Nat BY SMT
<1>a. ASSUME UNCHANGED <<rows, wire, feed, casts, items>> PROVE Goal BY Zenon, <1>a, <1>t DEF Stays
<1>1. ASSUME NEW r \in Id, NEW h, Files(r, h) PROVE rows' \in [Id -> Nat] /\ wire' \subseteq Entry
  <2>1. [id |-> r, ver |-> 1] \in Entry BY Zenon, <1>n DEF Entry
  <2> QED BY Zenon, <1>1, <1>t, <1>n, <2>1, AnnounceFact DEF Files
<1>2. ASSUME NEW r \in Id, Raises(r) PROVE rows' \in [Id -> Nat] /\ wire' \subseteq Entry /\ rows[r] + 1 \in Nat
  <2>1. rows[r] + 1 \in Nat BY Zenon, <1>t, <1>n
  <2>2. [id |-> r, ver |-> rows[r] + 1] \in Entry BY Zenon, <2>1 DEF Entry
  <2> QED BY Zenon, <1>2, <1>t, <2>1, <2>2, AnnounceFact DEF Raises
<1>3. CASE othersFile
  <2>1. PICK r \in FreeId : Files(r, 0) BY Zenon, <1>3 DEF othersFile
  <2>2. r \in Id BY Zenon DEF FreeId
  <2> QED BY Zenon, <1>1, <1>3, <1>t, <2>1, <2>2 DEF othersFile, Stays
<1>4. ASSUME NEW r \in Id, othersVote(r) \/ castVote(r) PROVE Goal
  <2>1. CASE othersVote(r) BY Zenon, <1>2, <1>t, <2>1 DEF othersVote, Stays
  <2>2. CASE castVote(r)
    <3>1. [pc |-> "sign", id |-> r, ver |-> 0] \in Cast BY Zenon, <1>n DEF Cast
    <3>2. Append(casts, [pc |-> "sign", id |-> r, ver |-> 0]) \in Seq(Cast) BY Zenon, <3>1, <1>t, SeqAdd
    <3> QED BY Zenon, <2>2, <3>2, <1>t DEF castVote, Stays, reportsServer
  <2> QED BY Zenon, <1>4, <2>1, <2>2
<1>5. CASE list_reports
  <2>1. PICK s \in Listed :
          feed' = [feed EXCEPT !.first = "answered", !.list = [i \in DOMAIN s |-> [id |-> s[i], ver |-> rows[s[i]]]]]
    BY Zenon, <1>5 DEF list_reports
  <2> DEFINE all == {r \in Id : rows[r] # 0}
             n == IF Cardinality(all) < Cap THEN Cardinality(all) ELSE Cap
             l == [i \in DOMAIN s |-> [id |-> s[i], ver |-> rows[s[i]]]]
  <2>2. n \in Nat
    <3>1. IsFiniteSet(Id) BY SMT, FS_Interval, FormAssumption DEF Id
    <3>2. all \subseteq Id BY Zenon
    <3> HIDE DEF all
    <3>3. Cardinality(all) \in Nat BY Zenon, <3>1, <3>2, FS_Subset, FS_CardinalityType
    <3> QED BY Zenon, <3>3, FormAssumption
  <2>3. s \in [1..n -> all] BY Zenon DEF Listed
  <2>4. l \in [1..n -> Entry] BY Zenon, <2>3, <1>t DEF Entry
  <2> HIDE DEF n, l
  <2>5. l \in Seq(Entry) BY SMT, <2>2, <2>4
  <2>6. feed' = [feed EXCEPT !.first = "answered", !.list = l] BY Zenon, <2>1 DEF l
  <2>7. feed' \in Feed BY Zenon, <2>5, <2>6, <1>t DEF Feed
  <2> QED BY Zenon, <2>7, <1>5, <1>t DEF list_reports, Stays, reportsServer
<1>6. CASE Feeds
  <2>1. CASE fetchInitialReports
    <3>1. feed' = [feed EXCEPT !.first = "done", !.list = <<>>] BY Zenon, <2>1 DEF fetchInitialReports
    <3>2. feed' \in Feed /\ feed'.first = "done" BY Zenon, <3>1, <1>t, <1>n DEF Feed
    <3> QED BY Zenon, <2>1, <3>2, <1>t DEF fetchInitialReports, Hydrates, reportsServer
  <2>2. CASE reportsHydrationFailed
    <3>1. feed' \in Feed BY Zenon, <2>2, <1>t, <1>n DEF reportsHydrationFailed, Feed
    <3> QED BY Zenon, <2>2, <3>1, <1>t DEF reportsHydrationFailed, Stays, reportsServer
  <2>3. CASE reportsOnopen
    <3>1. feed' \in Feed BY Zenon, <2>3, <1>t DEF reportsOnopen, Feed
    <3> QED BY Zenon, <2>3, <3>1, <1>t DEF reportsOnopen, Stays, reportsServer
  <2>4. CASE reportsOnclose
    <3>1. feed' \in Feed BY Zenon, <2>4, <1>t, <1>n DEF reportsOnclose, Feed
    <3> QED BY Zenon, <2>4, <3>1, <1>t DEF reportsOnclose, Stays
  <2>5. CASE reportsConnect
    <3>1. feed' \in Feed BY Zenon, <2>5, <1>t DEF reportsConnect, Feed
    <3> QED BY Zenon, <2>5, <3>1, <1>t DEF reportsConnect, Stays, reportsServer
  <2>6. ASSUME NEW m \in wire, reportsOnmessage(m) PROVE Goal
    <3>1. m \in Entry BY Zenon, <1>t
    <3>2. wire' \subseteq Entry BY Zenon, <2>6, <1>t DEF reportsOnmessage
    <3> QED BY Zenon, <2>6, <3>1, <3>2, <1>t DEF reportsOnmessage, reportReceived, Upserts
  <2> QED BY Zenon, <1>6, <2>1, <2>2, <2>3, <2>4, <2>5, <2>6 DEF Feeds
<1>7. CASE setMobileFormOpen \/ onClose \/ \E photo \in {"none", "raw"} : handleSubmit(photo)
  BY Zenon, <1>7, <1>a DEF setMobileFormOpen, onClose, handleSubmit, Alone, reportsServer
<1>8. ASSUME NEW h \in DOMAIN press, Submission(h) PROVE Goal
  <2>1. CASE answered(h)
    <3>1. press[h] \in Presses BY Zenon, SeqMember DEF FormInv, FormTypes
    <3>2. [id |-> press[h].answer, ver |-> 1] \in Entry BY Zenon, <3>1, <1>n DEF Presses, Entry
    <3> QED BY Zenon, <2>1, <3>2, <1>t DEF answered, reportReceived, Upserts, reportsServer
  <2>2. CASE create_report(h)
    <3>1. PICK r \in FreeId : Files(r, h) BY Zenon, <2>2 DEF create_report
    <3>2. r \in Id BY Zenon DEF FreeId
    <3> QED BY Zenon, <2>2, <3>1, <3>2, <1>1, <1>t DEF create_report, Stays
  <2>3. CASE refused(h) BY Zenon, <2>3, <1>a DEF refused, reportsServer
  <2>4. CASE located(h) \/ notLocated(h) \/ compressAndStrip(h) \/ drawImage(h) \/ blurFaces(h) \/ toBlob(h)
    BY Zenon, <2>4, <1>a DEF located, notLocated, compressAndStrip, drawImage, blurFaces, toBlob, PhotoBecomes,
       Alone, reportsServer
  <2>5. CASE uploadToIPFS(h) \/ photoFails(h) \/ signBoundEvent(h) \/ statusError(h) \/ submitFails(h)
    BY Zenon, <2>5, <1>a DEF uploadToIPFS, photoFails, signBoundEvent, statusError, submitFails, Alone, reportsServer
  <2> QED BY Zenon, <1>8, <2>1, <2>2, <2>3, <2>4, <2>5 DEF Submission
<1>9. ASSUME NEW v \in DOMAIN casts, Voting(v) PROVE Goal
  <2> DEFINE c == casts[v]
  <2>1. c \in Cast BY Zenon, <1>t, SeqMember
  <2>2. ASSUME NEW to \in {"sign", "locate", "posting", "answered", "done"}, NEW from, AdvanceVote(v, from, to)
        PROVE  casts' \in Seq(Cast) /\ UNCHANGED <<rows, wire, feed>>
    <3> DEFINE q == [c EXCEPT !.pc = to]
    <3>1. q \in Cast BY Zenon, <2>1 DEF Cast
    <3>2. casts' = [casts EXCEPT ![v] = q] BY Zenon, <2>2 DEF AdvanceVote
    <3> HIDE DEF q
    <3>3. casts' \in Seq(Cast) BY Zenon, <3>1, <3>2, <1>t, SeqPut
    <3> QED BY Zenon, <3>3, <2>2 DEF AdvanceVote, reportsServer
  <2>3. CASE voteSigned(v)
    <3>1. AdvanceVote(v, "sign", "locate") /\ UNCHANGED items BY Zenon, <2>3 DEF voteSigned
    <3> QED BY Zenon, <3>1, <2>2, <1>t DEF Stays
  <2>4. CASE votePosted(v)
    <3>1. AdvanceVote(v, "locate", "posting") /\ UNCHANGED items BY Zenon, <2>4 DEF votePosted
    <3> QED BY Zenon, <3>1, <2>2, <1>t DEF Stays
  <2>5. CASE voteFails(v)
    <3>1. PICK pc : AdvanceVote(v, pc, "done") /\ UNCHANGED items BY Zenon, <2>5 DEF voteFails
    <3> QED BY Zenon, <3>1, <2>2, <1>t DEF Stays
  <2>6. CASE voteAnswered(v)
    <3>1. AdvanceVote(v, "answered", "done") /\ items' = upsertReport(items, [id |-> c.id, ver |-> c.ver])
      BY Zenon, <2>6 DEF voteAnswered, reportReceived
    <3>2. [id |-> c.id, ver |-> c.ver] \in Entry BY Zenon, <2>1 DEF Cast, Entry
    <3> QED BY Zenon, <3>1, <3>2, <2>2, <1>t DEF Upserts
  <2>7. CASE cast_vote(v)
    <3> DEFINE q == [c EXCEPT !.pc = "answered", !.ver = rows[c.id] + 1]
    <3>1. c.id \in Id BY Zenon, <2>1 DEF Cast
    <3>2. rows' \in [Id -> Nat] /\ wire' \subseteq Entry /\ rows[c.id] + 1 \in Nat
      BY Zenon, <3>1, <2>7, <1>2 DEF cast_vote
    <3>3. casts' = [casts EXCEPT ![v] = q] BY Zenon, <2>7 DEF cast_vote
    <3>4. q \in Cast BY Zenon, <2>1, <3>2 DEF Cast
    <3> HIDE DEF q
    <3>5. casts' \in Seq(Cast) BY Zenon, <3>3, <3>4, <1>t, SeqPut
    <3> QED BY Zenon, <2>7, <3>2, <3>5, <1>t DEF cast_vote, Stays
  <2> QED BY Zenon, <1>9, <2>3, <2>4, <2>5, <2>6, <2>7 DEF Voting
<1> QED BY Zenon, <1>3, <1>4, <1>5, <1>6, <1>7, <1>8, <1>9 DEF FormNext

\* The store is well formed.
LEMMA StoreInvariant == FormSpec => []StoreInv
<1>1. FormInit => StoreInv
  <2> SUFFICES ASSUME FormInit PROVE StoreInv BY Zenon
  <2>1. 0 \in Nat /\ <<>> \in Seq(Entry) /\ <<>> \in Seq(Cast) /\ Len(<<>>) = 0 /\ DOMAIN <<>> = {} BY SMT
  <2>2. rows \in [Id -> Nat]
    <3>1. {0} \subseteq Nat BY SMT
    <3>2. rows \in [Id -> {0}] BY Zenon DEF FormInit
    <3> QED BY Zenon, <3>1, <3>2
  <2>3. feed \in Feed BY Zenon, <2>1 DEF FormInit, Feed
  <2>4. items \in Store
    <3>1. 0 <= Cap BY SMT, FormAssumption
    <3>2. items = <<>> BY Zenon DEF FormInit
    <3> QED BY Zenon, <2>1, <3>1, <3>2 DEF Store, Distinct
  <2> QED BY Zenon, <2>1, <2>2, <2>3, <2>4 DEF FormInit, StoreInv
<1>2. FormInv /\ StoreInv /\ [FormNext]_formVars => StoreInv'
  <2> SUFFICES ASSUME FormInv, StoreInv, [FormNext]_formVars PROVE StoreInv' BY Zenon
  <2>1. CASE UNCHANGED formVars BY Zenon, <2>1 DEF formVars, reportsServer, StoreInv
  <2>2. CASE FormNext BY Zenon, <2>2, StoreStep, StoreKeeps DEF StoreInv
  <2> QED BY Zenon, <2>1, <2>2
<1> QED BY <1>1, <1>2, FormInvariant, PTL DEF FormSpec

\* A report on the page never goes back to an older version, whatever the order
\* of the first answer, the socket and the answers to posts and votes, unless
\* the first answer overflows the list (reportReceived, reportsHydrated).
THEOREM ReportsOnlyAdvance == FormSpec => ReportNeverGoesBack
<1> DEFINE A == Overflows \/ \A i \in DOMAIN items, j \in DOMAIN items' :
                  items[i].id = items'[j].id => items[i].ver <= items'[j].ver
<1>1. FormInv /\ StoreInv /\ [FormNext]_formVars => [A]_formVars
  <2> SUFFICES ASSUME FormInv, StoreInv, FormNext PROVE A BY Zenon
  <2> QED BY Zenon, StoreStep, NeverBack DEF NotBack
<1> QED BY <1>1, FormInvariant, StoreInvariant, PTL DEF FormSpec, ReportNeverGoesBack
=============================================================================
