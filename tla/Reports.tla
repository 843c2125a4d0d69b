------------------------------ MODULE Reports ------------------------------
(***************************************************************************)
(* Community reports: weighted votes, the status ladder, reputation,       *)
(* vouches and decay (reports/service.rs, reports/consensus.rs,            *)
(* routes/reports.rs, vouches/mod.rs, routes/vouches.rs,                   *)
(* trust/personhood.rs, trust/decay.rs, subscribers/trust_worker.rs).      *)
(*                                                                         *)
(* cast_vote holds the report row and both user rows locked, so it is one  *)
(* action.  The decay pass reads all candidates in one SELECT and writes   *)
(* them back one by one without a lock; a vouch is checked for eligibility *)
(* before the locked budget check: both are cut there.                     *)
(***************************************************************************)
EXTENDS Integers, FiniteSets

CONSTANTS
  User, Report,
  Author,               \* who files which report
  Start,                \* reputation_score of the users at the start: possibilities
  Roots,                \* vouch_genesis_roots
  VouchBudget,          \* vouch_budget
  RequireEstablished,   \* consensus_require_established (default on)
  GraceDays, HorizonDays, Floor,  \* decay settings, in days of the model
  MaxDays,              \* bound: days since the last verified report
  VouchPair             \* bound: who may ask to vouch for whom

ASSUME ReportAssumption ==
  /\ IsFiniteSet(User)
  /\ Author \in [Report -> User]
  /\ Start \subseteq [User -> Nat]
  /\ Roots \subseteq User
  /\ RequireEstablished \in BOOLEAN
  /\ VouchPair \subseteq User \X User
ASSUME DecayAssumption ==
  /\ GraceDays \in Nat /\ HorizonDays \in Nat
  /\ Floor \in Nat /\ MaxDays \in Nat /\ VouchBudget \in Nat

VARIABLES
  earned,      \* users.reputation_score
  effective,   \* users.effective_reputation_score
  tier,        \* users.reputation_tier
  days,        \* days since users.last_verified_at
  status,      \* community_reports.status, "NONE" before it is filed
  score,       \* community_reports.consensus_score
  vote,        \* report_votes: per report and user
  vouches,     \* active rows of vouches: <<voucher, vouchee>>
  issuing,     \* post_vouch past its eligibility check
  decaying,    \* decay_pass: scores computed and not yet written, -1 for none
  credited,    \* history: how often a report's author was credited for it
  earned0      \* history: reputation_score at the start

users == <<earned, effective, tier, days>>
reports == <<status, score, vote, credited>>
trust == <<vouches, issuing>>
vars == <<users, reports, trust, decaying, earned0>>

Tier == {"NEWCOMER", "TRUSTED", "VETERAN", "SENTINEL"}
Status == {"NONE", "PENDING", "UNVERIFIED", "VERIFIED", "AUTHORITATIVE",
           "DISPUTED", "REJECTED"}

compute_tier(s) ==
  CASE s >= 50 -> "SENTINEL"
    [] s >= 20 /\ s < 50 -> "VETERAN"
    [] s >= 5 /\ s < 20 -> "TRUSTED"
    [] s < 5 -> "NEWCOMER"

tier_score(t) ==
  CASE t = "TRUSTED" -> 2 [] t = "VETERAN" -> 3 [] t = "SENTINEL" -> 4
    [] OTHER -> 1

vote_weight(t) ==
  CASE t = "TRUSTED" -> 3 [] t = "VETERAN" -> 6 [] t = "SENTINEL" -> 10
    [] OTHER -> 1

Voters(r, v) == {u \in User : vote[r][u] = v}

TypeOK ==
  /\ earned \in [User -> Nat] /\ effective \in [User -> Nat]
  /\ tier \in [User -> Tier]
  /\ days \in [User -> 0..MaxDays]
  /\ status \in [Report -> Status]
  /\ score \in [Report -> Int]
  /\ vote \in [Report -> [User -> {"NONE", "CONFIRM", "DENY"}]]
  /\ vouches \subseteq User \X User /\ issuing \subseteq User \X User
  /\ decaying \in [User -> Nat \cup {-1}]
  /\ earned0 \in [User -> Nat]
  /\ credited \in [Report -> Nat]
  /\ \A r \in Report : status[r] = "NONE" => Voters(r, "NONE") = User
  /\ \A r \in Report : vote[r][Author[r]] = "NONE"

Init ==
  /\ earned0 \in Start
  /\ earned = earned0
  /\ effective = earned0
  /\ tier = [u \in User |-> compute_tier(earned0[u])]
  /\ days = [u \in User |-> 0]
  /\ status = [r \in Report |-> "NONE"]
  /\ score = [r \in Report |-> 0]
  /\ vote = [r \in Report |-> [u \in User |-> "NONE"]]
  /\ vouches = {} /\ issuing = {}
  /\ decaying = [u \in User |-> -1]
  /\ credited = [r \in Report |-> 0]

-----------------------------------------------------------------------------
(* Personhood *)

tier_is_established(u) == tier[u] \in {"TRUSTED", "VETERAN", "SENTINEL"}

\* eligible_from: a genesis root or an earned tier, never a vouch alone.
eligible_from(u) == u \in Roots \/ tier_is_established(u)

\* The gate's query: root, earned tier, or vouched for by someone eligible now.
Established(u) ==
  eligible_from(u) \/ \E w \in User : <<w, u>> \in vouches /\ eligible_from(w)

-----------------------------------------------------------------------------
(* Consensus *)

GateOff(n, est) == TRUE  \* mutant
established_ok(n, est) == RequireEstablished => est >= n

EnoughConfirmers(conf, n) == conf >= n

\* The positive transitions, tried when neither rejection nor dispute applies.
Progress(st, s, conf, est) ==
  CASE st = "PENDING" /\ s >= 3 /\ EnoughConfirmers(conf, 2) -> "UNVERIFIED"
    [] st = "UNVERIFIED" /\ s >= 7 /\ EnoughConfirmers(conf, 3)
         /\ established_ok(2, est) -> "VERIFIED"
    [] st = "VERIFIED" /\ s >= 15 /\ EnoughConfirmers(conf, 4)
         /\ established_ok(3, est) -> "AUTHORITATIVE"
    [] OTHER -> st

\* compute_new_status; the present status when no transition applies.
compute_new_status(st, s, conf, deny, est) ==
  IF st \in {"PENDING", "DISPUTED"} /\ s <= -5 THEN "REJECTED"
  ELSE IF st \in {"UNVERIFIED", "VERIFIED", "AUTHORITATIVE"}
          /\ deny >= 3 /\ deny > conf THEN "DISPUTED"
  ELSE Progress(st, s, conf, est)

\* create_report: the seed score comes from the author's tier.
CreateReport(r) ==
  /\ status[r] = "NONE"
  /\ status' = [status EXCEPT ![r] = "PENDING"]
  /\ score' = [score EXCEPT ![r] = tier_score(tier[Author[r]])]
  /\ UNCHANGED <<users, vote, credited, trust, decaying>>

\* What becoming VERIFIED does to the author's row.
CreditAuthor(a) ==
  /\ earned' = [earned EXCEPT ![a] = @ + 10]
  /\ effective' = [effective EXCEPT ![a] = earned[a] + 10]
  /\ tier' = [tier EXCEPT ![a] = compute_tier(earned[a] + 10)]
  /\ days' = [days EXCEPT ![a] = 0]

\* vote's check against the author, and the key of report_votes.
MayVote(u, r) == u # Author[r] /\ vote[r][u] = "NONE"

\* near is 1 within a kilometre of the report, 0 otherwise.
Magnitude(u, near) ==
  vote_weight(tier[u]) + (IF tier[u] = "NEWCOMER" THEN 0 ELSE near)

\* The status after a vote, from the counters as the vote leaves them.
StatusAfter(r, s) ==
  LET confirmers == Voters(r, "CONFIRM")' IN
  compute_new_status(status[r], s, Cardinality(confirmers),
    Cardinality(Voters(r, "DENY")'), Cardinality({w \in confirmers : Established(w)}))

\* vote and cast_vote, weighted by the voter's tier of the moment.
CastVote(u, r, v, near) ==
  /\ status[r] # "NONE"
  /\ MayVote(u, r)
  /\ vote' = [vote EXCEPT ![r] = [@ EXCEPT ![u] = v]]
  /\ score' = [score EXCEPT ![r] = IF v = "CONFIRM" THEN @ + Magnitude(u, near)
                                   ELSE @ - Magnitude(u, near)]
  /\ status' = [status EXCEPT ![r] = StatusAfter(r, score'[r])]
  /\ IF status'[r] = "VERIFIED" /\ status[r] # "VERIFIED"
     THEN /\ CreditAuthor(Author[r])
          /\ credited' = [credited EXCEPT ![r] = @ + 1]
     ELSE UNCHANGED <<users, credited>>
  /\ UNCHANGED <<trust, decaying>>

-----------------------------------------------------------------------------
(* Vouches *)

\* post_vouch up to the call of issue_vouch.  Suspension and the budget
\* override are fields only operators set by hand: no code writes them.
PostVouch(w, u) ==
  /\ w # u /\ <<w, u>> \in VouchPair
  /\ eligible_from(w)
  /\ issuing' = issuing \cup {<<w, u>>}
  /\ UNCHANGED <<users, reports, vouches, decaying>>

\* issue_vouch: count and insert under the voucher's advisory lock; inserting
\* an active pair again does nothing.  A request may have a twin in flight.
IssueVouch(w, u) ==
  /\ <<w, u>> \in issuing
  /\ vouches' = IF Cardinality({x \in User : <<w, x>> \in vouches}) >= VouchBudget
                THEN vouches ELSE vouches \cup {<<w, u>>}
  /\ issuing' \in {issuing, issuing \ {<<w, u>>}}
  /\ UNCHANGED <<users, reports, decaying>>

\* delete_vouch and revoke_vouch.
RevokeVouch(w, u) ==
  /\ <<w, u>> \in vouches
  /\ vouches' = vouches \ {<<w, u>>}
  /\ UNCHANGED <<users, reports, issuing, decaying>>

-----------------------------------------------------------------------------
(* Decay *)

\* effective_score, with the horizon stretched m times (accuracy m - 1).
\* Linear from earned to the floor, rounded to the nearest integer.
effective_score(e, d, m) ==
  LET h == HorizonDays * m
      over == d - GraceDays IN
  IF e <= Floor \/ over <= 0 THEN e
  ELSE IF over >= h THEN Floor
  ELSE (2 * (e * h - over * (e - Floor)) + h) \div (2 * h)

\* decay_pass, the SELECT.  A reputation above zero was earned by a verified
\* report, so last_verified_at is set exactly for those users.
DecaySelect ==
  /\ \A u \in User : decaying[u] = -1
  /\ LET due == {u \in User : earned[u] > Floor /\ days[u] >= GraceDays} IN
     /\ due # {}
     /\ \E m \in [due -> 1..2] :
          decaying' = [u \in User |->
            IF u \in due THEN effective_score(earned[u], days[u], m[u]) ELSE -1]
  /\ UNCHANGED <<users, reports, trust>>

\* decay_pass, one UPDATE of its loop.
DecayWrite(u) ==
  /\ decaying[u] # -1
  /\ effective' = [effective EXCEPT ![u] = decaying[u]]
  /\ tier' = [tier EXCEPT ![u] = compute_tier(decaying[u])]
  /\ decaying' = [decaying EXCEPT ![u] = -1]
  /\ UNCHANGED <<earned, days, reports, trust>>

DayPasses ==
  /\ \E u \in User : days[u] < MaxDays
  /\ days' = [u \in User |-> IF days[u] < MaxDays THEN days[u] + 1 ELSE MaxDays]
  /\ UNCHANGED <<earned, effective, tier, reports, trust, decaying>>

-----------------------------------------------------------------------------
ReportStep ==
  \/ \E r \in Report : CreateReport(r)
  \/ \E u \in User, r \in Report, v \in {"CONFIRM", "DENY"}, near \in {0, 1} :
       CastVote(u, r, v, near)

VouchStep ==
  \E w, u \in User : PostVouch(w, u) \/ IssueVouch(w, u) \/ RevokeVouch(w, u)

DecayStep == DecaySelect \/ DayPasses \/ \E u \in User : DecayWrite(u)

Next == (ReportStep \/ VouchStep \/ DecayStep) /\ UNCHANGED earned0

Spec == Init /\ [][Next]_vars

-----------------------------------------------------------------------------
(* Properties *)

\* Without a genesis root and with nobody's reputation earned yet, the gate of
\* compute_new_status lets no report be VERIFIED, however many fresh keys
\* confirm it, and nobody becomes established through votes, vouches or decay
\* (consensus.rs: "blocking pure-Sybil (NEWCOMER-only) escalation").
TrustNeedsARoot ==
  (Roots = {} /\ RequireEstablished /\ \A u \in User : earned0[u] = 0) =>
    /\ \A u \in User : ~Established(u)
    /\ \A r \in Report : status[r] \notin {"VERIFIED", "AUTHORITATIVE"}

\* Over any sequence of confirmations and denials a report pays its author at
\* most once, and it is VERIFIED or AUTHORITATIVE only once it has paid
\* (cast_vote's update of the reporter's row).
CreditedOnce ==
  \A r \in Report :
    /\ credited[r] <= 1
    /\ status[r] \in {"VERIFIED", "AUTHORITATIVE"} => credited[r] = 1

\* Whatever the voters' weights, the rungs of the ladder stand on distinct
\* people other than the author: consensus.rs, "a single high-reputation voter
\* can't escalate alone".
LadderNeedsPeople ==
  \A r \in Report :
    LET people == Voters(r, "CONFIRM") \ {Author[r]} IN
    /\ status[r] = "UNVERIFIED" => Cardinality(people) >= 2
    /\ status[r] = "VERIFIED" => Cardinality(people) >= 3
    /\ status[r] = "AUTHORITATIVE" => Cardinality(people) >= 4

\* A voucher never has more active vouches than the budget, however its
\* requests interleave (vouches/mod.rs: "the budget can never be overrun").
BudgetHolds ==
  \A w \in User : Cardinality({u \in User : <<w, u>> \in vouches}) <= VouchBudget

\* Even written back late and in any order with credits, decay keeps the
\* effective score between the floor and the earned score, and the tier is
\* the one of the effective score (decay.rs: "escape [floor, earned]").
DecayStaysInRange ==
  \A u \in User :
    /\ effective[u] <= earned[u]
    /\ effective[u] >= Floor \/ effective[u] = earned[u]
    /\ tier[u] = compute_tier(effective[u])

\* decay.rs: "Within `grace_days` of the last VERIFIED -> earned" and "a false
\* decay self-heals when they contribute again": right after a verified report
\* the effective score is the earned one.
RecentlyVerifiedIsUndecayed ==
  \A u \in User : days[u] <= GraceDays => effective[u] = earned[u]
=============================================================================
