----------------------------- MODULE VoteLocks -----------------------------
(***************************************************************************)
(* The row locks of concurrent votes and new reports (reports/service.rs): *)
(* cast_vote locks the report, may insert the voter, and locks voter and   *)
(* reporter in key order; create_report upserts its author.  What the      *)
(* transactions compute is in Reports; here they are cut at every          *)
(* statement that may wait.                                                *)
(*                                                                         *)
(* Users are numbered in the order of their keys.  Reports of users that   *)
(* are not there yet cannot be voted on: a report and its author's row are *)
(* committed together.                                                     *)
(***************************************************************************)
EXTENDS Integers

CONSTANTS
  N,          \* number of user keys
  Report,     \* reports that exist
  Author,     \* their authors
  Registered, \* users that exist at the start, the authors among them
  Vote,       \* running calls of cast_vote
  Upsert,     \* running calls of create_report
  Caller,     \* the voter or the author of a call
  Target      \* the report of a vote

User == 1..N
Tx == Vote \cup Upsert
NoTx == "no transaction"

ASSUME LockAssumption ==
  /\ N \in Nat
  /\ Registered \subseteq User
  /\ Author \in [Report -> Registered]
  /\ Vote \cap Upsert = {} /\ NoTx \notin Tx
  /\ Caller \in [Tx -> User]
  /\ Target \in [Vote -> Report]
  /\ \A t \in Vote : Caller[t] # Author[Target[t]]

VARIABLES
  pc,       \* how far a call is
  report,   \* who holds the lock of a report
  rowLock,  \* who holds the lock of a user row, or is inserting it
  known     \* users with a committed row

vars == <<pc, report, rowLock, known>>

State == {"start", "report", "voter", "first", "both", "done"}

TypeOK ==
  /\ pc \in [Tx -> State]
  /\ report \in [Report -> Vote \cup {NoTx}]
  /\ rowLock \in [User -> Tx \cup {NoTx}]
  /\ known \subseteq User
  /\ \A r \in Report, t \in Vote : report[r] = t =>
       r = Target[t] /\ pc[t] \in State \ {"start", "done"}

Init ==
  /\ pc = [t \in Tx |-> "start"]
  /\ report = [r \in Report |-> NoTx]
  /\ rowLock = [u \in User |-> NoTx]
  /\ known = Registered

VoterFirst(t) == <<Caller[t], Author[Target[t]]>>  \* mutant: no ORDER BY
\* ORDER BY nostr_pubkey.
LockOrder(t) ==
  LET a == Author[Target[t]] IN
  IF Caller[t] < a THEN <<Caller[t], a>> ELSE <<a, Caller[t]>>
Lower(t) == LockOrder(t)[1]
Upper(t) == LockOrder(t)[2]

Holds(t, u) == rowLock[u] = t
Free(t, u) == rowLock[u] \in {NoTx, t}
Go(t, s) == pc' = [pc EXCEPT ![t] = s]

\* SELECT ... FROM community_reports ... FOR UPDATE.
LockReport(t) ==
  /\ pc[t] = "start"
  /\ report[Target[t]] = NoTx
  /\ report' = [report EXCEPT ![Target[t]] = t]
  /\ Go(t, "report")
  /\ UNCHANGED <<rowLock, known>>

\* INSERT INTO users ... ON CONFLICT DO NOTHING: nothing for a committed row,
\* locked or not; waits for another insertion of the same key.
InsertVoter(t) ==
  /\ pc[t] = "report"
  /\ \/ Caller[t] \in known /\ rowLock' = rowLock
     \/ /\ Caller[t] \notin known
        /\ Free(t, Caller[t])
        /\ rowLock' = [rowLock EXCEPT ![Caller[t]] = t]
  /\ Go(t, "voter")
  /\ UNCHANGED <<report, known>>

\* SELECT ... FROM users ... ORDER BY nostr_pubkey FOR UPDATE, row by row.
LockLower(t) ==
  /\ pc[t] = "voter"
  /\ Free(t, Lower(t))
  /\ rowLock' = [rowLock EXCEPT ![Lower(t)] = t]
  /\ Go(t, "first")
  /\ UNCHANGED <<report, known>>

LockUpper(t) ==
  /\ pc[t] = "first"
  /\ Free(t, Upper(t))
  /\ rowLock' = [rowLock EXCEPT ![Upper(t)] = t]
  /\ Go(t, "both")
  /\ UNCHANGED <<report, known>>

\* create_report's INSERT ... ON CONFLICT DO UPDATE.
UpsertAuthor(t) ==
  /\ pc[t] = "start"
  /\ Free(t, Caller[t])
  /\ rowLock' = [rowLock EXCEPT ![Caller[t]] = t]
  /\ Go(t, "both")
  /\ UNCHANGED <<report, known>>

KeepRows(t) ==  \* mutant
  /\ report' = [r \in Report |-> IF report[r] = t THEN NoTx ELSE report[r]]
  /\ Go(t, "done")
  /\ UNCHANGED rowLock

Release(t) ==
  /\ report' = [r \in Report |-> IF report[r] = t THEN NoTx ELSE report[r]]
  /\ rowLock' = [u \in User |-> IF rowLock[u] = t THEN NoTx ELSE rowLock[u]]
  /\ Go(t, "done")

Commit(t) ==
  /\ pc[t] = "both"
  /\ Release(t)
  /\ known' = known \cup {Caller[t]}

\* A failed statement (a second vote on the report violates the key of
\* report_votes) or a dropped connection rolls everything back.
Rollback(t) ==
  /\ pc[t] \notin {"start", "done"}
  /\ Release(t)
  /\ UNCHANGED known

VoteStep(t) ==
  \/ LockReport(t) \/ InsertVoter(t) \/ LockLower(t) \/ LockUpper(t)
  \/ Commit(t)

Next ==
  \/ \E t \in Vote : VoteStep(t)
  \/ \E t \in Upsert : UpsertAuthor(t) \/ Commit(t)
  \/ \E t \in Tx : Rollback(t)

\* Postgres runs a statement whose lock is free; nobody has to roll back.
Fairness ==
  /\ \A t \in Vote : WF_vars(VoteStep(t))
  /\ \A t \in Upsert : WF_vars(UpsertAuthor(t) \/ Commit(t))

Spec == Init /\ [][Next]_vars /\ Fairness

-----------------------------------------------------------------------------
(* Properties *)

Wants(t, u) ==
  \/ t \in Vote /\ pc[t] = "report" /\ u = Caller[t] /\ u \notin known
  \/ t \in Vote /\ pc[t] = "voter" /\ u = Lower(t)
  \/ t \in Vote /\ pc[t] = "first" /\ u = Upper(t)
  \/ t \in Upsert /\ pc[t] = "start" /\ u = Caller[t]

\* t cannot go on before w ends.
WaitsFor(t, w) ==
  /\ t # w
  /\ \/ \E u \in User : Wants(t, u) /\ Holds(w, u)
     \/ t \in Vote /\ pc[t] = "start" /\ report[Target[t]] = w

\* service.rs: "Lock both potentially-mutated user rows in a stable order.
\* Without this, users voting on each other's reports can deadlock": no group
\* of calls waits for one another, not even through the row of a voter that
\* was inserted before the ordered locks.
NoWaitCycle ==
  ~ \E D \in SUBSET Tx : D # {} /\ \A t \in D : \E w \in D : WaitsFor(t, w)

\* Every vote and every report that got as far as its first statement ends.
EveryCallEnds == \A t \in Tx : <>(pc[t] = "done")
=============================================================================
