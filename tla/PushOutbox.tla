----------------------------- MODULE PushOutbox -----------------------------
(***************************************************************************)
(* Push notifications: subscriptions (routes/push.rs), the relay's webhook *)
(* and the chat preferences that decide who is notified of a message       *)
(* (routes/relay_hooks.rs, routes/chat_notifications.rs), the two outbox   *)
(* tables and the workers that empty them (subscribers/                    *)
(* push_outbox_worker.rs and chat_push_worker.rs, which run the same       *)
(* protocol on a table each), and the purge of old rows                    *)
(* (subscribers/retention_worker.rs).                                      *)
(*                                                                         *)
(* A statement on the outbox is one step.  Between claiming a row, calling *)
(* the push provider and writing the outcome anything may happen: another  *)
(* worker, an unsubscribe, the end of the lease, a crash.                  *)
(***************************************************************************)
EXTENDS Integers, FiniteSets

CONSTANTS
  Alert,         \* confirmed events that are pushed
  Chat,          \* gift wraps the relay reports
  Identity, Endpoint, Worker,
  Recipient,     \* recipient_p of a chat message
  None, Gone,    \* no worker (or owner), and the worker_id of a dead process
  BATCH_SIZE, MAX_ATTEMPTS,
  MaxFaults      \* bound: failed writes, unclear sends, crashes, slow sends

Message == Alert \cup Chat

ASSUME OutboxAssumption ==
  /\ BATCH_SIZE \in Nat \ {0} /\ MAX_ATTEMPTS \in Nat \ {0} /\ MaxFaults \in Nat
  /\ None \notin Identity \cup Worker /\ Gone \notin Worker \cup {None}
  /\ Recipient \in [Chat -> Identity]
  /\ IsFiniteSet(Worker) /\ Alert \cap Chat = {}

Delivery == Message \X Endpoint

VARIABLES
  owner,     \* push_subscriptions: the identity of an endpoint's row, or None
  muted,     \* identities with dm_enabled = false
  receipts,  \* relay_webhook_receipts
  hook,      \* chat messages between the two statements of inbox_webhook
  queued,    \* messages whose deliveries were inserted
  status,    \* of a delivery: "none", "pending", "waiting" (available_at is in
             \* the future), "processing", "sent" or "dead"
  attempts,
  holder,    \* worker_id
  stale,     \* deliveries locked for more than 15 minutes
  job,       \* a worker's part of its batch: "none", "sending", "accepted"
             \* or "refused"
  got,       \* how often the provider took a delivery
  to,        \* whom a delivery was addressed to when it was inserted
  faults

requests == <<owner, muted, receipts, hook, queued>>
outbox == <<status, attempts, holder, stale>>
vars == <<requests, outbox, job, got, to, faults>>

TypeOK ==
  /\ owner \in [Endpoint -> Identity \cup {None}]
  /\ muted \subseteq Identity
  /\ receipts \subseteq Chat /\ hook \subseteq receipts /\ queued \subseteq Message
  /\ status \in [Delivery -> {"none", "pending", "waiting", "processing", "sent", "dead"}]
  /\ attempts \in [Delivery -> 0..MAX_ATTEMPTS]
  /\ holder \in [Delivery -> Worker \cup {None, Gone}]
  /\ stale \subseteq Delivery
  /\ job \in [Worker -> [Delivery -> {"none", "sending", "accepted", "refused"}]]
  /\ got \in [Delivery -> Nat]
  /\ to \in [Delivery -> Identity \cup {None}]
  /\ faults \in 0..MaxFaults
  /\ \A d \in Delivery : holder[d] # None <=> status[d] = "processing"

Init ==
  /\ owner = [e \in Endpoint |-> None]
  /\ muted = {} /\ receipts = {} /\ hook = {} /\ queued = {}
  /\ status = [d \in Delivery |-> "none"]
  /\ attempts = [d \in Delivery |-> 0]
  /\ holder = [d \in Delivery |-> None]
  /\ stale = {}
  /\ job = [w \in Worker |-> [d \in Delivery |-> "none"]]
  /\ got = [d \in Delivery |-> 0]
  /\ to = [d \in Delivery |-> None]
  /\ faults = 0

Fault == faults < MaxFaults /\ faults' = faults + 1

-----------------------------------------------------------------------------
(* Requests *)

MayUpsert(i, e) == owner[e] \in {None, i}

\* subscribe: the upsert; anyone else gets a conflict.
subscribe(i, e) ==
  /\ MayUpsert(i, e)
  /\ owner' = [owner EXCEPT ![e] = i]
  /\ UNCHANGED <<muted, receipts, hook, queued, outbox, job, got, to, faults>>

\* The row leaves the table: its columns are forgotten.
Deleted(D) ==
  /\ status' = [d \in Delivery |-> IF d \in D THEN "none" ELSE status[d]]
  /\ attempts' = [d \in Delivery |-> IF d \in D THEN 0 ELSE attempts[d]]
  /\ holder' = [d \in Delivery |-> IF d \in D THEN None ELSE holder[d]]
  /\ to' = [d \in Delivery |-> IF d \in D THEN None ELSE to[d]]
  /\ stale' = stale \ D

\* unsubscribe: the row and, by ON DELETE CASCADE, its deliveries.
unsubscribe(i, e) ==
  /\ owner[e] = i
  /\ owner' = [owner EXCEPT ![e] = None]
  /\ Deleted({d \in Delivery : d[2] = e})
  /\ UNCHANGED <<muted, receipts, hook, queued, job, got, faults>>

put_preferences(i) ==
  /\ \E on \in BOOLEAN : muted' = IF on THEN muted \ {i} ELSE muted \cup {i}
  /\ UNCHANGED <<owner, receipts, hook, queued, outbox, job, got, to, faults>>

\* Rows for message m and the subscriptions of E.
Inserted(m, E) ==
  LET new == {d \in Delivery : d[1] = m /\ d[2] \in E /\ status[d] = "none"} IN
  /\ status' = [d \in Delivery |-> IF d \in new THEN "pending" ELSE status[d]]
  /\ to' = [d \in Delivery |-> IF d \in new THEN owner[d[2]] ELSE to[d]]
  /\ queued' = queued \cup {m}

\* enqueue_push_deliveries, once per confirmed event; which subscriptions
\* match its place and severity is left open.
enqueue_push_deliveries(m) ==
  /\ m \in Alert \ queued
  /\ \E E \in SUBSET {e \in Endpoint : owner[e] # None} : Inserted(m, E)
  /\ UNCHANGED <<owner, muted, receipts, hook, attempts, holder, stale, job, got, faults>>

Unreceipted(m) == TRUE  \* mutant: inserted = 0 is not looked at
FirstReceipt(m) == m \notin receipts

\* inbox_webhook, the receipt; the relay may call it again at any time.
inbox_webhook(m) ==
  /\ m \in Chat \ hook
  /\ FirstReceipt(m)
  /\ receipts' = receipts \cup {m}
  /\ hook' = hook \cup {m}
  /\ UNCHANGED <<owner, muted, queued, outbox, job, got, to, faults>>

\* inbox_webhook, the deliveries.
inbox_enqueue(m) ==
  /\ m \in hook
  /\ hook' = hook \ {m}
  /\ Inserted(m, {e \in Endpoint : owner[e] = Recipient[m] /\ owner[e] \notin muted})
  /\ UNCHANGED <<owner, muted, receipts, attempts, holder, stale, job, got, faults>>

\* inbox_webhook ends between the two.
WebhookFails(m) ==
  /\ Fault
  /\ m \in hook
  /\ hook' = hook \ {m}
  /\ UNCHANGED <<owner, muted, receipts, queued, outbox, job, got, to>>

-----------------------------------------------------------------------------
(* The workers *)

ClaimsPending(d) == status[d] = "pending"   \* mutant: no lease
Claimable(d) == status[d] = "pending" \/ (status[d] = "processing" /\ d \in stale)

\* process_batch claims at most BATCH_SIZE rows of one table and sends them all.
Claim(w, M) ==
  LET ready == {d \in Delivery : d[1] \in M /\ Claimable(d)} IN
  /\ \A d \in Delivery : d[1] \in M => job[w][d] = "none"
  /\ \E D \in SUBSET ready :
       /\ D # {}
       /\ Cardinality(D) = BATCH_SIZE \/ (D = ready /\ Cardinality(D) < BATCH_SIZE)
       /\ status' = [d \in Delivery |-> IF d \in D THEN "processing" ELSE status[d]]
       /\ holder' = [d \in Delivery |-> IF d \in D THEN w ELSE holder[d]]
       /\ stale' = stale \ D
       /\ job' = [job EXCEPT ![w] = [d \in Delivery |-> IF d \in D THEN "sending" ELSE @[d]]]
  /\ UNCHANGED <<requests, attempts, got, to, faults>>

\* send: the provider takes the push.
SendAccepted(w, d) ==
  /\ job[w][d] = "sending"
  /\ job' = [job EXCEPT ![w][d] = "accepted"]
  /\ got' = [got EXCEPT ![d] = @ + 1]
  /\ UNCHANGED <<requests, outbox, to, faults>>

\* send: the provider refuses, or cannot be reached in 30 seconds.
SendRefused(w, d) ==
  /\ job[w][d] = "sending"
  /\ job' = [job EXCEPT ![w][d] = "refused"]
  /\ UNCHANGED <<requests, outbox, got, to, faults>>

TimeoutOutcome == "refused"

\* send: no answer, and the provider took the push or did not.
SendUnclear(w, d) ==
  /\ Fault
  /\ job[w][d] = "sending"
  /\ job' = [job EXCEPT ![w][d] = TimeoutOutcome]
  /\ \E n \in {0, 1} : got' = [got EXCEPT ![d] = @ + n]
  /\ UNCHANGED <<requests, outbox, to>>

Holds(w, d) == holder[d] = w
Released(d) == None

mark_sent(w, d) ==
  /\ job[w][d] = "accepted"
  /\ job' = [job EXCEPT ![w][d] = "none"]
  /\ IF Holds(w, d)
     THEN /\ status' = [status EXCEPT ![d] = "sent"]
          /\ holder' = [holder EXCEPT ![d] = Released(d)]
          /\ stale' = stale \ {d}
     ELSE UNCHANGED <<status, holder, stale>>
  /\ UNCHANGED <<requests, attempts, got, to, faults>>

Exhausted(n) == n >= MAX_ATTEMPTS

mark_failed(w, d) ==
  /\ job[w][d] = "refused"
  /\ job' = [job EXCEPT ![w][d] = "none"]
  /\ IF Holds(w, d)
     THEN /\ attempts' = [attempts EXCEPT ![d] = @ + 1]
          /\ status' = [status EXCEPT ![d] = IF Exhausted(attempts[d] + 1)
                                             THEN "dead" ELSE "waiting"]
          /\ holder' = [holder EXCEPT ![d] = Released(d)]
          /\ stale' = stale \ {d}
     ELSE UNCHANGED <<status, attempts, holder, stale>>
  /\ UNCHANGED <<requests, got, to, faults>>

\* The outcome cannot be written; it is logged and forgotten.
MarkFails(w, d) ==
  /\ Fault
  /\ job[w][d] \in {"accepted", "refused"}
  /\ job' = [job EXCEPT ![w][d] = "none"]
  /\ UNCHANGED <<requests, outbox, got, to>>

\* The process dies and starts again with a new worker_id.
Crash(w) ==
  /\ Fault
  /\ \E d \in Delivery : job[w][d] # "none"
  /\ job' = [job EXCEPT ![w] = [d \in Delivery |-> "none"]]
  /\ holder' = [d \in Delivery |-> IF holder[d] = w THEN Gone ELSE holder[d]]
  /\ UNCHANGED <<requests, status, attempts, stale, got, to>>

-----------------------------------------------------------------------------
(* Time *)

\* available_at is reached.
Due(d) ==
  /\ status[d] = "waiting"
  /\ status' = [status EXCEPT ![d] = "pending"]
  /\ UNCHANGED <<requests, attempts, holder, stale, job, got, to, faults>>

Abandoned(d) == status[d] = "processing" /\ \A w \in Worker : holder[d] = w => job[w][d] = "none"

\* 15 minutes pass over a row nobody works on any more.
LeaseEnds(d) ==
  /\ Abandoned(d) /\ d \notin stale
  /\ stale' = stale \cup {d}
  /\ UNCHANGED <<requests, status, attempts, holder, job, got, to, faults>>

\* 15 minutes pass while a worker is still busy with the row.
LeaseEndsEarly(d) ==
  /\ Fault
  /\ status[d] = "processing" /\ ~Abandoned(d) /\ d \notin stale
  /\ stale' = stale \cup {d}
  /\ UNCHANGED <<requests, status, attempts, holder, job, got, to>>

\* run_once deletes alerts that were settled 30 days ago; chat rows stay.
Purge(d) ==
  /\ d[1] \in Alert /\ status[d] \in {"sent", "dead"}
  /\ Deleted({d})
  /\ UNCHANGED <<requests, job, got, faults>>

-----------------------------------------------------------------------------
Request ==
  \/ \E i \in Identity, e \in Endpoint : subscribe(i, e) \/ unsubscribe(i, e)
  \/ \E i \in Identity : put_preferences(i)
  \/ \E m \in Alert : enqueue_push_deliveries(m)
  \/ \E m \in Chat : inbox_webhook(m) \/ inbox_enqueue(m)

Work(w) ==
  \/ Claim(w, Alert) \/ Claim(w, Chat)
  \/ \E d \in Delivery : \/ SendAccepted(w, d) \/ SendRefused(w, d)
                         \/ mark_sent(w, d) \/ mark_failed(w, d)

TimePasses(d) == Due(d) \/ LeaseEnds(d)

Trouble ==
  \/ \E m \in Chat : WebhookFails(m)
  \/ \E w \in Worker : Crash(w) \/ \E d \in Delivery : SendUnclear(w, d) \/ MarkFails(w, d)
  \/ \E d \in Delivery : LeaseEndsEarly(d)

Next ==
  \/ Request
  \/ \E w \in Worker : Work(w)
  \/ \E d \in Delivery : TimePasses(d) \/ Purge(d)
  \/ Trouble

\* Workers tick every two seconds for ever, and clocks go on; a worker that
\* has a row in hand gets to the end of it.
Fairness ==
  /\ \A w \in Worker : WF_vars(Claim(w, Alert)) /\ WF_vars(Claim(w, Chat))
  /\ \A w \in Worker, d \in Delivery :
       /\ WF_vars(SendAccepted(w, d) \/ SendRefused(w, d))
       /\ WF_vars(mark_sent(w, d) \/ mark_failed(w, d))
  /\ \A d \in Delivery : WF_vars(TimePasses(d))

Spec == Init /\ [][Next]_vars /\ Fairness

-----------------------------------------------------------------------------
(* Properties *)

\* A delivery marked sent was taken by the push provider.
SentWasTaken == \A d \in Delivery : status[d] = "sent" => got[d] >= 1

\* A settled delivery never becomes active again: the late answer of a worker
\* whose lease ended cannot reopen what another worker finished (the worker_id
\* in the WHERE of mark_sent and mark_failed).
SettledStays ==
  [][\A d \in Delivery : status[d] \in {"sent", "dead"} => status'[d] \in {status[d], "none"}]_vars

\* A delivery in the outbox belongs to the identity that owns the endpoint, even
\* after unsubscribing and subscribing with another identity on one device.
PushedToItsOwner ==
  \A d \in Delivery : status[d] # "none" => to[d] = owner[d[2]]

\* Every push a device gets beyond the first is due to one fault: no two workers
\* send the same delivery otherwise, and a webhook called twice rings once.
DuplicatesAreFaults == \A d \in Delivery : got[d] <= 1 + faults

\* A delivery is given up after exactly MAX_ATTEMPTS failures.
GivesUpAtTheLimit ==
  \A d \in Delivery : status[d] = "dead" <=> attempts[d] = MAX_ATTEMPTS

\* Every delivery that was inserted is sent, given up or removed in the end,
\* crashes and lost writes included.
EveryDeliverySettles ==
  \A d \in Delivery : status[d] = "pending" ~> status[d] \in {"sent", "dead", "none"}
=============================================================================
