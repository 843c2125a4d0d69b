-------------------------- MODULE PushOutboxProofs --------------------------
(*************************************************************************)
(* Proofs about PushOutbox for any messages, endpoints, identities and   *)
(* workers, any batch size, number of attempts and number of faults, and *)
(* about PushClient, the subscription of a browser.                      *)
(*************************************************************************)
EXTENDS PushOutbox, PushClient, FiniteSetTheorems, TLAPS

-----------------------------------------------------------------------------
\* What a worker has in hand, what was enqueued, and whose the rows are.
Bookkeeping ==
  /\ \A w \in Worker, d \in Delivery : job[w][d] = "accepted" => got[d] >= 1
  /\ \A d \in Delivery : status[d] # "none" =>
       d[1] \in queued /\ to[d] = owner[d[2]] /\ owner[d[2]] # None
  /\ \A m \in Chat : (m \in queued => m \in receipts) /\ (m \in hook => m \notin queued)

Core ==
  /\ TypeOK /\ Bookkeeping
  /\ SentWasTaken /\ GivesUpAtTheLimit

-----------------------------------------------------------------------------
\* Every request, worker step, fault and passing of time keeps the types.
LEMMA TypeStep ==
  ASSUME Core, [Next]_vars
  PROVE  TypeOK'
<1> USE OutboxAssumption
<1>0. TypeOK /\ GivesUpAtTheLimit
  BY Zenon DEF Core
<1>d. \A d \in Delivery : d[1] \in Message /\ d[2] \in Endpoint
  BY Zenon DEF Delivery
<1>f. ASSUME Fault  PROVE faults' \in 0..MaxFaults
  <2>1. faults \in 0..MaxFaults
    BY Zenon, <1>0 DEF TypeOK
  <2> QED
    BY <1>f, <2>1 DEF Fault
<1>x. ASSUME NEW D \in SUBSET Delivery, Deleted(D)
      PROVE  /\ status' \in [Delivery -> {"none", "pending", "waiting", "processing", "sent", "dead"}]
             /\ attempts' \in [Delivery -> 0..MAX_ATTEMPTS]
             /\ holder' \in [Delivery -> Worker \cup {None, Gone}]
             /\ stale' \subseteq Delivery
             /\ to' \in [Delivery -> Identity \cup {None}]
             /\ \A d \in Delivery : holder'[d] # None <=> status'[d] = "processing"
  BY <1>0, <1>x DEF TypeOK, Deleted
<1>n. ASSUME NEW m \in Message, NEW E, Inserted(m, E)
      PROVE  /\ status' \in [Delivery -> {"none", "pending", "waiting", "processing", "sent", "dead"}]
             /\ to' \in [Delivery -> Identity \cup {None}]
             /\ queued' \subseteq Message
             /\ \A d \in Delivery : status'[d] = "processing" <=> status[d] = "processing"
  BY Zenon, <1>0, <1>d, <1>n DEF TypeOK, Inserted
<1>1. ASSUME NEW i \in Identity, NEW e \in Endpoint, subscribe(i, e)  PROVE TypeOK'
  BY Zenon, <1>0, <1>1 DEF TypeOK, subscribe, outbox
<1>2. ASSUME NEW i \in Identity, NEW e \in Endpoint, unsubscribe(i, e)  PROVE TypeOK'
  <2>1. Deleted({d \in Delivery : d[2] = e})
    BY Zenon, <1>2 DEF unsubscribe
  <2> QED
    BY Zenon, <1>0, <1>2, <1>x, <2>1 DEF TypeOK, unsubscribe
<1>3. ASSUME NEW i \in Identity, put_preferences(i)  PROVE TypeOK'
  BY Zenon, <1>0, <1>3 DEF TypeOK, put_preferences, outbox
<1>4. ASSUME NEW m \in Alert, enqueue_push_deliveries(m)  PROVE TypeOK'
  <2>1. PICK E : Inserted(m, E)
    BY Zenon, <1>4 DEF enqueue_push_deliveries
  <2>2. m \in Message
    BY Zenon DEF Message
  <2> QED
    BY Zenon, <1>0, <1>4, <1>n, <2>1, <2>2 DEF TypeOK, enqueue_push_deliveries
<1>5. ASSUME NEW m \in Chat, inbox_webhook(m)  PROVE TypeOK'
  BY Zenon, <1>0, <1>5 DEF TypeOK, inbox_webhook, outbox
<1>6. ASSUME NEW m \in Chat, inbox_enqueue(m)  PROVE TypeOK'
  <2>1. PICK E : Inserted(m, E)
    BY Zenon, <1>6 DEF inbox_enqueue
  <2>2. m \in Message
    BY Zenon DEF Message
  <2> QED
    BY Zenon, <1>0, <1>6, <1>n, <2>1, <2>2 DEF TypeOK, inbox_enqueue
<1>7. ASSUME NEW m \in Chat, WebhookFails(m)  PROVE TypeOK'
  BY Zenon, <1>0, <1>7, <1>f DEF TypeOK, WebhookFails, outbox
<1>8. ASSUME NEW w \in Worker, NEW M, Claim(w, M)  PROVE TypeOK'
  <2>1. PICK D \in SUBSET Delivery :
          /\ status' = [d \in Delivery |-> IF d \in D THEN "processing" ELSE status[d]]
          /\ holder' = [d \in Delivery |-> IF d \in D THEN w ELSE holder[d]]
          /\ stale' = stale \ D
          /\ job' = [job EXCEPT ![w] = [d \in Delivery |-> IF d \in D THEN "sending" ELSE job[w][d]]]
    BY Zenon, <1>8 DEF Claim
  <2>2. job' \in [Worker -> [Delivery -> {"none", "sending", "accepted", "refused"}]]
    BY <1>0, <2>1 DEF TypeOK
  <2>3. UNCHANGED <<owner, muted, receipts, hook, queued, attempts, got, to, faults>>
    BY Zenon, <1>8 DEF Claim, requests
  <2> QED
    BY Zenon, <1>0, <2>1, <2>2, <2>3 DEF TypeOK
<1>9. ASSUME NEW w \in Worker, NEW d \in Delivery,
             SendAccepted(w, d) \/ SendRefused(w, d) \/ SendUnclear(w, d) \/ MarkFails(w, d)
      PROVE  TypeOK'
  <2>1. \E r \in {"none", "sending", "accepted", "refused"} : job' = [job EXCEPT ![w][d] = r]
    BY Zenon, <1>9 DEF SendAccepted, SendRefused, SendUnclear, TimeoutOutcome, MarkFails
  <2>2. job' \in [Worker -> [Delivery -> {"none", "sending", "accepted", "refused"}]]
    BY <1>0, <2>1 DEF TypeOK
  <2>3. got' = got \/ \E n \in {0, 1} : got' = [got EXCEPT ![d] = @ + n]
    BY Zenon, <1>9 DEF SendAccepted, SendRefused, SendUnclear, MarkFails
  <2>4. got \in [Delivery -> Nat]
    BY Zenon, <1>0 DEF TypeOK
  <2>5. got' \in [Delivery -> Nat]
    BY <2>3, <2>4
  <2>6. faults' \in 0..MaxFaults
    BY Zenon, <1>0, <1>9, <1>f DEF TypeOK, SendAccepted, SendRefused, SendUnclear, MarkFails
  <2>7. UNCHANGED <<owner, muted, receipts, hook, queued, status, attempts, holder, stale, to>>
    BY Zenon, <1>9 DEF SendAccepted, SendRefused, SendUnclear, MarkFails, requests, outbox
  <2> QED
    BY Zenon, <1>0, <2>2, <2>5, <2>6, <2>7 DEF TypeOK
<1>10. ASSUME NEW w \in Worker, NEW d \in Delivery, mark_sent(w, d) \/ mark_failed(w, d)
       PROVE  TypeOK'
  <2>1. job' = [job EXCEPT ![w][d] = "none"]
    BY Zenon, <1>10 DEF mark_sent, mark_failed
  <2>2. job' \in [Worker -> [Delivery -> {"none", "sending", "accepted", "refused"}]]
    BY Zenon, <1>0, <2>1 DEF TypeOK
  <2>3. UNCHANGED <<owner, muted, receipts, hook, queued, got, to, faults>>
    BY Zenon, <1>10 DEF mark_sent, mark_failed, requests
  <2>4. CASE UNCHANGED <<status, attempts, holder, stale>>
    BY Zenon, <1>0, <2>2, <2>3, <2>4 DEF TypeOK
  <2>5. ASSUME holder[d] = w, NEW s \in {"sent", "dead", "waiting"},
               status' = [status EXCEPT ![d] = s], holder' = [holder EXCEPT ![d] = None],
               stale' = stale \ {d},
               attempts' = attempts \/ attempts' = [attempts EXCEPT ![d] = attempts[d] + 1]
        PROVE  TypeOK'
    <3>1. status[d] = "processing" /\ attempts[d] \in 0..MAX_ATTEMPTS
      BY Zenon, <1>0, <2>5 DEF TypeOK
    <3>2. attempts[d] # MAX_ATTEMPTS
      BY Zenon, <1>0, <3>1 DEF GivesUpAtTheLimit
    <3>3. attempts[d] + 1 \in 0..MAX_ATTEMPTS
      BY <3>1, <3>2
    <3>4. attempts' \in [Delivery -> 0..MAX_ATTEMPTS]
      BY <1>0, <2>5, <3>3 DEF TypeOK
    <3> QED
      BY Zenon, <1>0, <2>2, <2>3, <2>5, <3>4 DEF TypeOK
  <2> QED
    BY Zenon, <1>10, <2>4, <2>5 DEF mark_sent, mark_failed, Holds, Released
<1>11. ASSUME NEW w \in Worker, Crash(w)  PROVE TypeOK'
  <2>1. job' \in [Worker -> [Delivery -> {"none", "sending", "accepted", "refused"}]]
    BY Zenon, <1>0, <1>11 DEF TypeOK, Crash
  <2>2. /\ holder' \in [Delivery -> Worker \cup {None, Gone}]
        /\ \A d \in Delivery : holder'[d] # None <=> holder[d] # None
    BY Zenon, <1>0, <1>11 DEF TypeOK, Crash
  <2>3. faults' \in 0..MaxFaults
    BY Zenon, <1>f, <1>11 DEF Crash
  <2> QED
    BY Zenon, <1>0, <1>11, <2>1, <2>2, <2>3 DEF TypeOK, Crash, requests
<1>12. ASSUME NEW d \in Delivery, Due(d) \/ LeaseEnds(d) \/ LeaseEndsEarly(d)  PROVE TypeOK'
  <2>1. CASE Due(d)
    BY Zenon, <1>0, <2>1 DEF TypeOK, Due, requests
  <2>2. CASE LeaseEnds(d)
    BY Zenon, <1>0, <2>2 DEF TypeOK, LeaseEnds, requests
  <2>3. CASE LeaseEndsEarly(d)
    BY Zenon, <1>0, <1>f, <2>3 DEF TypeOK, LeaseEndsEarly, requests
  <2> QED
    BY Zenon, <1>12, <2>1, <2>2, <2>3
<1>13. ASSUME NEW d \in Delivery, Purge(d)  PROVE TypeOK'
  <2>1. Deleted({d})
    BY Zenon, <1>13 DEF Purge
  <2> QED
    BY Zenon, <1>0, <1>13, <1>x, <2>1 DEF TypeOK, Purge, requests
<1>14. CASE UNCHANGED vars
  BY Zenon, <1>0, <1>14 DEF TypeOK, vars, requests, outbox
<1> QED
  BY Zenon, <1>1, <1>2, <1>3, <1>4, <1>5, <1>6, <1>7, <1>8, <1>9, <1>10, <1>11, <1>12, <1>13, <1>14
     DEF Next, Request, Work, TimePasses, Trouble

-----------------------------------------------------------------------------
\* What a step may do to one delivery, whoever takes it.  A settled row stays
\* or is removed: mark_sent and mark_failed only touch a row their worker
\* holds, and such a row is in processing.
LEMMA RowFrame ==
  ASSUME Core, [Next]_vars, NEW d \in Delivery
  PROVE  /\ status[d] \in {"sent", "dead"} => status'[d] \in {status[d], "none"}
         /\ status'[d] = "sent" => status[d] = "sent" \/ got[d] >= 1
         /\ got'[d] >= got[d]
         /\ status'[d] = "dead" <=> attempts'[d] = MAX_ATTEMPTS
<1> USE OutboxAssumption
<1>0. TypeOK /\ Bookkeeping /\ GivesUpAtTheLimit
  BY Zenon DEF Core
<1>y. /\ status \in [Delivery -> {"none", "pending", "waiting", "processing", "sent", "dead"}]
      /\ attempts \in [Delivery -> 0..MAX_ATTEMPTS] /\ got \in [Delivery -> Nat]
      /\ \A x \in Delivery : holder[x] # None <=> status[x] = "processing"
  BY Zenon, <1>0 DEF TypeOK
<1>g. status[d] = "dead" <=> attempts[d] = MAX_ATTEMPTS
  BY Zenon, <1>0 DEF GivesUpAtTheLimit
<1> DEFINE Goal ==
         /\ status[d] \in {"sent", "dead"} => status'[d] \in {status[d], "none"}
         /\ status'[d] = "sent" => status[d] = "sent" \/ got[d] >= 1
         /\ got'[d] >= got[d]
         /\ status'[d] = "dead" <=> attempts'[d] = MAX_ATTEMPTS
<1>1. ASSUME UNCHANGED <<status, attempts>>,
             got' = got \/ \E x \in Delivery, n \in {0, 1} : got' = [got EXCEPT ![x] = @ + n]
      PROVE  Goal
  <2>1. got'[d] >= got[d]
    BY <1>y, <1>1
  <2> QED
    BY Zenon, <1>g, <1>1, <2>1
<1>2. ASSUME NEW D \in SUBSET Delivery, Deleted(D), UNCHANGED got  PROVE Goal
  BY <1>y, <1>g, <1>2 DEF Deleted
<1>3. ASSUME NEW m, NEW E, Inserted(m, E), UNCHANGED <<attempts, got>>  PROVE Goal
  BY <1>y, <1>g, <1>3 DEF Inserted
<1>4. ASSUME NEW w \in Worker, NEW M, Claim(w, M)  PROVE Goal
  <2>1. PICK D \in SUBSET {x \in Delivery : x[1] \in M /\ Claimable(x)} :
          status' = [x \in Delivery |-> IF x \in D THEN "processing" ELSE status[x]]
    BY Zenon, <1>4 DEF Claim
  <2>2. UNCHANGED <<attempts, got>>
    BY Zenon, <1>4 DEF Claim
  <2>3. d \in D => status[d] \in {"pending", "processing"}
    BY Zenon, <2>1 DEF Claimable
  <2> QED
    BY <1>y, <1>g, <2>1, <2>2, <2>3
<1>5. ASSUME NEW w \in Worker, NEW x \in Delivery, mark_sent(w, x)  PROVE Goal
  <2>1. got[x] >= 1 /\ UNCHANGED <<attempts, got>>
    BY Zenon, <1>0, <1>5 DEF mark_sent, Bookkeeping
  <2>2. \/ UNCHANGED status
        \/ holder[x] = w /\ status' = [status EXCEPT ![x] = "sent"]
    BY Zenon, <1>5 DEF mark_sent, Holds
  <2>3. holder[x] = w => status[x] = "processing"
    BY Zenon, <1>y
  <2> QED
    BY <1>y, <1>g, <2>1, <2>2, <2>3
<1>6. ASSUME NEW w \in Worker, NEW x \in Delivery, mark_failed(w, x)  PROVE Goal
  <2>1. UNCHANGED got
    BY Zenon, <1>6 DEF mark_failed
  <2>2. \/ UNCHANGED <<status, attempts>>
        \/ /\ holder[x] = w
           /\ attempts' = [attempts EXCEPT ![x] = attempts[x] + 1]
           /\ status' = [status EXCEPT ![x] = IF attempts[x] + 1 >= MAX_ATTEMPTS
                                              THEN "dead" ELSE "waiting"]
    BY Zenon, <1>6 DEF mark_failed, Holds, Exhausted
  <2>3. CASE UNCHANGED <<status, attempts>>
    BY Zenon, <1>1, <2>1, <2>3
  <2>4. CASE /\ holder[x] = w
             /\ attempts' = [attempts EXCEPT ![x] = attempts[x] + 1]
             /\ status' = [status EXCEPT ![x] = IF attempts[x] + 1 >= MAX_ATTEMPTS
                                                THEN "dead" ELSE "waiting"]
    <3>1. status[x] = "processing"
      BY Zenon, <1>y, <2>4
    <3>2. attempts[x] \in 0..MAX_ATTEMPTS /\ attempts[x] # MAX_ATTEMPTS
      BY Zenon, <1>0, <1>y, <3>1 DEF GivesUpAtTheLimit
    <3>3. CASE x = d
      <4>1. attempts'[d] = attempts[d] + 1
            /\ status'[d] = IF attempts[d] + 1 >= MAX_ATTEMPTS THEN "dead" ELSE "waiting"
        BY Zenon, <1>y, <2>4, <3>3
      <4> QED
        BY <1>y, <2>1, <3>1, <3>2, <3>3, <4>1
    <3>4. CASE x # d
      <4>1. attempts'[d] = attempts[d] /\ status'[d] = status[d]
        BY Zenon, <1>y, <2>4, <3>4
      <4> QED
        BY <1>y, <1>g, <2>1, <4>1
    <3> QED
      BY Zenon, <3>3, <3>4
  <2> QED
    BY Zenon, <2>2, <2>3, <2>4
<1>7. ASSUME NEW x \in Delivery, Due(x)  PROVE Goal
  BY <1>y, <1>g, <1>7 DEF Due
<1>8. ASSUME Request  PROVE Goal
  <2>1. ASSUME NEW i \in Identity, NEW e \in Endpoint, unsubscribe(i, e)  PROVE Goal
    <3>1. Deleted({x \in Delivery : x[2] = e}) /\ UNCHANGED got
      BY Zenon, <2>1 DEF unsubscribe
    <3> QED
      BY Zenon, <1>2, <3>1
  <2>2. ASSUME NEW m \in Alert, enqueue_push_deliveries(m)  PROVE Goal
    BY Zenon, <1>3, <2>2 DEF enqueue_push_deliveries
  <2>3. ASSUME NEW m \in Chat, inbox_enqueue(m)  PROVE Goal
    BY Zenon, <1>3, <2>3 DEF inbox_enqueue
  <2>4. \/ UNCHANGED <<status, attempts, got>>
        \/ \E i \in Identity, e \in Endpoint : unsubscribe(i, e)
        \/ \E m \in Alert : enqueue_push_deliveries(m)
        \/ \E m \in Chat : inbox_enqueue(m)
    BY Zenon, <1>8 DEF Request, subscribe, put_preferences, inbox_webhook, outbox
  <2> QED
    BY Zenon, <1>1, <2>1, <2>2, <2>3, <2>4
<1>9. ASSUME NEW x \in Delivery, Purge(x)  PROVE Goal
  <2>1. Deleted({x}) /\ UNCHANGED got
    BY Zenon, <1>9 DEF Purge
  <2> QED
    BY Zenon, <1>2, <2>1
<1>10. ASSUME NEW w \in Worker, NEW x \in Delivery,
              SendAccepted(w, x) \/ SendRefused(w, x) \/ SendUnclear(w, x)
       PROVE  Goal
  <2>1. UNCHANGED <<status, attempts>>
    BY Zenon, <1>10 DEF SendAccepted, SendRefused, SendUnclear, outbox
  <2>2. got' = got \/ \E n \in {0, 1} : got' = [got EXCEPT ![x] = @ + n]
    BY Zenon, <1>10 DEF SendAccepted, SendRefused, SendUnclear
  <2> QED
    BY Zenon, <1>1, <2>1, <2>2
<1>11. CASE UNCHANGED <<status, attempts, got>>
  BY Zenon, <1>1, <1>11
<1>12. \/ UNCHANGED <<status, attempts, got>>
       \/ Request
       \/ \E w \in Worker : Claim(w, Alert) \/ Claim(w, Chat)
       \/ \E w \in Worker, x \in Delivery :
            \/ mark_sent(w, x) \/ mark_failed(w, x)
            \/ SendAccepted(w, x) \/ SendRefused(w, x) \/ SendUnclear(w, x)
       \/ \E x \in Delivery : Due(x) \/ Purge(x)
  BY Zenon DEF Next, vars, outbox, Work, TimePasses, Trouble, WebhookFails, Crash, MarkFails,
         LeaseEnds, LeaseEndsEarly
<1> QED
  BY Zenon, <1>4, <1>5, <1>6, <1>7, <1>8, <1>9, <1>10, <1>11, <1>12

\* The bookkeeping is kept: an endpoint changes hands only after its rows are
\* gone, and a message is enqueued once.
LEMMA BookkeepingStep ==
  ASSUME Core, [Next]_vars
  PROVE  Bookkeeping'
<1> USE OutboxAssumption
<1>0. TypeOK /\ Bookkeeping
  BY Zenon DEF Core
<1>y. /\ owner \in [Endpoint -> Identity \cup {None}] /\ got \in [Delivery -> Nat]
      /\ hook \subseteq receipts /\ queued \subseteq Message
      /\ status \in [Delivery -> {"none", "pending", "waiting", "processing", "sent", "dead"}]
      /\ job \in [Worker -> [Delivery -> {"none", "sending", "accepted", "refused"}]]
  BY Zenon, <1>0 DEF TypeOK
<1>d. \A d \in Delivery : d[1] \in Message /\ d[2] \in Endpoint
  BY Zenon DEF Delivery
<1>g. \A d \in Delivery : got'[d] >= got[d] /\ got'[d] \in Nat
  <2>1. TypeOK'
    BY Zenon, TypeStep
  <2> QED
    BY Zenon, <2>1, RowFrame DEF TypeOK
<1> DEFINE
  Taken == \A w \in Worker, d \in Delivery : job[w][d] = "accepted" => got[d] >= 1
  Owned == \A d \in Delivery : status[d] # "none" =>
             d[1] \in queued /\ to[d] = owner[d[2]] /\ owner[d[2]] # None
  Once == \A m \in Chat : (m \in queued => m \in receipts) /\ (m \in hook => m \notin queued)
<1>h. Taken /\ Owned /\ Once
  BY Zenon, <1>0 DEF Bookkeeping
<1>t. Taken'
  <2>1. CASE UNCHANGED job
    BY <1>y, <1>g, <1>h, <2>1
  <2>2. ASSUME NEW w \in Worker, NEW x \in Delivery,
               \E r \in {"none", "refused"} : job' = [job EXCEPT ![w][x] = r]
        PROVE  Taken'
    <3>1. \A v \in Worker, d \in Delivery : job'[v][d] = "accepted" => job[v][d] = "accepted"
      BY <1>y, <2>2
    <3> QED
      BY <1>y, <1>g, <1>h, <3>1
  <2>3. ASSUME NEW w \in Worker, NEW x \in Delivery, SendAccepted(w, x)
        PROVE  Taken'
    <3>1. \A v \in Worker, d \in Delivery :
            job'[v][d] = "accepted" => job[v][d] = "accepted" \/ d = x
      BY Zenon, <1>y, <2>3 DEF SendAccepted
    <3>2. got'[x] >= 1
      BY <1>y, <2>3 DEF SendAccepted
    <3> QED
      BY <1>y, <1>g, <1>h, <3>1, <3>2
  <2>4. ASSUME NEW w \in Worker, NEW M, Claim(w, M)  PROVE Taken'
    <3>1. PICK D \in SUBSET Delivery :
            job' = [job EXCEPT ![w] = [d \in Delivery |-> IF d \in D THEN "sending" ELSE job[w][d]]]
      BY Zenon, <2>4 DEF Claim
    <3>2. \A v \in Worker, d \in Delivery : job'[v][d] = "accepted" => job[v][d] = "accepted"
      BY Zenon, <1>y, <3>1
    <3> QED
      BY <1>y, <1>g, <1>h, <3>2
  <2>5. ASSUME NEW w \in Worker, Crash(w)  PROVE Taken'
    <3>1. \A v \in Worker, d \in Delivery : job'[v][d] = "accepted" => job[v][d] = "accepted"
      BY Zenon, <1>y, <2>5 DEF Crash
    <3> QED
      BY <1>y, <1>g, <1>h, <3>1
  <2>6. \/ UNCHANGED job
        \/ \E w \in Worker : Claim(w, Alert) \/ Claim(w, Chat) \/ Crash(w)
        \/ \E w \in Worker, x \in Delivery :
             \/ SendAccepted(w, x)
             \/ \E r \in {"none", "refused"} : job' = [job EXCEPT ![w][x] = r]
    BY Zenon DEF Next, vars, Request, Work, TimePasses, Trouble, subscribe, unsubscribe, put_preferences,
           enqueue_push_deliveries, inbox_webhook, inbox_enqueue, WebhookFails,
           SendRefused, SendUnclear, TimeoutOutcome, mark_sent, mark_failed, MarkFails,
           Due, LeaseEnds, LeaseEndsEarly, Purge
  <2> QED
    BY Zenon, <2>1, <2>2, <2>3, <2>4, <2>5, <2>6
<1>x. ASSUME NEW D \in SUBSET Delivery, Deleted(D), UNCHANGED <<owner, queued>>
      PROVE  Owned'
  BY Zenon, <1>h, <1>x DEF Deleted
<1>n. ASSUME NEW m, NEW E, E \subseteq {e \in Endpoint : owner[e] # None}, Inserted(m, E),
             UNCHANGED owner
      PROVE  Owned'
  BY Zenon, <1>h, <1>n DEF Inserted
<1>1. ASSUME NEW i \in Identity, NEW e \in Endpoint, subscribe(i, e)  PROVE Owned' /\ Once'
  <2>1. \A d \in Delivery : status[d] # "none" => owner'[d[2]] = owner[d[2]]
    BY Zenon, <1>y, <1>d, <1>h, <1>1 DEF subscribe, MayUpsert
  <2> QED
    BY Zenon, <1>h, <1>1, <2>1 DEF subscribe, outbox
<1>2. ASSUME NEW i \in Identity, NEW e \in Endpoint, unsubscribe(i, e)  PROVE Owned' /\ Once'
  <2>1. \A d \in Delivery : d[2] # e => owner'[d[2]] = owner[d[2]]
    BY Zenon, <1>y, <1>d, <1>2 DEF unsubscribe
  <2>2. \A d \in Delivery : status'[d] # "none" => d[2] # e /\ status[d] # "none" /\ to'[d] = to[d]
    BY Zenon, <1>2 DEF unsubscribe, Deleted
  <2> QED
    BY Zenon, <1>h, <1>2, <2>1, <2>2 DEF unsubscribe
<1>3. ASSUME NEW m \in Alert, enqueue_push_deliveries(m)  PROVE Owned' /\ Once'
  <2>1. PICK E \in SUBSET {e \in Endpoint : owner[e] # None} : Inserted(m, E)
    BY Zenon, <1>3 DEF enqueue_push_deliveries
  <2>2. Owned'
    BY Zenon, <1>3, <1>n, <2>1 DEF enqueue_push_deliveries
  <2>3. Once'
    BY Zenon, <1>h, <1>3, <2>1 DEF enqueue_push_deliveries, Inserted
  <2> QED
    BY Zenon, <2>2, <2>3
<1>4. ASSUME NEW m \in Chat, inbox_webhook(m)  PROVE Owned' /\ Once'
  BY Zenon, <1>h, <1>4 DEF inbox_webhook, FirstReceipt, outbox
<1>5. ASSUME NEW m \in Chat, inbox_enqueue(m)  PROVE Owned' /\ Once'
  <2> DEFINE E == {e \in Endpoint : owner[e] = Recipient[m] /\ owner[e] \notin muted}
  <2>1. E \subseteq {e \in Endpoint : owner[e] # None} /\ Inserted(m, E)
    BY <1>5 DEF inbox_enqueue
  <2> HIDE DEF E
  <2>2. Owned'
    BY Zenon, <1>5, <1>n, <2>1 DEF inbox_enqueue
  <2>3. Once'
    BY <1>h, <1>y, <1>5, <2>1 DEF inbox_enqueue, Inserted
  <2> QED
    BY Zenon, <2>2, <2>3
<1>6. ASSUME NEW d \in Delivery, Purge(d)  PROVE Owned' /\ Once'
  <2>1. Deleted({d}) /\ UNCHANGED <<owner, queued, receipts, hook>>
    BY Zenon, <1>6 DEF Purge, requests
  <2> QED
    BY Zenon, <1>h, <1>x, <2>1
<1>7. ASSUME NEW w \in Worker, NEW M, Claim(w, M)  PROVE Owned' /\ Once'
  <2>1. PICK D \in SUBSET {x \in Delivery : x[1] \in M /\ Claimable(x)} :
          status' = [x \in Delivery |-> IF x \in D THEN "processing" ELSE status[x]]
    BY Zenon, <1>7 DEF Claim
  <2>2. UNCHANGED <<owner, queued, receipts, hook, to>>
    BY Zenon, <1>7 DEF Claim, requests
  <2>3. \A d \in Delivery : status'[d] # "none" => status[d] # "none"
    BY Zenon, <2>1 DEF Claimable
  <2> QED
    BY Zenon, <1>h, <2>2, <2>3
<1>8. ASSUME NEW w \in Worker, NEW d \in Delivery, mark_sent(w, d) \/ mark_failed(w, d)
      PROVE  Owned' /\ Once'
  <2>1. UNCHANGED <<owner, queued, receipts, hook, to>>
    BY Zenon, <1>8 DEF mark_sent, mark_failed, requests
  <2>2. UNCHANGED status \/ (holder[d] = w /\ \E r \in {"sent", "dead", "waiting"} :
                                status' = [status EXCEPT ![d] = r])
    BY Zenon, <1>8 DEF mark_sent, mark_failed, Holds
  <2>3. holder[d] = w => status[d] # "none"
    BY Zenon, <1>0 DEF TypeOK
  <2>4. \A x \in Delivery : status'[x] # "none" => status[x] # "none"
    BY Zenon, <1>y, <2>2, <2>3
  <2> QED
    BY Zenon, <1>h, <2>1, <2>4
<1>9. ASSUME NEW d \in Delivery, Due(d)  PROVE Owned' /\ Once'
  BY Zenon, <1>y, <1>h, <1>9 DEF Due, requests
<1>10. ASSUME NEW m \in Chat, WebhookFails(m)  PROVE Owned' /\ Once'
  BY Zenon, <1>h, <1>10 DEF WebhookFails, outbox
<1>11. ASSUME UNCHANGED <<owner, queued, receipts, hook, status, to>>  PROVE Owned' /\ Once'
  BY Zenon, <1>h, <1>11
<1>12. \/ UNCHANGED <<owner, queued, receipts, hook, status, to>>
       \/ \E i \in Identity, e \in Endpoint : subscribe(i, e) \/ unsubscribe(i, e)
       \/ \E m \in Alert : enqueue_push_deliveries(m)
       \/ \E m \in Chat : inbox_webhook(m) \/ inbox_enqueue(m) \/ WebhookFails(m)
       \/ \E w \in Worker : Claim(w, Alert) \/ Claim(w, Chat)
       \/ \E w \in Worker, d \in Delivery : mark_sent(w, d) \/ mark_failed(w, d)
       \/ \E d \in Delivery : Due(d) \/ Purge(d)
  BY SMTT(30) DEF Next, vars, requests, outbox, Request, Work, TimePasses, Trouble, put_preferences,
         SendAccepted, SendRefused, SendUnclear, MarkFails, Crash, LeaseEnds, LeaseEndsEarly
<1>13. Owned' /\ Once'
  BY Zenon, <1>1, <1>2, <1>3, <1>4, <1>5, <1>6, <1>7, <1>8, <1>9, <1>10, <1>11, <1>12
<1> QED
  BY Zenon, <1>t, <1>13 DEF Bookkeeping

-----------------------------------------------------------------------------
\* A row that some worker may still send although nothing goes wrong: it is to
\* be inserted, it waits, its lease ended, or its worker is done with it and has
\* not written "sent".
Open(d) ==
  \/ status[d] = "none" /\ d[1] \notin queued
  \/ status[d] \in {"pending", "waiting"}
  \/ /\ status[d] = "processing"
     /\ d \in stale \/ \A w \in Worker : holder[d] = w => job[w][d] \in {"none", "refused"}

Sending(d) == {w \in Worker : job[w][d] = "sending"}

Unpaid(d) == IF Open(d) THEN 1 ELSE 0

\* Pushes taken, pushes on their way and pushes still to come are paid for by
\* the one that is wanted and by faults.
Budget == \A d \in Delivery : got[d] + Cardinality(Sending(d)) + Unpaid(d) <= 1 + faults

\* Sending sets are finite, and how one of them may change.
LEMMA SendingCount ==
  ASSUME TypeOK, NEW d \in Delivery
  PROVE  /\ IsFiniteSet(Sending(d)) /\ IsFiniteSet(Sending(d)')
         /\ Cardinality(Sending(d)) \in Nat /\ Cardinality(Sending(d)') \in Nat
         /\ Sending(d)' \subseteq Sending(d) => Cardinality(Sending(d)') <= Cardinality(Sending(d))
         /\ \A w \in Worker : /\ w \in Sending(d) /\ Sending(d)' \subseteq Sending(d) \ {w} =>
                                   Cardinality(Sending(d)') + 1 <= Cardinality(Sending(d))
                              /\ Sending(d)' \subseteq Sending(d) \cup {w} =>
                                   Cardinality(Sending(d)') <= Cardinality(Sending(d)) + 1
<1> DEFINE S == Sending(d)
           T == Sending(d)'
<1>1. S \in SUBSET Worker /\ T \in SUBSET Worker
  BY Zenon DEF Sending
<1> HIDE DEF S, T
<1>2. IsFiniteSet(S) /\ IsFiniteSet(T)
  BY Zenon, <1>1, FS_Subset, OutboxAssumption
<1>3. Cardinality(S) \in Nat /\ Cardinality(T) \in Nat
  BY Zenon, <1>2, FS_CardinalityType
<1>4. T \subseteq S => Cardinality(T) <= Cardinality(S)
  BY Zenon, <1>2, FS_Subset
<1>5. ASSUME NEW w \in Worker, w \in S, T \subseteq S \ {w}
      PROVE  Cardinality(T) + 1 <= Cardinality(S)
  <2>1. IsFiniteSet(S \ {w}) /\ Cardinality(S \ {w}) = Cardinality(S) - 1
    BY Zenon, <1>2, <1>5, FS_RemoveElement
  <2>2. Cardinality(T) <= Cardinality(S \ {w})
    BY Zenon, <1>5, <2>1, FS_Subset
  <2> QED
    BY <1>3, <2>1, <2>2
<1>6. ASSUME NEW w \in Worker, T \subseteq S \cup {w}
      PROVE  Cardinality(T) <= Cardinality(S) + 1
  <2>1. IsFiniteSet(S \cup {w}) /\ (Cardinality(S \cup {w}) = Cardinality(S)
                                    \/ Cardinality(S \cup {w}) = Cardinality(S) + 1)
    BY Zenon, <1>2, FS_AddElement
  <2>2. Cardinality(T) <= Cardinality(S \cup {w})
    BY Zenon, <1>6, <2>1, FS_Subset
  <2>3. Cardinality(S \cup {w}) \in Nat
    BY Zenon, <2>1, FS_CardinalityType
  <2> QED
    BY <1>3, <2>1, <2>2, <2>3
<1> QED
  BY Zenon, <1>2, <1>3, <1>4, <1>5, <1>6 DEF S, T

\* No step of a request or a worker overdraws the budget, and a fault adds to it
\* what it takes.
LEMMA BudgetStep ==
  ASSUME Core, Budget, [Next]_vars
  PROVE  Budget'
<1> USE OutboxAssumption
<1>0. TypeOK /\ Bookkeeping
  BY Zenon DEF Core
<1> SUFFICES ASSUME NEW d \in Delivery
             PROVE  got'[d] + Cardinality(Sending(d)') + Unpaid(d)' <= 1 + faults'
  BY Zenon DEF Budget
<1> DEFINE n == Cardinality(Sending(d))
           nn == Cardinality(Sending(d)')
           Goal == got'[d] + nn + Unpaid(d)' <= 1 + faults'
<1>y. /\ status \in [Delivery -> {"none", "pending", "waiting", "processing", "sent", "dead"}]
      /\ job \in [Worker -> [Delivery -> {"none", "sending", "accepted", "refused"}]]
      /\ got \in [Delivery -> Nat] /\ faults \in Nat
      /\ holder \in [Delivery -> Worker \cup {None, Gone}]
      /\ \A x \in Delivery : holder[x] # None <=> status[x] = "processing"
  BY <1>0 DEF TypeOK
<1>b. status[d] # "none" => d[1] \in queued
  BY Zenon, <1>0 DEF Bookkeeping
<1>n. n \in Nat /\ nn \in Nat
  BY Zenon, <1>0, SendingCount
<1>u. /\ Unpaid(d) \in {0, 1} /\ Unpaid(d)' \in {0, 1}
      /\ Open(d) <=> Unpaid(d) = 1
      /\ Open(d)' <=> Unpaid(d)' = 1
  BY DEF Unpaid
<1>h. got[d] + n + Unpaid(d) <= 1 + faults /\ got[d] \in Nat /\ faults \in Nat
  BY Zenon, <1>y DEF Budget
<1> HIDE DEF n, nn
<1>q. ASSUME Sending(d)' \subseteq Sending(d), got'[d] = got[d], faults' = faults, Open(d)' => Open(d)
      PROVE  Goal
  <2>1. nn <= n
    BY Zenon, <1>0, <1>q, SendingCount DEF n, nn
  <2> QED
    BY <1>n, <1>u, <1>h, <1>q, <2>1
<1>f. ASSUME Sending(d)' \subseteq Sending(d), got'[d] = got[d], Fault
      PROVE  Goal
  <2>1. nn <= n
    BY Zenon, <1>0, <1>f, SendingCount DEF n, nn
  <2> QED
    BY <1>n, <1>u, <1>h, <1>f, <2>1 DEF Fault
<1>s. ASSUME NEW w \in Worker, job[w][d] = "sending", Sending(d)' \subseteq Sending(d) \ {w}
      PROVE  nn + 1 <= n
  <2>1. w \in Sending(d)
    BY Zenon, <1>s DEF Sending
  <2> QED
    BY Zenon, <1>0, <1>s, <2>1, SendingCount DEF n, nn
<1>j. UNCHANGED job => Sending(d)' \subseteq Sending(d)
  BY Zenon DEF Sending
<1>1. ASSUME UNCHANGED <<status, holder, stale, job, got, queued>>, UNCHANGED faults \/ Fault
      PROVE  Goal
  <2>1. Open(d)' => Open(d)
    BY Zenon, <1>1 DEF Open
  <2> QED
    BY Zenon, <1>1, <1>j, <1>q, <1>f, <2>1
<1>2. ASSUME NEW D \in SUBSET Delivery, Deleted(D), UNCHANGED <<job, got, queued, faults>>
      PROVE  Goal
  <2>1. Open(d)' => Open(d)
    BY Zenon, <1>b, <1>2 DEF Open, Deleted
  <2> QED
    BY Zenon, <1>2, <1>j, <1>q, <2>1
<1>3. ASSUME NEW m, NEW E, m \notin queued, Inserted(m, E), UNCHANGED <<job, got, holder, stale, faults>>
      PROVE  Goal
  <2>1. Open(d)' => Open(d)
    BY Zenon, <1>y, <1>3 DEF Open, Inserted
  <2> QED
    BY Zenon, <1>3, <1>j, <1>q, <2>1
<1>4. ASSUME NEW w \in Worker, NEW M, Claim(w, M)  PROVE Goal
  <2>1. PICK D \in SUBSET {x \in Delivery : x[1] \in M /\ Claimable(x)} :
          /\ status' = [x \in Delivery |-> IF x \in D THEN "processing" ELSE status[x]]
          /\ holder' = [x \in Delivery |-> IF x \in D THEN w ELSE holder[x]]
          /\ stale' = stale \ D
          /\ job' = [job EXCEPT ![w] = [x \in Delivery |-> IF x \in D THEN "sending" ELSE job[w][x]]]
    BY Zenon, <1>4 DEF Claim
  <2>2. UNCHANGED <<got, queued, faults>>
    BY Zenon, <1>4 DEF Claim, requests
  <2>3. CASE d \in D
    <3>1. Open(d)
      BY Zenon, <2>3 DEF Claimable, Open
    <3>2. status'[d] = "processing" /\ d \notin stale' /\ holder'[d] = w /\ job'[w][d] = "sending"
      BY Zenon, <1>y, <2>1, <2>3
    <3>3. ~Open(d)'
      BY Zenon, <3>2 DEF Open
    <3>4. Sending(d)' \subseteq Sending(d) \cup {w}
      BY Zenon, <1>y, <2>1 DEF Sending
    <3>5. nn <= n + 1
      BY Zenon, <1>0, <3>4, SendingCount DEF n, nn
    <3> QED
      BY <1>n, <1>u, <1>h, <2>2, <3>1, <3>3, <3>5
  <2>4. CASE d \notin D
    <3>1. /\ status'[d] = status[d] /\ holder'[d] = holder[d] /\ (d \in stale' <=> d \in stale)
          /\ \A v \in Worker : job'[v][d] = job[v][d]
      BY Zenon, <1>y, <2>1, <2>4
    <3>2. (Open(d)' => Open(d)) /\ Sending(d)' \subseteq Sending(d)
      BY Zenon, <2>2, <3>1 DEF Open, Sending
    <3> QED
      BY Zenon, <1>q, <2>2, <3>2
  <2> QED
    BY Zenon, <2>3, <2>4
<1>5. ASSUME NEW w \in Worker, NEW x \in Delivery,
             SendAccepted(w, x) \/ SendRefused(w, x) \/ SendUnclear(w, x)
      PROVE  Goal
  <2>1. job[w][x] = "sending" /\ \E r \in {"accepted", "refused"} : job' = [job EXCEPT ![w][x] = r]
    BY Zenon, <1>5 DEF SendAccepted, SendRefused, SendUnclear, TimeoutOutcome
  <2>2. UNCHANGED <<status, holder, stale, queued>>
    BY Zenon, <1>5 DEF SendAccepted, SendRefused, SendUnclear, outbox, requests
  <2>3. CASE x # d
    <3>1. \A v \in Worker : job'[v][d] = job[v][d]
      BY <1>y, <2>1, <2>3
    <3>2. (Open(d)' => Open(d)) /\ Sending(d)' \subseteq Sending(d)
      BY Zenon, <2>2, <3>1 DEF Open, Sending
    <3>3. got'[d] = got[d] /\ (faults' = faults \/ Fault)
      BY Zenon, <1>y, <1>5, <2>3 DEF SendAccepted, SendRefused, SendUnclear
    <3> QED
      BY Zenon, <1>q, <1>f, <3>2, <3>3
  <2>4. CASE x = d
    <3>1. Sending(d)' \subseteq Sending(d) \ {w}
      BY <1>y, <2>1, <2>4 DEF Sending
    <3>2. nn + 1 <= n
      BY Zenon, <1>s, <2>1, <2>4, <3>1
    <3>3. CASE SendAccepted(w, x)
      <4>1. \A v \in Worker : /\ v # w => job'[v][d] = job[v][d]
                              /\ job'[w][d] = "accepted"
        BY Zenon, <1>y, <2>4, <3>3 DEF SendAccepted
      <4>2. Open(d)' => Open(d)
        BY Zenon, <2>2, <4>1 DEF Open
      <4>3. got'[d] = got[d] + 1 /\ faults' = faults
        BY Zenon, <1>y, <2>4, <3>3 DEF SendAccepted
      <4> QED
        BY <1>n, <1>u, <1>h, <3>2, <4>2, <4>3
    <3>4. CASE SendRefused(w, x)
      <4>1. got'[d] = got[d] /\ faults' = faults
        BY Zenon, <3>4 DEF SendRefused
      <4> QED
        BY <1>n, <1>u, <1>h, <3>2, <4>1
    <3>5. CASE SendUnclear(w, x)
      <4>1. got'[d] \in Nat /\ got'[d] <= got[d] + 1
        BY <1>y, <2>4, <3>5 DEF SendUnclear
      <4>2. faults' = faults + 1
        BY Zenon, <3>5 DEF SendUnclear, Fault
      <4> QED
        BY <1>n, <1>u, <1>h, <3>2, <4>1, <4>2
    <3> QED
      BY Zenon, <1>5, <3>3, <3>4, <3>5
  <2> QED
    BY Zenon, <2>3, <2>4
<1>6. ASSUME NEW w \in Worker, NEW x \in Delivery, mark_sent(w, x) \/ mark_failed(w, x)
      PROVE  Goal
  <2>1. job[w][x] \in {"accepted", "refused"} /\ job' = [job EXCEPT ![w][x] = "none"]
    BY Zenon, <1>6 DEF mark_sent, mark_failed
  <2>2. Sending(d)' \subseteq Sending(d)
    BY Zenon, <1>y, <2>1 DEF Sending
  <2>3. UNCHANGED <<got, queued, faults>>
    BY Zenon, <1>6 DEF mark_sent, mark_failed, requests
  <2>4. CASE x # d \/ holder[d] # w
    <3>1. /\ status'[d] = status[d] /\ holder'[d] = holder[d] /\ (d \in stale' <=> d \in stale)
      BY <1>y, <1>6, <2>4 DEF mark_sent, mark_failed, Holds
    <3>2. \A v \in Worker : holder[d] = v => job'[v][d] = job[v][d]
      BY Zenon, <1>y, <2>1, <2>4
    <3>3. Open(d)' => Open(d)
      BY Zenon, <2>3, <3>1, <3>2 DEF Open
    <3> QED
      BY Zenon, <1>q, <2>2, <2>3, <3>3
  <2>5. CASE x = d /\ holder[d] = w
    <3>1. holder[d] # None /\ status[d] = "processing"
      BY Zenon, <1>y, <2>5
    <3>2. CASE mark_sent(w, x)
      <4>1. status'[d] = "sent"
        BY Zenon, <1>y, <2>5, <3>2 DEF mark_sent, Holds
      <4>2. ~Open(d)'
        BY Zenon, <4>1 DEF Open
      <4> QED
        BY Zenon, <1>q, <2>2, <2>3, <4>2
    <3>3. CASE mark_failed(w, x)
      <4>1. Open(d)
        BY Zenon, <2>5, <3>1, <3>3 DEF Open, mark_failed
      <4> QED
        BY Zenon, <1>q, <2>2, <2>3, <4>1
    <3> QED
      BY Zenon, <1>6, <3>2, <3>3
  <2> QED
    BY Zenon, <2>4, <2>5
<1>7. ASSUME NEW w \in Worker, NEW x \in Delivery, MarkFails(w, x)  PROVE Goal
  <2>1. Sending(d)' \subseteq Sending(d)
    BY Zenon, <1>y, <1>7 DEF Sending, MarkFails
  <2> QED
    BY Zenon, <1>7, <1>f, <2>1 DEF MarkFails
<1>8. ASSUME NEW w \in Worker, Crash(w)  PROVE Goal
  <2>1. Sending(d)' \subseteq Sending(d)
    BY Zenon, <1>y, <1>8 DEF Sending, Crash
  <2> QED
    BY Zenon, <1>8, <1>f, <2>1 DEF Crash
<1>9. ASSUME NEW x \in Delivery, Due(x)  PROVE Goal
  <2>1. Open(d)' => Open(d)
    BY Zenon, <1>y, <1>9 DEF Due, Open, requests
  <2> QED
    BY Zenon, <1>9, <1>j, <1>q, <2>1 DEF Due
<1>10. ASSUME NEW x \in Delivery, LeaseEnds(x)  PROVE Goal
  <2>1. Open(d)' => Open(d)
    BY Zenon, <1>10 DEF LeaseEnds, Abandoned, Open, requests
  <2> QED
    BY Zenon, <1>10, <1>j, <1>q, <2>1 DEF LeaseEnds
<1>11. ASSUME NEW x \in Delivery, LeaseEndsEarly(x)  PROVE Goal
  BY Zenon, <1>11, <1>j, <1>f DEF LeaseEndsEarly
<1>12. ASSUME NEW m, m \in Message, enqueue_push_deliveries(m) \/ (m \in Chat /\ inbox_enqueue(m))
       PROVE  Goal
  <2>1. m \notin queued
    BY Zenon, <1>0, <1>12 DEF enqueue_push_deliveries, inbox_enqueue, Bookkeeping
  <2>2. /\ \E E : Inserted(m, E)
        /\ UNCHANGED <<job, got, holder, stale, faults>>
    BY Zenon, <1>12 DEF enqueue_push_deliveries, inbox_enqueue
  <2> QED
    BY Zenon, <1>3, <2>1, <2>2
<1>13. \/ UNCHANGED <<status, holder, stale, job, got, queued>> /\ (UNCHANGED faults \/ Fault)
       \/ (\E D \in SUBSET Delivery : Deleted(D)) /\ UNCHANGED <<job, got, queued, faults>>
       \/ \E m \in Alert : enqueue_push_deliveries(m)
       \/ \E m \in Chat : inbox_enqueue(m)
       \/ \E w \in Worker : Claim(w, Alert) \/ Claim(w, Chat) \/ Crash(w)
       \/ \E w \in Worker, x \in Delivery :
            \/ SendAccepted(w, x) \/ SendRefused(w, x) \/ SendUnclear(w, x)
            \/ mark_sent(w, x) \/ mark_failed(w, x) \/ MarkFails(w, x)
       \/ \E x \in Delivery : Due(x) \/ LeaseEnds(x) \/ LeaseEndsEarly(x)
  BY Zenon DEF Next, vars, requests, outbox, Request, Work, TimePasses, Trouble, subscribe, unsubscribe,
         put_preferences, inbox_webhook, WebhookFails, Purge
<1>14. Goal
  BY Zenon, <1>1, <1>2, <1>4, <1>5, <1>6, <1>7, <1>8, <1>9, <1>10, <1>11, <1>12, <1>13 DEF Message
<1> QED
  BY Zenon, <1>14 DEF nn

-----------------------------------------------------------------------------
\* The inductive invariant holds throughout.
THEOREM Invariance == Spec => [](Core /\ Budget)
<1> USE OutboxAssumption
<1>1. Init => Core /\ Budget
  <2> SUFFICES ASSUME Init  PROVE Core /\ Budget
    BY Zenon
  <2>1. Core
    BY DEF Init, Core, TypeOK, Bookkeeping, SentWasTaken, GivesUpAtTheLimit
  <2>2. ASSUME NEW d \in Delivery
        PROVE  got[d] + Cardinality(Sending(d)) + Unpaid(d) <= 1 + faults
    <3>1. Sending(d) = {}
      BY Zenon DEF Sending, Init
    <3>2. Cardinality(Sending(d)) = 0 /\ Unpaid(d) \in {0, 1}
      BY Zenon, <3>1, FS_EmptySet DEF Unpaid
    <3>3. got[d] = 0 /\ faults = 0
      BY Zenon DEF Init
    <3> QED
      BY <3>2, <3>3
  <2> QED
    BY Zenon, <2>1, <2>2 DEF Budget
<1>2. Core /\ Budget /\ [Next]_vars => (Core /\ Budget)'
  <2> SUFFICES ASSUME Core, Budget, [Next]_vars  PROVE (Core /\ Budget)'
    BY Zenon
  <2>1. TypeOK' /\ Bookkeeping' /\ Budget'
    BY Zenon, TypeStep, BookkeepingStep, BudgetStep
  <2>2. SentWasTaken'
    <3>1. got \in [Delivery -> Nat] /\ got' \in [Delivery -> Nat] /\ SentWasTaken
      BY Zenon, <2>1 DEF Core, TypeOK
    <3> QED
      BY <3>1, RowFrame DEF SentWasTaken
  <2>3. GivesUpAtTheLimit'
    BY Zenon, RowFrame DEF GivesUpAtTheLimit
  <2> QED
    BY Zenon, <2>1, <2>2, <2>3 DEF Core
<1> QED
  BY <1>1, <1>2, PTL DEF Spec

\* The tables and the workers' batches keep their types, and exactly the rows
\* being processed have a worker.
THEOREM TypeCorrect == Spec => []TypeOK
<1>1. Core => TypeOK
  BY Zenon DEF Core
<1> QED
  BY <1>1, Invariance, PTL

\* mark_sent is only reached with a push the provider took.
THEOREM SentMeansTaken == Spec => []SentWasTaken
<1>1. Core => SentWasTaken
  BY Zenon DEF Core
<1> QED
  BY <1>1, Invariance, PTL

\* mark_failed gives a delivery up after MAX_ATTEMPTS failures, and not before.
THEOREM LimitedAttempts == Spec => []GivesUpAtTheLimit
<1>1. Core => GivesUpAtTheLimit
  BY Zenon DEF Core
<1> QED
  BY <1>1, Invariance, PTL

\* However subscriptions change hands, no row outlives the subscription it was
\* inserted for.
THEOREM DeliveriesFollowOwnership == Spec => []PushedToItsOwner
<1>1. Core => PushedToItsOwner
  BY Zenon DEF Core, Bookkeeping, PushedToItsOwner
<1> QED
  BY <1>1, Invariance, PTL

\* With any number of workers, a device gets a push again only for a fault.
THEOREM OncePerFault == Spec => []DuplicatesAreFaults
<1>1. Core /\ Budget => DuplicatesAreFaults
  <2> SUFFICES ASSUME Core, Budget, NEW d \in Delivery  PROVE got[d] <= 1 + faults
    BY Zenon DEF DuplicatesAreFaults
  <2>1. TypeOK
    BY Zenon DEF Core
  <2>2. got[d] \in Nat /\ faults \in Nat
    BY <2>1, OutboxAssumption DEF TypeOK
  <2>3. Cardinality(Sending(d)) \in Nat /\ Unpaid(d) \in {0, 1}
    BY Zenon, <2>1, SendingCount DEF Unpaid
  <2>4. got[d] + Cardinality(Sending(d)) + Unpaid(d) <= 1 + faults
    BY Zenon DEF Budget
  <2> QED
    BY <2>2, <2>3, <2>4
<1> QED
  BY <1>1, Invariance, PTL

\* No late mark_sent or mark_failed reopens a settled delivery.
THEOREM SettledForGood == Spec => SettledStays
<1> DEFINE Kept == \A d \in Delivery : status[d] \in {"sent", "dead"} => status'[d] \in {status[d], "none"}
<1>1. Core /\ [Next]_vars => [Kept]_vars
  BY Zenon, RowFrame
<1>2. Spec => [][Kept]_vars
  BY <1>1, Invariance, PTL DEF Spec
<1> QED
  BY Zenon, <1>2 DEF SettledStays

-----------------------------------------------------------------------------
(* The subscription of a browser *)

\* Until buttons overlap: nothing is on its way without a subscription, and a
\* disable is alone with its own DELETE, which has been taken when it goes on.
Alone(r) ==
  /\ runs = {r} /\ r.pref = NoPerimeter
  /\ wire \subseteq {[id |-> r.id, pref |-> NoPerimeter]}
  /\ r.at # "fetch" => wire = {}
  /\ r.at \in {"done", "unsubscribe"} => row = NoPerimeter
BrowserInv ==
  /\ runs \subseteq Run
  /\ \A r \in runs : r.at = "unsubscribe" => r.op = "disable"
  /\ \/ overlap
     \/ /\ ~subscribed => row = NoPerimeter /\ wire = {} /\ \A r \in runs : r.at = "ready"
        /\ \A r \in runs : r.op = "disable" => Alone(r)

\* A run is what it was but for the point it has reached.
LEMMA RunMoves ==
  ASSUME NEW r \in Run, NEW at \in {"ready", "sign", "fetch", "done", "unsubscribe"}
  PROVE  LET q == [r EXCEPT !.at = at]
         IN q \in Run /\ q.at = at /\ q.op = r.op /\ q.id = r.id /\ q.pref = r.pref
BY Zenon DEF Run

\* When a run moves on, the disable that is under way is that run.
LEMMA OnlyDisable ==
  ASSUME BrowserInv, ~overlap, NEW r \in runs, NEW q, q.op = r.op,
         NEW s \in (runs \ {r}) \cup {q}, s.op = "disable"
  PROVE  s = q /\ Alone(r)
<1>1. CASE s \in runs \ {r}
  BY Zenon, <1>1 DEF BrowserInv, Alone
<1>2. CASE s = q
  BY Zenon, <1>2 DEF BrowserInv
<1> QED BY Zenon, <1>1, <1>2

\* A button pressed while nothing is under way, or one that overlaps.
LEMMA RunStarts ==
  ASSUME BrowserInv, MaxRuns \in Nat, made \in 0 .. MaxRuns,
         NEW op \in {"enable", "disable"}, NEW pref \in Perimeter \cup {NoPerimeter},
         op = "disable" => pref = NoPerimeter,
         Starts(op, pref), UNCHANGED <<row, subscribed, wire>>
  PROVE  BrowserInv'
<1> DEFINE q == [id |-> made + 1, op |-> op, pref |-> pref, at |-> "ready"]
<1>1. made + 1 \in 1 .. MaxRuns
  BY SMT DEF Starts
<1>2. q \in Run
  BY Zenon, <1>1 DEF Run
<1>3. runs' = runs \cup {q}
  BY Zenon DEF Starts
<1>4. q.at = "ready" /\ q.op = op /\ q.pref = pref
  BY Zenon 
<1> HIDE DEF q
<1>5. runs' \subseteq Run /\ \A r \in runs' : r.at = "unsubscribe" => r.op = "disable"
  BY Zenon, <1>2, <1>3, <1>4 DEF BrowserInv
<1>6. overlap' \/ (~overlap /\ runs = {} /\ wire = {})
  BY Zenon DEF Starts
<1>7. ASSUME ~overlap, runs = {}, wire = {}
      PROVE  /\ ~subscribed' => row' = NoPerimeter /\ wire' = {} /\ \A r \in runs' : r.at = "ready"
             /\ \A r \in runs' : r.op = "disable" => Alone(r)'
  BY Zenon, <1>7, <1>3, <1>4 DEF BrowserInv, Alone
<1> QED BY Zenon, <1>5, <1>6, <1>7 DEF BrowserInv

\* A run ends; the row, the subscription and the requests stay.
LEMMA RunEnds ==
  ASSUME BrowserInv, NEW r \in runs, runs' = runs \ {r}, UNCHANGED <<row, subscribed, wire, overlap>>
  PROVE  BrowserInv'
<1>1. CASE overlap
  BY Zenon, <1>1 DEF BrowserInv
<1>2. CASE ~overlap
  <2>1. \A q \in runs' : q.op = "disable" => Alone(q)'
    BY Zenon, <1>2 DEF BrowserInv, Alone
  <2> QED BY Zenon, <2>1, <1>2 DEF BrowserInv
<1> QED BY Zenon, <1>1, <1>2

\* BrowserInv is inductive.
LEMMA BrowserStep ==
  BrowserInv /\ BrowserTypeOK /\ MaxRuns \in Nat /\ [BrowserNext]_browserVars => BrowserInv'
<1> SUFFICES ASSUME BrowserInv, BrowserTypeOK, MaxRuns \in Nat, [BrowserNext]_browserVars PROVE BrowserInv'
  BY Zenon
<1>t. runs \subseteq Run /\ made \in 0 .. MaxRuns /\ form \in Perimeter \cup {NoPerimeter}
  BY Zenon DEF BrowserTypeOK
<1>1. CASE reload
  <2>1. \A r \in runs' : r = [id |-> made + 1, op |-> "mount", pref |-> saved, at |-> "ready"]
    BY Zenon, <1>1 DEF reload
  <2>2. \A r \in runs' : r.op = "mount" /\ r.at = "ready"
    <3>1. ASSUME NEW r, r = [id |-> made + 1, op |-> "mount", pref |-> saved, at |-> "ready"]
          PROVE  r.op = "mount" /\ r.at = "ready"
      BY Zenon, <3>1
    <3> QED BY Zenon, <3>1, <2>1
  <2>3. runs' \subseteq Run
    <3>1. ASSUME NEW r \in runs' PROVE made + 1 \in 1 .. MaxRuns
      <4>1. made # MaxRuns BY Zenon, <1>1, <3>1 DEF reload
      <4> QED BY SMT, <4>1, <1>t
    <3>2. ASSUME NEW r \in runs' PROVE r \in Run
      <4>1. made + 1 \in 1 .. MaxRuns /\ saved \in Perimeter \cup {NoPerimeter}
        BY Zenon, <3>1, <3>2 DEF BrowserTypeOK
      <4>2. [id |-> made + 1, op |-> "mount", pref |-> saved, at |-> "ready"] \in Run
        BY Zenon, <4>1 DEF Run
      <4> QED BY Zenon, <4>2, <2>1, <3>2
    <3> QED BY Zenon, <3>2
  <2> QED BY Zenon, <1>1, <2>2, <2>3 DEF BrowserInv, reload
<1>2. CASE enable
  BY Zenon, <1>2, <1>t, RunStarts DEF enable
<1>3. CASE disable
  BY Zenon, <1>3, <1>t, RunStarts DEF disable
<1>4. ASSUME NEW p \in Perimeter, locate(p) PROVE BrowserInv'
  BY Zenon, <1>4 DEF locate, BrowserInv, Alone
<1>5. ASSUME NEW r \in runs, refused(r) \/ throws(r) \/ mountAnswered(r) \/ enableAnswered(r)
      PROVE  BrowserInv'
  BY Zenon, <1>5, RunEnds DEF refused, throws, mountAnswered, enableAnswered, Ends
<1>6. ASSUME NEW r \in runs, getSubscription(r) PROVE BrowserInv'
  <2>1. CASE ~subscribed'
    <3>1. subscribed' = subscribed
      <4>1. subscribed \in BOOLEAN /\ subscribed' = (subscribed \/ r.op = "enable")
        BY Zenon, <1>6 DEF getSubscription, BrowserTypeOK
      <4> QED BY Zenon, <4>1, <2>1
    <3> QED BY Zenon, <2>1, <3>1, <1>6, RunEnds DEF getSubscription, Ends
  <2>2. CASE subscribed'
    <3> DEFINE q == [r EXCEPT !.at = "sign"]
    <3>1. q \in Run /\ q.at = "sign" /\ q.op = r.op /\ q.pref = r.pref /\ q.id = r.id
      BY Zenon, <1>t, RunMoves
    <3>2. runs' = (runs \ {r}) \cup {q} /\ UNCHANGED <<row, wire, overlap>> /\ r.at = "ready"
      BY Zenon, <2>2, <1>6 DEF getSubscription, Moves
    <3> HIDE DEF q
    <3>3. runs' \subseteq Run /\ \A s \in runs' : s.at = "unsubscribe" => s.op = "disable"
      BY Zenon, <3>1, <3>2 DEF BrowserInv
    <3>4. ASSUME ~overlap, NEW s \in runs', s.op = "disable" PROVE Alone(s)'
      <4>1. s = q /\ Alone(r)
        BY Zenon, OnlyDisable, <3>1, <3>2, <3>4
      <4> QED BY Zenon, <4>1, <3>1, <3>2 DEF Alone
    <3> QED BY Zenon, <3>2, <3>3, <3>4, <2>2 DEF BrowserInv
  <2> QED BY Zenon, <2>1, <2>2
<1>7. ASSUME NEW r \in runs, request(r) PROVE BrowserInv'
  <2> DEFINE q == [r EXCEPT !.at = "fetch"]
  <2>1. q \in Run /\ q.at = "fetch" /\ q.op = r.op /\ q.pref = r.pref /\ q.id = r.id
    BY Zenon, <1>t, RunMoves
  <2>2. /\ runs' = (runs \ {r}) \cup {q} /\ UNCHANGED <<row, subscribed, overlap>> /\ r.at = "sign"
        /\ wire' = wire \cup {[id |-> r.id, pref |-> r.pref]}
    BY Zenon, <1>7 DEF request, Moves
  <2> HIDE DEF q
  <2>3. runs' \subseteq Run /\ \A s \in runs' : s.at = "unsubscribe" => s.op = "disable"
    BY Zenon, <2>1, <2>2 DEF BrowserInv
  <2>4. ASSUME ~overlap, NEW s \in runs', s.op = "disable" PROVE Alone(s)'
    <3>1. s = q /\ Alone(r)
      BY Zenon, OnlyDisable, <2>1, <2>2, <2>4
    <3>2. wire = {} BY Zenon, <3>1, <2>2 DEF Alone
    <3> QED BY Zenon, <3>1, <3>2, <2>1, <2>2 DEF Alone
  <2>5. ~overlap => subscribed
    BY Zenon, <2>2 DEF BrowserInv
  <2> QED BY Zenon, <2>2, <2>3, <2>4, <2>5 DEF BrowserInv
<1>8. ASSUME NEW r \in runs, deleted(r) PROVE BrowserInv'
  <2> DEFINE q == [r EXCEPT !.at = "unsubscribe"]
  <2>1. q \in Run /\ q.at = "unsubscribe" /\ q.op = r.op /\ q.pref = r.pref /\ q.id = r.id
    BY Zenon, <1>t, RunMoves
  <2>2. /\ runs' = (runs \ {r}) \cup {q} /\ UNCHANGED <<row, subscribed, wire, overlap>>
        /\ r.at = "done" /\ r.op = "disable"
    BY Zenon, <1>8 DEF deleted, Moves
  <2> HIDE DEF q
  <2>3. runs' \subseteq Run /\ \A s \in runs' : s.at = "unsubscribe" => s.op = "disable"
    BY Zenon, <2>1, <2>2 DEF BrowserInv
  <2>4. ASSUME ~overlap, NEW s \in runs', s.op = "disable" PROVE Alone(s)'
    BY Zenon, <2>1, <2>2, <2>4 DEF BrowserInv, Alone
  <2>5. ~overlap => subscribed
    BY Zenon, <2>2 DEF BrowserInv
  <2> QED BY Zenon, <2>2, <2>3, <2>4, <2>5 DEF BrowserInv
<1>9. ASSUME NEW r \in runs, unsubscribed(r) PROVE BrowserInv'
  <2>1. runs' = runs \ {r} /\ UNCHANGED <<row, wire, overlap>> /\ r.at = "unsubscribe"
    BY Zenon, <1>9 DEF unsubscribed, Ends
  <2>2. ~overlap => Alone(r)
    BY Zenon, <2>1 DEF BrowserInv
  <2> QED BY Zenon, <2>1, <2>2 DEF BrowserInv, Alone
<1>10. ASSUME NEW w \in wire, Reaches(w) PROVE BrowserInv'
  <2>1. /\ wire' = wire \ {w} /\ row' = w.pref /\ UNCHANGED <<subscribed, overlap>>
        /\ runs' = {IF r.id = w.id /\ r.at = "fetch" THEN [r EXCEPT !.at = "done"] ELSE r : r \in runs}
    BY Zenon, <1>10 DEF Reaches
  <2>2. ASSUME NEW s \in runs'
        PROVE  \E r \in runs : /\ s \in Run /\ s.op = r.op /\ s.id = r.id /\ s.pref = r.pref
                               /\ s = r \/ s.at = "done"
                               /\ r.id = w.id /\ r.at = "fetch" => s.at = "done"
    <3>1. PICK r \in runs : s = IF r.id = w.id /\ r.at = "fetch" THEN [r EXCEPT !.at = "done"] ELSE r
      BY Zenon, <2>1
    <3>2. r \in Run /\ [r EXCEPT !.at = "done"] \in Run /\ [r EXCEPT !.at = "done"].at = "done"
          /\ [r EXCEPT !.at = "done"].op = r.op /\ [r EXCEPT !.at = "done"].id = r.id
          /\ [r EXCEPT !.at = "done"].pref = r.pref
      BY Zenon, <1>t, RunMoves
    <3> QED BY Zenon, <3>1, <3>2
  <2>3. runs' \subseteq Run /\ \A s \in runs' : s.at = "unsubscribe" => s.op = "disable"
    BY Zenon, <2>2 DEF BrowserInv
  <2>4. ASSUME ~overlap, NEW s \in runs', s.op = "disable" PROVE Alone(s)'
    <3>1. PICK r \in runs : /\ s \in Run /\ s.op = r.op /\ s.id = r.id /\ s.pref = r.pref
                            /\ s = r \/ s.at = "done"
                            /\ r.id = w.id /\ r.at = "fetch" => s.at = "done"
      BY Zenon, <2>2
    <3>2. Alone(r)
      BY Zenon, <3>1, <2>4 DEF BrowserInv
    <3>3. w = [id |-> r.id, pref |-> NoPerimeter] /\ wire' = {} /\ r.at = "fetch"
      BY Zenon, <3>2, <2>1 DEF Alone
    <3>4. w.pref = NoPerimeter /\ w.id = r.id
      BY Zenon, <3>3
    <3>5. runs' = {s}
      BY Zenon, <2>1, <3>2, <2>4 DEF Alone
    <3> QED BY Zenon, <2>1, <3>1, <3>2, <3>3, <3>4, <3>5 DEF Alone
  <2>5. ~overlap => subscribed
    BY Zenon, <1>10 DEF BrowserInv
  <2> QED BY Zenon, <2>1, <2>3, <2>4, <2>5 DEF BrowserInv
<1>11. ASSUME NEW w \in wire, Lost(w) PROVE BrowserInv'
  <2>1. wire' = wire \ {w} /\ UNCHANGED <<row, runs, subscribed, overlap>>
    BY Zenon, <1>11 DEF Lost
  <2>2. ASSUME NEW r \in runs, Alone(r) PROVE Alone(r)'
    BY Zenon, <2>1, <2>2 DEF Alone
  <2> QED BY Zenon, <2>1, <2>2 DEF BrowserInv
<1>12. CASE UNCHANGED browserVars
  BY Zenon, <1>12 DEF browserVars, BrowserInv, Alone
<1> QED
  BY Zenon, <1>1, <1>2, <1>3, <1>4, <1>5, <1>6, <1>7, <1>8, <1>9, <1>10, <1>11, <1>12 DEF BrowserNext

\* The types of the browser's side; ids count the runs.
LEMMA BrowserTyped == BrowserSpec => []BrowserTypeOK
<1>1. BrowserInit => BrowserTypeOK
  <2>1. 0 \in 0 .. MaxRuns /\ 0 \in 0 .. MaxReloads
    BY SMT, BrowserAssumption
  <2> QED BY Zenon, <2>1 DEF BrowserInit, BrowserTypeOK, PushState
<1>2. BrowserTypeOK /\ [BrowserNext]_browserVars => BrowserTypeOK'
  <2> SUFFICES ASSUME BrowserTypeOK, [BrowserNext]_browserVars PROVE BrowserTypeOK'
    BY Zenon
  <2> USE BrowserAssumption
  <2> DEFINE Any == Perimeter \cup {NoPerimeter}
  <2>n. made < MaxRuns => made + 1 \in 0 .. MaxRuns /\ made + 1 \in 1 .. MaxRuns
    BY SMT DEF BrowserTypeOK
  <2>s. ASSUME NEW op \in {"mount", "enable", "disable"}, NEW pref \in Any, made < MaxRuns
        PROVE  [id |-> made + 1, op |-> op, pref |-> pref, at |-> "ready"] \in Run
    BY Zenon, <2>n, <2>s DEF Run
  <2>e. ASSUME NEW r \in runs, NEW s, Ends(r, s)
        PROVE  runs' \subseteq Run /\ state' = s
    BY Zenon, <2>e DEF Ends, BrowserTypeOK
  <2>m. ASSUME NEW r \in runs, NEW at \in {"ready", "sign", "fetch", "done", "unsubscribe"}, Moves(r, at)
        PROVE  runs' \subseteq Run
    <3>1. r \in Run BY Zenon DEF BrowserTypeOK
    <3>2. [r EXCEPT !.at = at] \in Run BY Zenon, <3>1, RunMoves
    <3> QED BY Zenon, <2>m, <3>2 DEF Moves, BrowserTypeOK
  <2>1. CASE reload
    <3>1. reloads' \in 0 .. MaxReloads
      BY SMT, <1>1, <2>1 DEF reload, BrowserTypeOK
    <3>2. CASE saved = NoPerimeter \/ made = MaxRuns
      BY Zenon, <2>1, <3>1, <3>2 DEF reload, BrowserTypeOK, PushState
    <3>3. CASE ~(saved = NoPerimeter \/ made = MaxRuns)
      <4>1. made < MaxRuns BY SMT, <3>3 DEF BrowserTypeOK
      <4>2. saved \in Any BY Zenon DEF BrowserTypeOK
      <4>3. runs' \subseteq Run /\ made' \in 0 .. MaxRuns
        <5>1. [id |-> made + 1, op |-> "mount", pref |-> saved, at |-> "ready"] \in Run
          BY Zenon, <4>1, <4>2, <2>s
        <5> QED BY Zenon, <5>1, <4>1, <3>3, <2>1, <2>n DEF reload
      <4> QED BY Zenon, <2>1, <3>1, <4>2, <4>3 DEF reload, BrowserTypeOK, PushState
    <3> QED BY Zenon, <3>2, <3>3
  <2>2. ASSUME NEW op \in {"enable", "disable"}, NEW pref \in Any, Starts(op, pref),
               state' \in PushState, UNCHANGED <<row, subscribed, saved, form, wire, reloads>>
        PROVE  BrowserTypeOK'
    <3>1. runs' \subseteq Run /\ made' \in 0 .. MaxRuns /\ overlap' \in BOOLEAN
      BY Zenon, <2>2, <2>s, <2>n DEF Starts, BrowserTypeOK
    <3> QED BY Zenon, <3>1, <2>2 DEF BrowserTypeOK
  <2>3. CASE enable
    BY Zenon, <2>3, <2>2 DEF enable, BrowserTypeOK, PushState
  <2>4. CASE disable
    BY Zenon, <2>4, <2>2 DEF disable, BrowserTypeOK, PushState
  <2>5. ASSUME NEW p \in Perimeter, locate(p) PROVE BrowserTypeOK'
    BY Zenon, <2>5 DEF locate, BrowserTypeOK
  <2>6. ASSUME NEW r \in runs, refused(r) \/ throws(r) \/ mountAnswered(r) PROVE BrowserTypeOK'
    BY Zenon, <2>6, <2>e DEF refused, throws, mountAnswered, BrowserTypeOK, PushState
  <2>7. ASSUME NEW r \in runs, enableAnswered(r) PROVE BrowserTypeOK'
    <3>1. r.pref \in Any BY Zenon DEF BrowserTypeOK, Run
    <3> QED BY Zenon, <2>7, <2>e, <3>1 DEF enableAnswered, BrowserTypeOK, PushState
  <2>8. ASSUME NEW r \in runs, getSubscription(r) PROVE BrowserTypeOK'
    <3>1. subscribed' \in BOOLEAN
      BY Zenon, <2>8 DEF getSubscription
    <3>2. runs' \subseteq Run /\ state' \in PushState /\ saved' \in Any
      BY Zenon, <2>8, <2>e, <2>m DEF getSubscription, BrowserTypeOK, PushState
    <3> QED BY Zenon, <2>8, <3>1, <3>2 DEF getSubscription, BrowserTypeOK
  <2>9. ASSUME NEW r \in runs, request(r) PROVE BrowserTypeOK'
    <3>1. [id |-> r.id, pref |-> r.pref] \in [id : 1 .. MaxRuns, pref : Any]
      BY Zenon DEF BrowserTypeOK, Run
    <3> QED BY Zenon, <2>9, <2>m, <3>1 DEF request, BrowserTypeOK
  <2>10. ASSUME NEW r \in runs, deleted(r) PROVE BrowserTypeOK'
    BY Zenon, <2>10, <2>m DEF deleted, BrowserTypeOK
  <2>11. ASSUME NEW r \in runs, unsubscribed(r) PROVE BrowserTypeOK'
    BY Zenon, <2>11, <2>e DEF unsubscribed, BrowserTypeOK, PushState
  <2>12. ASSUME NEW w \in wire, Reaches(w) PROVE BrowserTypeOK'
    <3>1. w.pref \in Any BY Zenon DEF BrowserTypeOK
    <3>2. \A r \in runs : [r EXCEPT !.at = "done"] \in Run
      BY Zenon, RunMoves DEF BrowserTypeOK
    <3>3. runs' \subseteq Run
      BY Zenon, <2>12, <3>2 DEF Reaches, BrowserTypeOK
    <3> QED BY Zenon, <2>12, <3>1, <3>3 DEF Reaches, BrowserTypeOK
  <2>13. ASSUME NEW w \in wire, Lost(w) PROVE BrowserTypeOK'
    BY Zenon, <2>13 DEF Lost, BrowserTypeOK
  <2>14. CASE UNCHANGED browserVars
    BY Zenon, <2>14 DEF browserVars, BrowserTypeOK
  <2> QED
    BY Zenon, <2>1, <2>3, <2>4, <2>5, <2>6, <2>7, <2>8, <2>9, <2>10, <2>11, <2>12, <2>13, <2>14
    DEF BrowserNext
<1> QED BY <1>1, <1>2, PTL DEF BrowserSpec

\* For any perimeters and any number of runs and reloads, a browser without a
\* subscription has no row at the gateway, unless buttons overlapped
\* (usePushSubscription.ts).
THEOREM NoRowWithoutSubscription == BrowserSpec => []UnsubscribedIsUnregistered
<1>1. BrowserInit => BrowserInv
  BY Zenon DEF BrowserInit, BrowserInv
<1>2. BrowserInv => UnsubscribedIsUnregistered
  BY Zenon DEF BrowserInv, UnsubscribedIsUnregistered
<1>3. MaxRuns \in Nat
  BY Zenon, BrowserAssumption
<1> QED BY <1>1, <1>2, <1>3, BrowserStep, BrowserTyped, PTL DEF BrowserSpec
=============================================================================
