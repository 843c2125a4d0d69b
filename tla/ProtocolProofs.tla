--------------------------- MODULE ProtocolProofs ---------------------------
(*************************************************************************)
(* Proofs about the smaller protocols, each for any number of users,     *)
(* calls and faults: the row locks of votes (VoteLocks), the sessions of *)
(* a signer (Signer), the names of a key (Nip05) and the format of a     *)
(* shared location (LocationFormat).                                     *)
(*************************************************************************)
EXTENDS VoteLocks, Signer, Nip05, LocationFormat, WellFoundedInduction, TLAPS

-----------------------------------------------------------------------------
\* Where a vote stands when it holds a user row.
HeldRows ==
  \A u \in User, t \in Tx : rowLock[u] = t =>
    \/ t \in Upsert /\ pc[t] = "both" /\ u = Caller[t]
    \/ t \in Vote /\ pc[t] = "voter" /\ u = Caller[t] /\ u \notin known
    \/ t \in Vote /\ pc[t] = "first" /\ (u = Lower(t) \/ (u = Caller[t] /\ u \notin known))
    \/ t \in Vote /\ pc[t] = "both"

\* A call past its insertion holds its caller's row while it is not committed.
FreshRows ==
  /\ Registered \subseteq known
  /\ \A t \in Vote : pc[t] \in {"voter", "first", "both"} /\ Caller[t] \notin known
       => rowLock[Caller[t]] = t
  /\ \A t \in Upsert : pc[t] = "both" => rowLock[Caller[t]] = t

IInv == TypeOK /\ HeldRows /\ FreshRows

\* The two rows of a vote are its caller's and the author's, in key order.
LEMMA Ordered ==
  ASSUME NEW t \in Vote
  PROVE  /\ Lower(t) \in User /\ Upper(t) \in User /\ Lower(t) < Upper(t)
         /\ {Lower(t), Upper(t)} = {Caller[t], Author[Target[t]]}
         /\ Author[Target[t]] \in Registered /\ Caller[t] \in User
  <1>1. /\ Caller[t] \in User /\ Target[t] \in Report
        /\ Author[Target[t]] \in Registered /\ Author[Target[t]] \in User
        /\ Caller[t] # Author[Target[t]]
    BY Zenon, LockAssumption DEF Tx
  <1>2. CASE Caller[t] < Author[Target[t]]
    BY Zenon, <1>1, <1>2 DEF Lower, Upper, LockOrder, User
  <1>3. CASE ~(Caller[t] < Author[Target[t]])
    BY <1>1, <1>3, LockAssumption DEF Lower, Upper, LockOrder, User
  <1> QED BY Zenon, <1>2, <1>3

\* Nothing is held at the start.
LEMMA InitHolds == Init => IInv
  BY LockAssumption DEF Init, IInv, TypeOK, HeldRows, FreshRows, State, Tx, User

\* A non-empty set of users has a last one.
LEMMA LastUser ==
  ASSUME NEW W \in SUBSET User, W # {}
  PROVE  \E u \in W : \A w \in W : w <= u
  <1> DEFINE M == {N - u : u \in W}
  <1>0. N \in Nat /\ \A u \in W : u \in Nat /\ u <= N
    BY LockAssumption DEF User
  <1>1. M \subseteq Nat /\ M # {}
    <2>1. \A u \in W : N - u \in Nat
      BY <1>0
    <2> QED BY Zenon, <2>1
  <1>2. \E x \in M : \A y \in M : ~(<<y, x>> \in OpToRel(<, Nat))
    BY Zenon, <1>1, NatLessThanWellFounded, WFMin
  <1>3. PICK x \in M : \A y \in M : ~(y < x)
    BY Zenon, <1>1, <1>2 DEF OpToRel
  <1>4. PICK u \in W : x = N - u
    BY Zenon
  <1>5. ASSUME NEW w \in W PROVE w <= u
    <2>1. N - w \in M
      BY Zenon
    <2>2. ~(N - w < N - u)
      BY Zenon, <1>3, <1>4, <2>1
    <2> QED BY <2>2, <1>0
  <1> QED BY Zenon, <1>5

\* Every step keeps the invariant.
LEMMA Step == IInv /\ [Next]_vars => IInv'
  <1> SUFFICES ASSUME IInv, [Next]_vars PROVE IInv'
    BY Zenon
  <1> USE LockAssumption DEF IInv, State, Tx, Go, Free
  <1>1. CASE UNCHANGED vars
    BY <1>1 DEF vars, TypeOK, HeldRows, FreshRows
  <1>2. ASSUME NEW t \in Vote, LockReport(t) PROVE IInv'
    BY <1>2, Ordered DEF LockReport, TypeOK, HeldRows, FreshRows
  <1>3. ASSUME NEW t \in Vote, InsertVoter(t) PROVE IInv'
    <2>1. TypeOK'
      BY <1>3, Ordered DEF InsertVoter, TypeOK
    <2>2. HeldRows'
      BY <1>3, Ordered DEF InsertVoter, TypeOK, HeldRows, FreshRows
    <2>3. FreshRows'
      BY <1>3, Ordered DEF InsertVoter, TypeOK, HeldRows, FreshRows
    <2> QED BY Zenon, <2>1, <2>2, <2>3
  <1>4. ASSUME NEW t \in Vote, LockLower(t) PROVE IInv'
    <2>1. TypeOK'
      BY <1>4, Ordered DEF LockLower, TypeOK
    <2>2. HeldRows'
      <3> SUFFICES ASSUME NEW u \in User, NEW w \in Tx, rowLock'[u] = w
                   PROVE  HeldRows!(u, w)'
        BY Zenon DEF HeldRows
      <3>1. pc[t] = "voter" /\ pc' = [pc EXCEPT ![t] = "first"] /\ known' = known
            /\ rowLock' = [rowLock EXCEPT ![Lower(t)] = t]
        BY Zenon, <1>4 DEF LockLower
      <3>2. CASE w = t
        <4>1. u = Lower(t) \/ rowLock[u] = t
          BY <3>1, <3>2, Ordered DEF TypeOK
        <4>2. u = Lower(t) \/ (u = Caller[t] /\ u \notin known)
          BY Zenon, <4>1, <3>1 DEF HeldRows
        <4> QED BY Zenon, <4>2, <3>1, <3>2 DEF TypeOK
      <3>3. CASE w # t
        <4>1. rowLock[u] = w /\ pc'[w] = pc[w]
          BY <3>1, <3>3, Ordered DEF TypeOK
        <4> QED BY Zenon, <4>1, <3>1 DEF HeldRows
      <3> QED BY Zenon, <3>2, <3>3
    <2>3. FreshRows'
      BY <1>4, Ordered DEF LockLower, TypeOK, HeldRows, FreshRows
    <2> QED BY Zenon, <2>1, <2>2, <2>3
  <1>5. ASSUME NEW t \in Vote, LockUpper(t) PROVE IInv'
    <2>1. TypeOK'
      BY <1>5, Ordered DEF LockUpper, TypeOK
    <2>2. HeldRows'
      BY <1>5, Ordered DEF LockUpper, TypeOK, HeldRows, FreshRows
    <2>3. FreshRows'
      BY <1>5, Ordered DEF LockUpper, TypeOK, HeldRows, FreshRows
    <2> QED BY Zenon, <2>1, <2>2, <2>3
  <1>6. ASSUME NEW t \in Upsert, UpsertAuthor(t) PROVE IInv'
    <2>1. TypeOK'
      BY Zenon, <1>6 DEF UpsertAuthor, TypeOK
    <2>2. HeldRows'
      BY <1>6 DEF UpsertAuthor, TypeOK, HeldRows, FreshRows
    <2>3. FreshRows'
      BY <1>6 DEF UpsertAuthor, TypeOK, HeldRows, FreshRows
    <2> QED BY Zenon, <2>1, <2>2, <2>3
  <1>7. ASSUME NEW t \in Tx, Commit(t) PROVE IInv'
    <2>1. TypeOK'
      BY <1>7 DEF Commit, Release, TypeOK
    <2>2. HeldRows'
      BY <1>7 DEF Commit, Release, TypeOK, HeldRows, FreshRows
    <2>3. FreshRows'
      BY Zenon, <1>7 DEF Commit, Release, TypeOK, HeldRows, FreshRows
    <2> QED BY Zenon, <2>1, <2>2, <2>3
  <1>8. ASSUME NEW t \in Tx, Rollback(t) PROVE IInv'
    <2>1. TypeOK'
      BY <1>8 DEF Rollback, Release, TypeOK
    <2>2. HeldRows'
      BY <1>8 DEF Rollback, Release, TypeOK, HeldRows, FreshRows
    <2>3. FreshRows'
      BY Zenon, <1>8 DEF Rollback, Release, TypeOK, HeldRows, FreshRows
    <2> QED BY Zenon, <2>1, <2>2, <2>3
  <1> QED
    BY Zenon, <1>1, <1>2, <1>3, <1>4, <1>5, <1>6, <1>7, <1>8 DEF Next, VoteStep

\* A committed row a vote waits for is held by a vote that wants a larger one.
LEMMA WaitsUpward ==
  ASSUME IInv, NEW t \in Vote, pc[t] \in {"voter", "first"},
         NEW u \in User, Wants(t, u), NEW w \in Tx, w # t, Holds(w, u),
         NEW x \in Tx, WaitsFor(w, x)
  PROVE  w \in Vote /\ pc[w] = "first" /\ Upper(w) > u
  <1>1. u \in known
    <2>1. u \in {Caller[t], Author[Target[t]]}
      BY Zenon, Ordered, LockAssumption DEF Wants
    <2>2. CASE u = Author[Target[t]]
      BY Zenon, <2>2, Ordered DEF IInv, FreshRows
    <2>3. CASE u = Caller[t]
      BY Zenon, <2>3 DEF IInv, FreshRows, Holds
    <2> QED BY Zenon, <2>1, <2>2, <2>3
  <1>2. pc[w] # "both"
    BY Zenon DEF WaitsFor, Wants
  <1>3. w \in Vote /\ pc[w] = "first" /\ u = Lower(w)
    BY Zenon, <1>1, <1>2 DEF Holds, IInv, HeldRows
  <1> QED BY Zenon, <1>3, Ordered

\* In a state of the invariant no group of calls waits for one another.
LEMMA Acyclic == IInv => NoWaitCycle
  <1> SUFFICES ASSUME IInv, NEW D \in SUBSET Tx, D # {},
                      \A t \in D : \E w \in D : WaitsFor(t, w)
               PROVE  FALSE
    BY Zenon DEF NoWaitCycle
  <1> DEFINE L == {t \in D : t \in Vote /\ pc[t] \in {"voter", "first"}}
             W == {u \in User : \E t \in L : Wants(t, u)}
  <1>1. ASSUME NEW w \in D, NEW u \in User, Holds(w, u) PROVE w \in L
    <2>1. pc[w] # "both"
      BY Zenon DEF WaitsFor, Wants
    <2> QED BY Zenon, <1>1, <2>1 DEF Holds, IInv, HeldRows
  <1>2. L # {}
    <2>1. PICK t \in D : TRUE
      BY Zenon
    <2>2. PICK w \in D : WaitsFor(t, w)
      BY Zenon
    <2>3. CASE \E u \in User : Holds(w, u)
      BY Zenon, <2>3, <1>1
    <2>4. CASE t \in Vote /\ pc[t] = "start" /\ report[Target[t]] = w
      <3>1. w \in Vote /\ pc[w] \in {"report", "voter", "first", "both"}
        BY <2>4, LockAssumption DEF IInv, TypeOK, Tx, State
      <3>2. CASE pc[w] \in {"voter", "first"}
        BY Zenon, <3>1, <3>2
      <3>3. CASE pc[w] \in {"report", "both"}
        <4>1. PICK x \in D : WaitsFor(w, x)
          BY Zenon
        <4>2. \E u \in User : Holds(x, u)
          BY Zenon, <4>1, <3>3 DEF WaitsFor
        <4> QED BY Zenon, <4>2, <1>1
      <3> QED BY Zenon, <3>1, <3>2, <3>3
    <2> QED BY Zenon, <2>2, <2>3, <2>4 DEF WaitsFor
  <1>3. \A t \in L : \E u \in User : Wants(t, u)
    BY Zenon, Ordered DEF Wants
  <1>4. PICK u \in W : \A x \in W : x <= u
    BY Zenon, <1>2, <1>3, LastUser
  <1>5. PICK t \in L : Wants(t, u)
    BY Zenon
  <1>6. PICK w \in D : WaitsFor(t, w)
    BY Zenon
  <1>7. Holds(w, u) /\ w # t
    BY <1>5, <1>6 DEF WaitsFor, Wants
  <1>8. w \in Vote /\ pc[w] = "first" /\ Upper(w) > u
    BY Zenon, <1>5, <1>7, WaitsUpward
  <1>9. Upper(w) \in W
    BY Zenon, <1>8, Ordered DEF Wants
  <1> QED BY <1>4, <1>8, <1>9, Ordered DEF User

\* For any number of users, reports and calls, concurrent votes and new
\* reports never wait in a circle: the ordered FOR UPDATE of cast_vote is
\* enough, although the voter's row may be inserted before it.
THEOREM VotesNeverDeadlock == Spec => []NoWaitCycle
  BY InitHolds, Step, Acyclic, PTL DEF Spec

\* Types, and report locks held only by votes between their first statement
\* and their end.
THEOREM LocksTyped == Spec => []TypeOK
  <1>1. IInv => TypeOK
    BY Zenon DEF IInv
  <1> QED BY <1>1, InitHolds, Step, PTL DEF Spec

-----------------------------------------------------------------------------
(* The active signer *)

Pin == Nat \cup RemoteKey \cup {Absent}
CallState == [op : {"idle", "init", "connect", "reconnect", "disconnect", "sign", "chat"},
         ph : {"", "load", "closing", "dial", "save", "clear", "asked", "held", "failing"},
         pin : Pin, session : Nat \cup {Absent}, generation : Nat,
         answer : RemoteKey \cup {Absent}, template : Template \cup {Absent}]
Identity == [mode : {"local", "bunker"}, pubkey : Pin,
             status : {"ready", "connecting", "offline", "authorization-required", "error"}]

SignerTypes ==
  /\ identity \in Identity /\ remote \in [session : Nat, generation : Nat] \cup {Absent}
  /\ generation \in Nat /\ stored \in RemoteKey \cup {Absent} /\ local \in Nat
  /\ task \in [Call -> CallState] /\ sessions \in Nat

\* In local mode the app shows the device key, or none before it has booted.
LocalShown == identity.mode = "local" => identity.pubkey \in {Absent, local}
\* A session ends once, and the open one has not ended.
OpenSession ==
  /\ \A n \in ended : n \in Nat /\ n <= sessions
  /\ remote # Absent => remote.session \notin ended /\ remote.session <= sessions
\* A call waiting for a signature knows its template; a chat's signer keeps a key
\* or a session.
Waiting(t) == /\ t.ph = "asked" => t.template \in Template
              /\ t.ph = "held" /\ t.pin # Absent => t.session = Absent
SignerInv ==
  SignerTypes /\ LocalShown /\ OpenSession /\ (\A c \in Call : Waiting(task[c])) /\ SignedAsShown

\* Two of the app's templates with the same fields are the same.
LEMMA SameTemplateFact ==
  ASSUME NEW t \in Template, NEW e \in Template, sameTemplate(t, e) PROVE e = t
<1>1. signNip98AuthEvent.content = "empty" /\ signBoundEvent.content = "binding"
  BY SMT DEF signNip98AuthEvent, signBoundEvent
<1> QED BY Zenon, <1>1 DEF Template, sameTemplate

\* A slot with nothing to do.
LEMMA IdleFact == Idle \in CallState /\ Waiting(Idle) /\ Idle.ph = "" /\ Idle.pin = Absent /\ Idle.session = Absent
<1>1. 0 \in Nat BY Zenon 
<1> QED BY Zenon, <1>1 DEF Idle, CallState, Pin, Waiting

\* What is to be shown of a step that signs nothing, and leaves a device key shown.
LEMMA SignerKeeps ==
  ASSUME SignerInv, NEW c \in Call, NEW t \in CallState, Waiting(t), task' = [task EXCEPT ![c] = t],
         UNCHANGED <<signed, local>>, identity' \in Identity,
         identity'.mode = "local" => identity'.pubkey \in {Absent, local},
         remote' \in [session : Nat, generation : Nat] \cup {Absent}, generation' \in Nat,
         stored' \in RemoteKey \cup {Absent}, sessions' \in Nat, OpenSession'
  PROVE  SignerInv'
<1>1. task' \in [Call -> CallState] /\ \A d \in Call : Waiting(task'[d])
  BY Zenon DEF SignerInv, SignerTypes
<1>2. SignedAsShown' BY Zenon DEF SignerInv, SignedAsShown
<1>3. LocalShown' BY Zenon DEF LocalShown
<1> QED BY Zenon, <1>1, <1>2, <1>3 DEF SignerInv, SignerTypes

\* closeRemote, or a session opened in place of another.
LEMMA SessionsEnd ==
  ASSUME SignerTypes, OpenSession, NEW e, e = IF remote = Absent THEN ended ELSE ended \cup {remote.session}
  PROVE  /\ \A n \in e : n \in Nat /\ n <= sessions
         /\ sessions + 1 \in Nat /\ sessions + 1 \notin e /\ \A n \in e : n <= sessions + 1
         /\ ended \subseteq e /\ generation + 1 \in Nat
<1>1. remote # Absent => remote.session \in Nat BY Zenon DEF SignerTypes
<1>2. \A n \in e : n \in Nat /\ n <= sessions
  BY Zenon, <1>1 DEF OpenSession
<1>3. sessions \in Nat /\ generation \in Nat BY Zenon DEF SignerTypes
<1>4. sessions + 1 \in Nat /\ sessions + 1 \notin e /\ (\A n \in e : n <= sessions + 1) /\ generation + 1 \in Nat
  BY SMT, <1>2, <1>3
<1> QED BY Zenon, <1>2, <1>4

\* The catch blocks.
LEMMA FailKeeps ==
  ASSUME SignerInv, NEW c \in Call, NEW p \in Pin, Fail(c, p), UNCHANGED <<stored, local, sessions, signed>>
  PROVE  SignerInv'
<1>1. SignerTypes /\ OpenSession BY Zenon DEF SignerInv
<1>2. remote' = Absent /\ generation' = generation + 1 /\ ended' = IF remote = Absent THEN ended ELSE ended \cup {remote.session}
  BY Zenon DEF Fail, closeRemote
<1>3. OpenSession' /\ generation' \in Nat
  BY Zenon, <1>1, <1>2, SessionsEnd DEF OpenSession
<1>4. CASE remote = Absent
  <2>1. identity' = [mode |-> "bunker", pubkey |-> p, status |-> "error"] /\ task' = [task EXCEPT ![c] = Idle]
    BY Zenon, <1>4 DEF Fail, publishIdentity, Finish, Become
  <2>2. identity' \in Identity /\ identity'.mode = "bunker"
    BY Zenon, <2>1 DEF Identity
  <2> QED BY Zenon, <1>1, <1>2, <1>3, <2>1, <2>2, IdleFact, SignerKeeps DEF SignerTypes
<1>5. CASE remote # Absent
  <2> DEFINE t == [task[c] EXCEPT !.ph = "failing", !.pin = p]
  <2>1. task' = [task EXCEPT ![c] = t] /\ identity' = identity
    BY Zenon, <1>5 DEF Fail, Become
  <2>2. t \in CallState /\ t.ph = "failing"
    BY Zenon, <1>1 DEF SignerTypes, CallState
  <2>3. Waiting(t) BY Zenon, <2>2 DEF Waiting
  <2> HIDE DEF t
  <2> QED BY Zenon, <1>1, <1>2, <1>3, <2>1, <2>2, <2>3, SignerKeeps DEF SignerTypes, SignerInv, LocalShown
<1> QED BY Zenon, <1>4, <1>5

\* open, after closeRemote.
LEMMA StartKeeps ==
  ASSUME SignerInv, NEW c \in Call, NEW op \in {"connect", "reconnect"}, NEW p \in Pin, NEW g \in Nat,
         startSession(c, op, p, g), UNCHANGED <<stored, local, signed>>, generation' \in Nat,
         ended' = IF remote = Absent THEN ended ELSE ended \cup {remote.session}
  PROVE  SignerInv'
<1> DEFINE t == [op |-> op, ph |-> "dial", pin |-> p, session |-> sessions + 1,
                 generation |-> g, answer |-> Absent, template |-> Absent]
           r == [session |-> sessions + 1, generation |-> g]
<1>1. SignerTypes /\ OpenSession BY Zenon DEF SignerInv
<1>2. /\ task' = [task EXCEPT ![c] = t] /\ remote' = r /\ sessions' = sessions + 1
      /\ identity' = [mode |-> "bunker", pubkey |-> p, status |-> "connecting"]
  BY Zenon DEF startSession, publishIdentity, Become
<1>3. /\ \A n \in ended' : n \in Nat /\ n <= sessions + 1
      /\ sessions + 1 \in Nat /\ sessions + 1 \notin ended'
  BY Zenon, <1>1, SessionsEnd
<1>4. sessions + 1 <= sessions + 1 BY SMT, <1>3
<1>5. /\ r \in [session : Nat, generation : Nat] /\ r.session = sessions + 1
      /\ t \in CallState /\ t.ph = "dial"
  BY Zenon, <1>3 DEF CallState
<1>6. identity' \in Identity /\ identity'.mode = "bunker" BY Zenon, <1>2 DEF Identity
<1>7. Waiting(t) BY Zenon, <1>5 DEF Waiting
<1> HIDE DEF t, r
<1>8. OpenSession' BY Zenon, <1>2, <1>3, <1>4, <1>5 DEF OpenSession
<1> QED BY Zenon, <1>1, <1>2, <1>3, <1>5, <1>6, <1>7, <1>8, SignerKeeps DEF SignerTypes

\* open, up to its first suspension.
LEMMA OpenKeeps ==
  ASSUME SignerInv, NEW c \in Call, NEW op \in {"connect", "reconnect"}, NEW p \in Pin,
         open(c, op, p), UNCHANGED <<stored, local, signed>>
  PROVE  SignerInv'
<1>1. SignerTypes /\ OpenSession BY Zenon DEF SignerInv
<1>2. generation' = generation + 1 /\ generation + 1 \in Nat
  BY Zenon, <1>1, SessionsEnd DEF open
<1>3. CASE remote = Absent
  BY Zenon, <1>2, <1>3, StartKeeps DEF open
<1>4. CASE remote # Absent
  <2> DEFINE t == [Idle EXCEPT !.op = op, !.ph = "closing", !.pin = p]
  <2>1. /\ task' = [task EXCEPT ![c] = t] /\ UNCHANGED <<identity, sessions>>
        /\ remote' = Absent /\ ended' = ended \cup {remote.session}
    BY Zenon, <1>4 DEF open, Become
  <2>2. t \in CallState /\ t.ph = "closing" BY Zenon, IdleFact DEF CallState
  <2>3. Waiting(t) BY Zenon, <2>2 DEF Waiting
  <2> HIDE DEF t
  <2>4. OpenSession' BY Zenon, <1>1, <1>4, <2>1, SessionsEnd DEF OpenSession
  <2> QED BY Zenon, <1>1, <1>2, <2>1, <2>2, <2>3, <2>4, SignerKeeps DEF SignerTypes, SignerInv, LocalShown
<1> QED BY Zenon, <1>3, <1>4

\* A signature handed to its caller.
LEMMA HandKeeps ==
  ASSUME SignerInv, NEW by, NEW want, NEW mode, NEW asked, NEW event, Hand(by, want, mode, asked, event),
         want # Absent => by = want /\ event = asked, mode = "bunker" => by \in RemoteKey,
         UNCHANGED <<identity, remote, generation, stored, local, sessions, ended>>,
         task' = task \/ \E c \in Call : task' = [task EXCEPT ![c] = Idle]
  PROVE  SignerInv'
<1>1. task' \in [Call -> CallState] /\ \A d \in Call : Waiting(task'[d])
  BY Zenon, IdleFact DEF SignerInv, SignerTypes
<1>2. SignedAsShown' BY Zenon DEF Hand, SignedAsShown
<1>3. LocalShown' /\ OpenSession' BY Zenon DEF SignerInv, LocalShown, OpenSession
<1> QED BY Zenon, <1>1, <1>2, <1>3 DEF SignerInv, SignerTypes

\* A call that ends, with the identity it leaves to be shown.
LEMMA FinishKeeps ==
  ASSUME SignerInv, NEW c \in Call, Finish(c), UNCHANGED <<remote, generation, local, sessions, signed, ended>>,
         identity' \in Identity, identity'.mode = "local" => identity'.pubkey \in {Absent, local},
         stored' \in RemoteKey \cup {Absent}
  PROVE  SignerInv'
<1>1. OpenSession' BY Zenon DEF SignerInv, OpenSession
<1> QED BY Zenon, <1>1, IdleFact, SignerKeeps DEF Finish, Become, SignerInv, SignerTypes

\* A call that goes on, or begins, with nothing else changed.
LEMMA TaskKeeps ==
  ASSUME SignerInv, NEW c \in Call, NEW t \in CallState, Waiting(t), Become(c, t),
         UNCHANGED <<identity, remote, generation, stored, local, sessions, signed, ended>>
  PROVE  SignerInv'
<1>1. OpenSession' BY Zenon DEF SignerInv, OpenSession
<1> QED BY Zenon, <1>1, SignerKeeps DEF Become, SignerInv, SignerTypes, LocalShown

\* The tab's own steps.
LEMMA ResumeKeeps == ASSUME SignerInv, NEW c \in Call, Resume(c) PROVE SignerInv'
<1>t. /\ SignerTypes /\ OpenSession /\ task[c] \in CallState /\ identity \in Identity /\ task[c].pin \in Pin
      /\ stored \in RemoteKey \cup {Absent} /\ stored \in Pin /\ local \in Pin /\ generation \in Nat
  BY Zenon DEF SignerInv, SignerTypes, CallState, Pin
<1>i. ASSUME NEW m \in {"local", "bunker"}, NEW p \in Pin,
             NEW s \in {"ready", "connecting", "offline", "authorization-required", "error"},
             publishIdentity(m, p, s)
      PROVE  identity' \in Identity /\ identity'.mode = m /\ identity'.pubkey = p
  BY Zenon, <1>i DEF publishIdentity, Identity
<1>1. CASE failed(c)
  BY Zenon, <1>1, <1>t, <1>i, FinishKeeps DEF failed
<1>2. CASE initializeActiveSigner(c)
  BY Zenon, <1>2, <1>t, <1>i, FinishKeeps DEF initializeActiveSigner, loadBunkerConnection
<1>3. CASE openCloses(c)
  <2>1. task[c].op \in {"connect", "reconnect"} BY Zenon, <1>3 DEF openCloses
  <2> QED BY Zenon, <1>3, <2>1, <1>t, StartKeeps DEF openCloses
<1>4. CASE openSaved(c)
  <2>1. task[c].answer \in RemoteKey \cup {Absent} /\ task[c].answer \in Pin
    BY Zenon, <1>t DEF CallState, Pin
  <2> QED BY Zenon, <1>4, <2>1, <1>t, <1>i, FinishKeeps DEF openSaved, saveBunkerConnection
<1>5. CASE deadline(c)
  BY Zenon, <1>5, <1>t, FailKeeps DEF deadline
<1>6. CASE reconnectBunker(c)
  <2>1. CASE stored = Absent
    BY Zenon, <1>6, <2>1, <1>t, FinishKeeps DEF reconnectBunker, loadBunkerConnection, SignerInv, LocalShown
  <2>2. CASE stored # Absent
    BY Zenon, <1>6, <2>2, <1>t, OpenKeeps DEF reconnectBunker, loadBunkerConnection
  <2> QED BY Zenon, <2>1, <2>2
<1>7. CASE disconnectCloses(c)
  <2> DEFINE t == [task[c] EXCEPT !.ph = "clear"]
  <2>1. t \in CallState /\ t.ph = "clear" BY Zenon, <1>t DEF CallState
  <2>2. Waiting(t) BY Zenon, <2>1 DEF Waiting
  <2> QED BY Zenon, <1>7, <2>1, <2>2, TaskKeeps DEF disconnectCloses
<1>8. CASE disconnectClears(c)
  BY Zenon, <1>8, <1>t, <1>i, FinishKeeps DEF disconnectClears, clearBunkerConnection
<1>9. CASE signFails(c)
  BY Zenon, <1>9, <1>t, FailKeeps DEF signFails
<1>10. CASE createLocalNostrSigner(c)
  <2>1. /\ Hand(task[c].pin, task[c].pin, "local", signBoundEvent, signBoundEvent)
        /\ UNCHANGED <<identity, remote, generation, stored, local, sessions, ended>>
        /\ task' = [task EXCEPT ![c] = Idle]
    BY Zenon, <1>10 DEF createLocalNostrSigner, Finish, Become
  <2>2. "local" = "bunker" => task[c].pin \in RemoteKey BY Zenon
  <2> QED BY Zenon, <2>1, <2>2, HandKeeps
<1>11. CASE chatFails(c)
  BY Zenon, <1>11, <1>t, FinishKeeps DEF chatFails, SignerInv, LocalShown
<1> QED BY Zenon, <1>1, <1>2, <1>3, <1>4, <1>5, <1>6, <1>7, <1>8, <1>9, <1>10, <1>11 DEF Resume

\* What takes a remote signer.
LEMMA AnswerKeeps == ASSUME SignerInv, NEW c \in Call, Answer(c) PROVE SignerInv'
<1>t. /\ SignerTypes /\ OpenSession /\ task[c] \in CallState /\ identity \in Identity /\ task[c].pin \in Pin
      /\ stored \in RemoteKey \cup {Absent} /\ task \in [Call -> CallState] /\ Waiting(task[c])
  BY Zenon DEF SignerInv, SignerTypes, CallState, Pin
<1>1. CASE onauth(c)
  <2>1. identity' = [mode |-> "bunker", pubkey |-> task[c].pin, status |-> "authorization-required"]
    BY Zenon, <1>1 DEF onauth, publishIdentity
  <2>2. identity' \in Identity /\ identity'.mode = "bunker" BY Zenon, <2>1, <1>t DEF Identity
  <2>3. UNCHANGED <<remote, generation, stored, local, task, sessions, signed, ended>>
    BY Zenon, <1>1 DEF onauth
  <2>4. LocalShown' /\ OpenSession' /\ SignedAsShown'
    BY Zenon, <2>2, <2>3 DEF SignerInv, LocalShown, OpenSession, SignedAsShown
  <2> QED BY Zenon, <2>2, <2>3, <2>4 DEF SignerInv, SignerTypes
<1>2. CASE openAnswered(c)
  <2>1. UNCHANGED <<stored, local, sessions, signed>> BY Zenon, <1>2 DEF openAnswered
  <2>2. PICK signer \in RemoteKey :
          \/ /\ UNCHANGED <<remote, generation, ended, identity>>
             /\ Become(c, [task[c] EXCEPT !.ph = "save", !.answer = signer])
          \/ /\ UNCHANGED <<remote, generation, ended>>
             /\ publishIdentity("bunker", signer, "ready") /\ Finish(c)
          \/ Fail(c, task[c].pin)
    BY Zenon, <1>2 DEF openAnswered
  <2>3. ASSUME UNCHANGED <<remote, generation, ended, identity>>,
               Become(c, [task[c] EXCEPT !.ph = "save", !.answer = signer])
        PROVE  SignerInv'
    <3> DEFINE t == [task[c] EXCEPT !.ph = "save", !.answer = signer]
    <3>1. t \in CallState /\ t.ph = "save" BY Zenon, <1>t DEF CallState
    <3>2. Waiting(t) BY Zenon, <3>1 DEF Waiting
    <3> QED BY Zenon, <2>1, <2>3, <3>1, <3>2, TaskKeeps
  <2>4. ASSUME UNCHANGED <<remote, generation, ended>>, publishIdentity("bunker", signer, "ready"), Finish(c)
        PROVE  SignerInv'
    <3>1. identity' \in Identity /\ identity'.mode = "bunker"
      BY Zenon, <2>4 DEF publishIdentity, Identity, Pin
    <3> QED BY Zenon, <2>1, <2>4, <3>1, <1>t, FinishKeeps
  <2>5. ASSUME Fail(c, task[c].pin) PROVE SignerInv'
    BY Zenon, <2>1, <2>5, <1>t, FailKeeps
  <2> QED BY Zenon, <2>2, <2>3, <2>4, <2>5
<1>3. CASE signAnswered(c)
  <2>1. UNCHANGED <<stored, local, sessions>> /\ task[c].template \in Template
    BY Zenon, <1>3, <1>t DEF signAnswered, Waiting
  <2>2. PICK signer \in RemoteKey, event \in Template :
          \/ /\ signer = task[c].pin /\ sameTemplate(task[c].template, event)
             /\ Hand(signer, task[c].pin, "bunker", task[c].template, event)
             /\ Finish(c) /\ UNCHANGED <<identity, remote, generation, ended>>
          \/ Fail(c, task[c].pin) /\ UNCHANGED signed
    BY Zenon, <1>3 DEF signAnswered
  <2>3. ASSUME signer = task[c].pin, sameTemplate(task[c].template, event),
               Hand(signer, task[c].pin, "bunker", task[c].template, event),
               Finish(c), UNCHANGED <<identity, remote, generation, ended>>
        PROVE  SignerInv'
    <3>1. event = task[c].template BY Zenon, <2>1, <2>3, SameTemplateFact
    <3>2. task' = [task EXCEPT ![c] = Idle] BY Zenon, <2>3 DEF Finish, Become
    <3>3. UNCHANGED <<identity, remote, generation, stored, local, sessions, ended>> BY Zenon, <2>1, <2>3
    <3> QED BY Zenon, <2>3, <3>1, <3>2, <3>3, HandKeeps
  <2>4. ASSUME Fail(c, task[c].pin), UNCHANGED signed PROVE SignerInv'
    BY Zenon, <2>1, <2>4, <1>t, FailKeeps
  <2> QED BY Zenon, <2>2, <2>3, <2>4
<1>4. CASE bunkerSignEvent(c)
  <2>1. PICK signer \in RemoteKey, event \in Template : Hand(signer, Absent, "bunker", signBoundEvent, event)
    BY Zenon, <1>4 DEF bunkerSignEvent
  <2>2. /\ UNCHANGED <<identity, remote, generation, stored, local, sessions, ended>>
        /\ task' = [task EXCEPT ![c] = Idle]
    BY Zenon, <1>4 DEF bunkerSignEvent, Finish, Become
  <2> QED BY Zenon, <2>1, <2>2, HandKeeps
<1> QED BY Zenon, <1>1, <1>2, <1>3, <1>4 DEF Answer

\* The calls that begin.
LEMMA BeginKeeps ==
  ASSUME SignerInv, NEW c \in Call,
         handleConnectBunker(c) \/ handleReconnectBunker(c) \/ handleDisconnectBunker(c) \/ getNostrSigner(c)
         \/ \E template \in Template : signRemote(c, template)
  PROVE  SignerInv'
<1>t. /\ SignerTypes /\ OpenSession /\ identity \in Identity /\ identity.pubkey \in Pin /\ local \in Nat
      /\ remote # Absent => remote.session \in Nat /\ remote.generation \in Nat
  BY Zenon DEF SignerInv, SignerTypes, Identity
<1>b. ASSUME NEW op \in {"reconnect", "disconnect"}, NEW ph \in {"load", "clear", "closing"}
      PROVE  [Idle EXCEPT !.op = op, !.ph = ph] \in CallState /\ Waiting([Idle EXCEPT !.op = op, !.ph = ph])
  <2>1. [Idle EXCEPT !.op = op, !.ph = ph] \in CallState /\ [Idle EXCEPT !.op = op, !.ph = ph].ph = ph
    BY Zenon, IdleFact DEF CallState
  <2> QED BY Zenon, <2>1 DEF Waiting
<1>1. CASE handleConnectBunker(c)
  <2>1. open(c, "connect", Absent) /\ UNCHANGED <<stored, local, signed>>
    BY Zenon, <1>1 DEF handleConnectBunker, connectBunker
  <2>2. Absent \in Pin BY Zenon DEF Pin
  <2> QED BY Zenon, <2>1, <2>2, OpenKeeps
<1>2. CASE handleReconnectBunker(c)
  BY Zenon, <1>2, <1>b, TaskKeeps DEF handleReconnectBunker, Begin
<1>3. CASE handleDisconnectBunker(c)
  <2>1. PICK ph \in {"clear", "closing"} : Become(c, [Idle EXCEPT !.op = "disconnect", !.ph = ph])
    BY Zenon, <1>3 DEF handleDisconnectBunker, disconnectBunker, Begin
  <2>2. /\ remote' = Absent /\ generation' = generation + 1 /\ UNCHANGED <<identity, stored, local, sessions, signed>>
        /\ ended' = IF remote = Absent THEN ended ELSE ended \cup {remote.session}
    BY Zenon, <1>3 DEF handleDisconnectBunker, disconnectBunker, closeRemote
  <2>3. OpenSession' /\ generation' \in Nat BY Zenon, <1>t, <2>2, SessionsEnd DEF OpenSession
  <2> QED BY Zenon, <2>1, <2>2, <2>3, <1>b, SignerKeeps DEF Become, SignerInv, SignerTypes, LocalShown
<1>4. CASE getNostrSigner(c)
  <2>1. localNostrSigner \in CallState /\ Waiting(localNostrSigner)
    <3>1. /\ localNostrSigner \in CallState /\ localNostrSigner.ph = "held" /\ localNostrSigner.session = Absent
      BY Zenon, <1>t, IdleFact DEF localNostrSigner, CallState, Pin
    <3> QED BY Zenon, <3>1 DEF Waiting
  <2>2. remote # Absent => bunkerNostrSigner \in CallState /\ Waiting(bunkerNostrSigner)
    <3>1. remote # Absent => /\ bunkerNostrSigner \in CallState /\ bunkerNostrSigner.ph = "held"
                             /\ bunkerNostrSigner.pin = Absent
      BY Zenon, <1>t, IdleFact DEF bunkerNostrSigner, CallState, Pin
    <3> QED BY Zenon, <3>1 DEF Waiting
  <2> QED BY Zenon, <1>4, <2>1, <2>2, TaskKeeps DEF getNostrSigner
<1>5. ASSUME NEW template \in Template, signRemote(c, template) PROVE SignerInv'
  <2> DEFINE t == [Idle EXCEPT !.op = "sign", !.ph = "asked", !.pin = identity.pubkey,
                               !.session = remote.session, !.generation = remote.generation,
                               !.template = template]
  <2>1. Become(c, t) /\ remote # Absent /\ UNCHANGED <<identity, remote, generation, stored, local, sessions, signed, ended>>
    BY Zenon, <1>5 DEF signRemote
  <2>2. t \in CallState /\ t.ph = "asked" /\ t.template = template
    BY Zenon, <1>t, <2>1, IdleFact DEF CallState
  <2>3. Waiting(t) BY Zenon, <2>2 DEF Waiting
  <2> HIDE DEF t
  <2> QED BY Zenon, <2>1, <2>2, <2>3, TaskKeeps
<1> QED BY Zenon, <1>1, <1>2, <1>3, <1>4, <1>5

\* What needs no call in flight.
LEMMA AtOnceKeeps ==
  ASSUME SignerInv, handleGenerate \/ signLocalNip98AuthEvent \/ \E template \in Template : signLocal(template)
  PROVE  SignerInv'
<1>n. ASSUME NEW x PROVE "local" = "bunker" => x \in RemoteKey BY Zenon
<1>1. CASE handleGenerate
  <2>1. local' = local + 1 /\ refreshLocalIdentity /\ UNCHANGED <<remote, generation, stored, task, sessions, signed, ended>>
    BY Zenon, <1>1 DEF handleGenerate
  <2>2. local' \in Nat
    <3>1. local \in Nat BY Zenon DEF SignerInv, SignerTypes
    <3> QED BY SMT, <2>1, <3>1
  <2>3. identity' \in Identity /\ (identity'.mode = "local" => identity'.pubkey = local')
    <3>1. CASE identity.mode = "local"
      <4>1. identity' = [mode |-> "local", pubkey |-> local', status |-> "ready"]
        BY Zenon, <2>1, <3>1 DEF refreshLocalIdentity, publishIdentity
      <4> QED BY Zenon, <2>2, <4>1 DEF Identity, Pin
    <3>2. CASE identity.mode # "local"
      BY Zenon, <2>1, <3>2 DEF refreshLocalIdentity, SignerInv, SignerTypes
    <3> QED BY Zenon, <3>1, <3>2
  <2>4. LocalShown' /\ OpenSession' /\ SignedAsShown' /\ \A c \in Call : Waiting(task'[c])
    BY Zenon, <2>1, <2>3 DEF SignerInv, LocalShown, OpenSession, SignedAsShown
  <2> QED BY Zenon, <2>1, <2>2, <2>3, <2>4 DEF SignerInv, SignerTypes
<1>2. CASE signLocalNip98AuthEvent
  BY Zenon, <1>2, <1>n, HandKeeps DEF signLocalNip98AuthEvent
<1>3. ASSUME NEW template \in Template, signLocal(template) PROVE SignerInv'
  <2>1. identity.pubkey # Absent => local = identity.pubkey
    BY Zenon, <1>3 DEF signLocal, SignerInv, LocalShown
  <2> QED BY Zenon, <1>3, <1>n, <2>1, HandKeeps DEF signLocal
<1> QED BY Zenon, <1>1, <1>2, <1>3

\* SignerInv holds in every state.
LEMMA SignerInvariant == SignerSpec => []SignerInv
<1>1. SignerInit => SignerInv
  <2> SUFFICES ASSUME SignerInit PROVE SignerInv BY Zenon
  <2>1. 0 \in Nat /\ 1 \in Nat BY Zenon 
  <2>2. identity \in Identity /\ identity.pubkey = Absent BY Zenon DEF SignerInit, Identity, Pin
  <2> DEFINE t == [Idle EXCEPT !.op = "init", !.ph = "load"]
  <2>3. t \in CallState /\ t.ph = "load" BY Zenon, IdleFact DEF CallState
  <2>4. Waiting(t) BY Zenon, <2>3 DEF Waiting
  <2>5. \E c \in Call : task = [d \in Call |-> IF d = c THEN t ELSE Idle] BY Zenon DEF SignerInit
  <2> HIDE DEF t
  <2>6. task \in [Call -> CallState] /\ \A c \in Call : Waiting(task[c]) BY Zenon, <2>3, <2>4, <2>5, IdleFact
  <2>7. OpenSession /\ LocalShown /\ SignedAsShown
    BY Zenon, <2>2 DEF SignerInit, OpenSession, LocalShown, SignedAsShown
  <2>8. SignerTypes
    BY Zenon, <2>1, <2>2, <2>6 DEF SignerTypes, SignerInit
  <2> QED BY Zenon, <2>6, <2>7, <2>8 DEF SignerInv
<1>2. SignerInv /\ [SignerNext]_signerVars => SignerInv'
  <2> SUFFICES ASSUME SignerInv, [SignerNext]_signerVars PROVE SignerInv' BY Zenon
  <2>1. CASE SignerNext
    BY Zenon, <2>1, ResumeKeeps, AnswerKeeps, BeginKeeps, AtOnceKeeps DEF SignerNext, signEventAsync
  <2>2. CASE UNCHANGED signerVars
    BY Zenon, <2>2 DEF signerVars, SignerInv, SignerTypes, LocalShown, OpenSession, SignedAsShown
  <2> QED BY Zenon, <2>1, <2>2
<1> QED BY <1>1, <1>2, PTL DEF SignerSpec

\* A signature is the one that was asked for, by the key that was shown
\* (signWithActiveIdentity and the signers of getNostrSigner).
THEOREM SignaturesAreAsShown == SignerSpec => []SignedAsShown
<1>1. SignerInv => SignedAsShown BY Zenon DEF SignerInv
<1> QED BY <1>1, SignerInvariant, PTL

\* No signature of a session that has been closed or replaced (the checks of
\* signWithActiveIdentity after its await, and closeRemote).
THEOREM ClosedSessionsAreSilent == SignerSpec => NoLateSignature
<1> DEFINE Silent == \A c \in Call : task[c].ph \in {"asked", "held"} /\ task'[c] = Idle /\ signed' # signed
                                     => task[c].session \notin ended
<1>1. SignerInv /\ [SignerNext]_signerVars => [Silent]_signerVars
  <2> SUFFICES ASSUME SignerInv, SignerNext PROVE Silent BY Zenon
  <2> SUFFICES ASSUME NEW c \in Call, task[c].ph \in {"asked", "held"}, task'[c] = Idle, signed' # signed
               PROVE  task[c].session \notin ended
    BY Zenon
  <2>1. task[c] # Idle /\ task \in [Call -> CallState]
    BY Zenon, IdleFact DEF SignerInv, SignerTypes
  <2>2. PICK d \in Call : signAnswered(d) \/ createLocalNostrSigner(d) \/ bunkerSignEvent(d)
    <3>1. signed' = signed => FALSE BY Zenon
    <3>2. ~signLocalNip98AuthEvent /\ ~handleGenerate /\ \A template \in Template : ~signLocal(template)
      BY Zenon, <2>1 DEF signLocalNip98AuthEvent, handleGenerate, signLocal
    <3>3. \A d \in Call : \A template \in Template : ~signRemote(d, template)
      BY Zenon DEF signRemote
    <3>4. ASSUME NEW d \in Call, Resume(d) PROVE createLocalNostrSigner(d)
      BY Zenon, <3>4 DEF Resume, failed, initializeActiveSigner, openCloses, openSaved, deadline, reconnectBunker,
         disconnectCloses, disconnectClears, signFails, chatFails
    <3>5. ASSUME NEW d \in Call, Answer(d) PROVE signAnswered(d) \/ bunkerSignEvent(d)
      BY Zenon, <3>5 DEF Answer, onauth, openAnswered
    <3>6. ASSUME NEW d \in Call PROVE ~handleConnectBunker(d) /\ ~handleReconnectBunker(d)
                                      /\ ~handleDisconnectBunker(d) /\ ~getNostrSigner(d)
      BY Zenon DEF handleConnectBunker, handleReconnectBunker, handleDisconnectBunker, getNostrSigner
    <3> QED BY Zenon, <3>2, <3>3, <3>4, <3>5, <3>6 DEF SignerNext, signEventAsync
  <2>3. d = c
    <3>1. \E t : task' = [task EXCEPT ![d] = t]
      BY Zenon, <2>2 DEF signAnswered, createLocalNostrSigner, bunkerSignEvent, Fail, Finish, Become
    <3> QED BY Zenon, <3>1, <2>1
  <2>4. CASE signAnswered(c)
    <3>1. remote # Absent /\ remote.session = task[c].session
      BY Zenon, <2>4 DEF signAnswered
    <3> QED BY Zenon, <3>1 DEF SignerInv, OpenSession
  <2>5. CASE createLocalNostrSigner(c)
    <3>1. task[c].session = Absent
      BY Zenon, <2>5 DEF createLocalNostrSigner, SignerInv, Waiting
    <3> QED BY Zenon, <3>1, SignerAssumption DEF SignerInv, OpenSession
  <2>6. CASE bunkerSignEvent(c)
    BY Zenon, <2>6 DEF bunkerSignEvent
  <2> QED BY Zenon, <2>2, <2>3, <2>4, <2>5, <2>6
<1>2. SignerSpec => [][SignerNext]_signerVars BY PTL DEF SignerSpec
<1> QED BY <1>1, <1>2, SignerInvariant, PTL DEF NoLateSignature

-----------------------------------------------------------------------------
(* The NIP-05 label *)

LabelOrNone == Label \cup {NoName}
Answered == [status : Nat, label : LabelOrNone]
NipRequest ==
  [op : {"GET", "PUT", "DELETE"}, text : Text, from : {"load", "verify", "remove", "other"}, run : Nat,
   key : Key \cup {NoName}, ph : {"begun", "signed", "mapped", "answered", "over"}, waited : BOOLEAN,
   ans : Answered]
Claim == [identifier : LabelOrNone, valid_until : Nat]

NipTypes ==
  /\ users \in [Key -> Claim \cup {NoName}] /\ now \in Nat /\ reqs \in Seq(NipRequest)
  /\ pubkey \in Key /\ run \in Nat /\ loaded \in Nat /\ loaded <= run

\* A request that has been signed has a key; the load of the present run and, unless
\* the key changed under way, a verify or a remove have the active one.
Keyed(q) == q.ph \in {"signed", "mapped", "answered"} => q.key \in Key
Belongs(q, r, k, x) ==
  /\ q.waited /\ q.from = "load" => q.run <= r /\ (q.run = r /\ q.ph # "begun" => q.key = k)
  /\ q.waited /\ q.from \in {"verify", "remove"} /\ q.ph # "begun" => q.key = k \/ x
AllBelong == \A i \in DOMAIN reqs : Keyed(reqs[i]) /\ Belongs(reqs[i], run, pubkey, crossed)

NipInv == NipTypes /\ AllBelong /\ ShownForActiveKey

\* A list with an element more, or another one.
LEMMA ListFact ==
  ASSUME NEW S, NEW q \in Seq(S), NEW x \in S
  PROVE  /\ Append(q, x) \in Seq(S)
         /\ \A j \in DOMAIN Append(q, x) : Append(q, x)[j] = x \/ (j \in DOMAIN q /\ Append(q, x)[j] = q[j])
         /\ \A i \in DOMAIN q : /\ [q EXCEPT ![i] = x] \in Seq(S) /\ DOMAIN [q EXCEPT ![i] = x] = DOMAIN q
                                /\ [q EXCEPT ![i] = x][i] = x
                                /\ \A j \in DOMAIN q : j # i => [q EXCEPT ![i] = x][j] = q[j]
BY SMT

\* A request as it is made.
LEMMA RequestFact ==
  ASSUME NEW op \in {"GET", "PUT", "DELETE"}, NEW text \in Text,
         NEW from \in {"load", "verify", "remove", "other"}, NEW n \in Nat
  PROVE  /\ request(op, text, from, n) \in NipRequest /\ request(op, text, from, n).ph = "begun"
         /\ request(op, text, from, n).run = n /\ request(op, text, from, n).from = from
<1>1. 0 \in Nat BY Zenon 
<1> QED BY Zenon, <1>1 DEF request, NipRequest, Answered, LabelOrNone

\* A request nobody waits for.
LEMMA OverFact ==
  /\ Over \in NipRequest /\ Over.ph = "over" /\ Over.waited = FALSE /\ Over.ans.status = 0
  /\ \A s \in Nat : LET o == [Over EXCEPT !.ans.status = s] IN
       o \in NipRequest /\ o.ph = "over" /\ o.waited = FALSE /\ o.ans.status = s
<1>1. 0 \in Nat /\ <<NoName, "other">> \in Text BY Zenon DEF Text
<1>2. request("GET", <<NoName, "other">>, "other", 0) \in NipRequest
  BY Zenon, <1>1, RequestFact
<1>3. Over \in NipRequest /\ Over.ph = "over" /\ Over.waited = FALSE
  BY Zenon, <1>2 DEF Over, NipRequest
<1>4. Over.ans.status = 0
  BY Zenon DEF Over, request
<1>5. ASSUME NEW s \in Nat
      PROVE  LET o == [Over EXCEPT !.ans.status = s] IN
               o \in NipRequest /\ o.ph = "over" /\ o.waited = FALSE /\ o.ans.status = s
  <2> DEFINE a == [Over.ans EXCEPT !.status = s]
             o == [Over EXCEPT !.ans = a]
  <2>1. a \in Answered /\ a.status = s BY Zenon, <1>3 DEF NipRequest, Answered
  <2>2. [Over EXCEPT !.ans.status = s] = o BY Zenon 
  <2> HIDE DEF a
  <2>3. o \in NipRequest /\ o.ph = "over" /\ o.waited = FALSE /\ o.ans = a
    BY Zenon, <1>3, <2>1 DEF NipRequest
  <2> QED BY Zenon, <2>1, <2>2, <2>3
<1> QED BY Zenon, <1>3, <1>4, <1>5

\* What a reply makes of a request.
LEMMA ReplyFact ==
  ASSUME NipTypes, AllBelong, NEW i \in DOMAIN reqs, NEW s \in Nat, NEW l \in LabelOrNone, Reply(i, s, l),
         reqs[i].ph \in {"signed", "mapped"}
  PROVE  \E q \in NipRequest : /\ reqs' = [reqs EXCEPT ![i] = q] /\ q.ans.status = s
                               /\ Keyed(q) /\ Belongs(q, run, pubkey, crossed)
<1>1. reqs[i] \in NipRequest BY SMT DEF NipTypes
<1>2. CASE reqs[i].waited
  <2> DEFINE a == [status |-> s, label |-> l]
             q == [reqs[i] EXCEPT !.ph = "answered", !.ans = a]
  <2>1. a \in Answered /\ a.status = s BY Zenon DEF Answered
  <2>2. reqs' = [reqs EXCEPT ![i] = q] BY Zenon, <1>2 DEF Reply
  <2> HIDE DEF a
  <2>3. /\ q \in NipRequest /\ q.ph = "answered" /\ q.ans = a /\ q.key = reqs[i].key /\ q.run = reqs[i].run
        /\ q.from = reqs[i].from /\ q.waited = reqs[i].waited
    BY Zenon, <1>1, <2>1 DEF NipRequest
  <2> HIDE DEF q
  <2>4. Keyed(q) /\ Belongs(q, run, pubkey, crossed)
    BY Zenon, <2>3 DEF AllBelong, Keyed, Belongs
  <2> QED BY Zenon, <2>1, <2>2, <2>3, <2>4
<1>3. CASE ~reqs[i].waited
  <2> DEFINE o == [Over EXCEPT !.ans.status = s]
  <2>1. reqs' = [reqs EXCEPT ![i] = o] BY Zenon, <1>3 DEF Reply
  <2>2. o \in NipRequest /\ o.ph = "over" /\ o.waited = FALSE /\ o.ans.status = s BY Zenon, OverFact
  <2> HIDE DEF o
  <2>3. Keyed(o) /\ Belongs(o, run, pubkey, crossed) BY Zenon, <2>2 DEF Keyed, Belongs
  <2> QED BY Zenon, <2>1, <2>2, <2>3
<1> QED BY Zenon, <1>2, <1>3

\* A request is replaced, or one is added, and the section stays as it is.
LEMMA RequestsKeep ==
  ASSUME NipInv, NEW q \in NipRequest, Keyed(q), Belongs(q, run, pubkey, crossed),
         reqs' = Append(reqs, q) \/ \E i \in DOMAIN reqs : reqs' = [reqs EXCEPT ![i] = q],
         UNCHANGED <<pubkey, run, loaded, crossed>>, users' \in [Key -> Claim \cup {NoName}], now' \in Nat,
         ShownForActiveKey'
  PROVE  NipInv'
<1>1. reqs \in Seq(NipRequest) BY Zenon DEF NipInv, NipTypes
<1>2. /\ reqs' \in Seq(NipRequest)
      /\ \A j \in DOMAIN reqs' : reqs'[j] = q \/ (j \in DOMAIN reqs /\ reqs'[j] = reqs[j])
  <2>1. CASE reqs' = Append(reqs, q)
    <3>1. /\ Append(reqs, q) \in Seq(NipRequest)
          /\ \A j \in DOMAIN Append(reqs, q) : Append(reqs, q)[j] = q \/ (j \in DOMAIN reqs /\ Append(reqs, q)[j] = reqs[j])
      BY Zenon, <1>1, ListFact
    <3> QED BY Zenon, <3>1, <2>1
  <2>2. ASSUME NEW i \in DOMAIN reqs, reqs' = [reqs EXCEPT ![i] = q] PROVE <1>2!1 /\ <1>2!2
    <3>1. /\ reqs' \in Seq(NipRequest) /\ DOMAIN reqs' = DOMAIN reqs /\ reqs'[i] = q
          /\ \A j \in DOMAIN reqs : j # i => reqs'[j] = reqs[j]
      BY Zenon, <2>2, <1>1, ListFact
    <3> QED BY Zenon, <3>1
  <2> QED BY Zenon, <2>1, <2>2
<1>3. AllBelong' BY Zenon, <1>2 DEF NipInv, AllBelong
<1> QED BY Zenon, <1>2, <1>3 DEF NipInv, NipTypes

\* The page.
LEMMA PageBelongs ==
  ASSUME NipInv,
         \/ (\E k \in Device : changeKey(k)) \/ (\E text \in Text : verify(text)) \/ remove
         \/ \E i \in DOMAIN reqs : sign(i) \/ answered(i) \/ requestFails(i)
  PROVE  NipInv'
<1>t. /\ reqs \in Seq(NipRequest) /\ pubkey \in Key /\ run \in Nat /\ loaded \in Nat /\ loaded <= run
      /\ users \in [Key -> Claim \cup {NoName}] /\ now \in Nat
  BY Zenon DEF NipInv, NipTypes
<1>q. ASSUME NEW i \in DOMAIN reqs PROVE reqs[i] \in NipRequest /\ Keyed(reqs[i]) /\ Belongs(reqs[i], run, pubkey, crossed)
  <2>1. reqs[i] \in NipRequest BY SMT, <1>t
  <2> QED BY Zenon, <2>1 DEF NipInv, AllBelong
<1>n. <<NoName, "other">> \in Text BY Zenon DEF Text
<1>s. ASSUME UNCHANGED <<shown, loaded, run, pubkey, crossed>> PROVE ShownForActiveKey'
  BY Zenon, <1>s DEF NipInv, ShownForActiveKey
<1>o. Keyed(Over) /\ Belongs(Over, run, pubkey, crossed)
  BY Zenon, OverFact DEF Keyed, Belongs
<1>1. ASSUME NEW k \in Device, changeKey(k) PROVE NipInv'
  <2> DEFINE q == request("GET", <<NoName, "other">>, "load", run + 1)
  <2>1. /\ pubkey' = k /\ run' = run + 1 /\ reqs' = Append(reqs, q) /\ UNCHANGED <<shown, loaded, users, now>>
        /\ crossed' = (crossed \/ \E i \in UnderWay : reqs[i].from # "load")
    BY Zenon, <1>1 DEF changeKey, server
  <2>2. run' \in Nat /\ loaded' \in Nat /\ loaded' <= run' /\ loaded' # run' /\ run' <= run'
    BY SMT, <2>1, <1>t
  <2>3. q \in NipRequest /\ q.ph = "begun" /\ q.run = run' /\ q.from = "load"
    <3>1. run + 1 \in Nat /\ "GET" \in {"GET", "PUT", "DELETE"} /\ "load" \in {"load", "verify", "remove", "other"}
      BY SMT, <1>t
    <3>2. q \in NipRequest /\ q.ph = "begun" /\ q.run = run + 1 /\ q.from = "load"
      BY SMT, <3>1, <1>n, RequestFact
    <3> QED BY Zenon, <3>2, <2>1
  <2> HIDE DEF q
  <2>4. /\ reqs' \in Seq(NipRequest)
        /\ \A j \in DOMAIN reqs' : reqs'[j] = q \/ (j \in DOMAIN reqs /\ reqs'[j] = reqs[j])
    <3>1. /\ Append(reqs, q) \in Seq(NipRequest)
          /\ \A j \in DOMAIN Append(reqs, q) : Append(reqs, q)[j] = q \/ (j \in DOMAIN reqs /\ Append(reqs, q)[j] = reqs[j])
      BY Zenon, <2>3, <1>t, ListFact
    <3> QED BY Zenon, <3>1, <2>1
  <2>5. Keyed(q) /\ Belongs(q, run', pubkey', crossed')
    BY Zenon, <2>2, <2>3 DEF Keyed, Belongs
  <2>6. ASSUME NEW j \in DOMAIN reqs PROVE Keyed(reqs[j]) /\ Belongs(reqs[j], run', pubkey', crossed')
    <3>1. reqs[j].run <= run => reqs[j].run <= run' /\ reqs[j].run # run'
      <4>1. reqs[j].run \in Nat BY Zenon, <1>q DEF NipRequest
      <4> QED BY SMT, <4>1, <2>1, <1>t
    <3>2. reqs[j].waited /\ reqs[j].from \in {"verify", "remove"} => crossed'
      BY Zenon, <2>1 DEF UnderWay
    <3> QED BY Zenon, <3>1, <3>2, <1>q DEF Belongs
  <2>7. AllBelong' BY Zenon, <2>4, <2>5, <2>6 DEF AllBelong
  <2>8. ShownForActiveKey' BY Zenon, <2>2 DEF ShownForActiveKey
  <2> QED BY Zenon, <2>1, <2>2, <2>4, <2>7, <2>8, <1>t DEF NipInv, NipTypes, Key
<1>2. ASSUME NEW op \in {"PUT", "DELETE"}, NEW text \in Text, NEW from \in {"verify", "remove"},
             reqs' = Append(reqs, request(op, text, from, run)),
             UNCHANGED <<server, pubkey, shown, run, loaded, crossed>>
      PROVE  NipInv'
  <2> DEFINE q == request(op, text, from, run)
  <2>1. q \in NipRequest /\ q.ph = "begun" /\ q.run = run /\ q.from = from
    <3>1. op \in {"GET", "PUT", "DELETE"} /\ from \in {"load", "verify", "remove", "other"}
      BY Zenon
    <3> QED BY SMT, <3>1, <1>t, RequestFact
  <2> HIDE DEF q
  <2>2. Keyed(q) /\ Belongs(q, run, pubkey, crossed) BY Zenon, <2>1 DEF Keyed, Belongs
  <2>3. reqs' = Append(reqs, q) BY Zenon, <1>2 DEF q
  <2> QED BY Zenon, <1>2, <2>1, <2>2, <2>3, <1>s, <1>t, RequestsKeep DEF server
<1>3. ASSUME NEW text \in Text, verify(text) PROVE NipInv'
  BY Zenon, <1>3, <1>2 DEF verify
<1>4. CASE remove
  BY Zenon, <1>4, <1>n, <1>2 DEF remove
<1>5. ASSUME NEW i \in DOMAIN reqs, sign(i) PROVE NipInv'
  <2> DEFINE q == [reqs[i] EXCEPT !.ph = "signed", !.key = pubkey]
  <2>1. reqs' = [reqs EXCEPT ![i] = q] /\ UNCHANGED <<pubkey, run, loaded, crossed, shown, users, now>>
    BY Zenon, <1>5 DEF sign, section, server
  <2>2. /\ q \in NipRequest /\ q.ph = "signed" /\ q.key = pubkey /\ q.run = reqs[i].run
        /\ q.from = reqs[i].from /\ q.waited = reqs[i].waited
    BY Zenon, <1>q, <1>t DEF NipRequest
  <2> HIDE DEF q
  <2>3. Keyed(q) /\ Belongs(q, run, pubkey, crossed)
    BY Zenon, <2>2, <1>q, <1>t DEF Keyed, Belongs
  <2> QED BY Zenon, <2>1, <2>2, <2>3, <1>s, <1>t, RequestsKeep
<1>6. ASSUME NEW i \in DOMAIN reqs, answered(i) PROVE NipInv'
  <2>1. /\ reqs' = [reqs EXCEPT ![i] = Over] /\ Received(i) /\ UNCHANGED <<users, now, pubkey, run, crossed>>
        /\ reqs[i].waited /\ reqs[i].ph = "answered"
    BY Zenon, <1>6 DEF answered, server, UnderWay
  <2>2. Labelled(i).of = reqs[i].key BY Zenon DEF Labelled
  <2>3. CASE reqs[i].from = "load" /\ getNip05Identity(i)
    <3>1. CASE reqs[i].run # run
      BY Zenon, <3>1, <2>1, <2>3, <1>o, <1>s, <1>t, OverFact, RequestsKeep DEF getNip05Identity
    <3>2. CASE reqs[i].run = run
      <4>1. reqs[i].key = pubkey BY Zenon, <3>2, <2>1, <2>3, <1>q DEF Belongs
      <4>2. loaded' \in {loaded, run} /\ (loaded' # loaded \/ shown' # shown => shown' \in {NoName, Labelled(i)})
        BY Zenon, <3>2, <2>3 DEF getNip05Identity, parseResponse
      <4>3. ShownForActiveKey'
        BY Zenon, <4>1, <4>2, <2>1, <2>2 DEF NipInv, ShownForActiveKey
      <4>4. loaded' \in Nat /\ loaded' <= run' BY SMT, <4>2, <2>1, <1>t
      <4>5. reqs' \in Seq(NipRequest) /\ \A j \in DOMAIN reqs' : reqs'[j] = Over \/ (j \in DOMAIN reqs /\ reqs'[j] = reqs[j])
        BY Zenon, <2>1, <1>t, OverFact, ListFact
      <4>6. AllBelong' BY Zenon, <4>5, <2>1, <1>o, <1>q DEF AllBelong
      <4> QED BY Zenon, <2>1, <4>3, <4>4, <4>5, <4>6, <1>t DEF NipInv, NipTypes
    <3> QED BY Zenon, <3>1, <3>2
  <2>4. CASE reqs[i].from \in {"verify", "remove"} /\ (verifyNip05Identity(i) \/ removeNip05Identity(i))
    <3>1. reqs[i].key = pubkey \/ crossed BY Zenon, <2>1, <2>4, <1>q DEF Belongs
    <3>2. loaded' = loaded /\ shown' \in {shown, NoName, Labelled(i)}
      BY Zenon, <2>4 DEF verifyNip05Identity, removeNip05Identity, parseResponse
    <3>3. ShownForActiveKey' BY Zenon, <3>1, <3>2, <2>1, <2>2 DEF NipInv, ShownForActiveKey
    <3> QED BY Zenon, <3>2, <3>3, <2>1, <1>o, <1>t, OverFact, RequestsKeep
  <2> QED BY Zenon, <2>1, <2>3, <2>4 DEF Received
<1>7. ASSUME NEW i \in DOMAIN reqs, requestFails(i) PROVE NipInv'
  <2>1. UNCHANGED <<users, now, pubkey, shown, run, loaded, crossed>>
    BY Zenon, <1>7 DEF requestFails, server
  <2>2. CASE reqs[i].ph = "begun"
    <3>1. reqs' = [reqs EXCEPT ![i] = Over] BY Zenon, <1>7, <2>2 DEF requestFails
    <3> QED BY Zenon, <3>1, <2>1, <1>o, <1>s, <1>t, OverFact, RequestsKeep
  <2>3. CASE reqs[i].ph # "begun"
    <3> DEFINE q == [reqs[i] EXCEPT !.waited = FALSE]
    <3>1. reqs' = [reqs EXCEPT ![i] = q] BY Zenon, <1>7, <2>3 DEF requestFails
    <3>2. q \in NipRequest /\ q.waited = FALSE /\ q.ph = reqs[i].ph /\ q.key = reqs[i].key
      BY Zenon, <1>q DEF NipRequest
    <3> HIDE DEF q
    <3>3. Keyed(q) /\ Belongs(q, run, pubkey, crossed) BY Zenon, <3>2, <1>q DEF Keyed, Belongs
    <3> QED BY Zenon, <3>1, <3>2, <3>3, <2>1, <1>s, <1>t, RequestsKeep
  <2> QED BY Zenon, <2>2, <2>3
<1> QED BY Zenon, <1>1, <1>3, <1>4, <1>5, <1>6, <1>7

\* The status of an answer to a label that another key holds.
Conflict == 409

\* What the gateway answers, and what it stores.
LEMMA ServedFact ==
  ASSUME NipInv, NEW i \in DOMAIN reqs,
         current_identity(i) \/ fetch_document(i) \/ set_identity(i) \/ delete_identity(i) \/ refused(i)
  PROVE  /\ users' \in [Key -> Claim \cup {NoName}] /\ UNCHANGED <<now, section>>
         /\ reqs[i].ph \in {"signed", "mapped"}
         /\ \/ \E s \in Nat, l \in LabelOrNone :
                 Reply(i, s, l) /\ (s = Conflict => set_identity(i) /\ users' = users)
            \/ reqs[i].ph = "signed" /\ reqs' = [reqs EXCEPT ![i].ph = "mapped"]
<1>t. users \in [Key -> Claim \cup {NoName}] /\ now \in Nat /\ reqs[i] \in NipRequest
      /\ (reqs[i].ph \in {"signed", "mapped"} => reqs[i].key \in Key)
  <2>1. reqs[i] \in NipRequest BY SMT DEF NipInv, NipTypes
  <2> QED BY Zenon, <2>1 DEF NipInv, NipTypes, AllBelong, Keyed
<1>c. /\ 200 \in Nat /\ 400 \in Nat /\ 422 \in Nat /\ Conflict \in Nat /\ 204 \in Nat /\ 429 \in Nat
      /\ 200 # Conflict /\ 400 # Conflict /\ 422 # Conflict /\ 204 # Conflict /\ 429 # Conflict
  BY SMT DEF Conflict
<1>l. NoName \in LabelOrNone /\ canonical_identifier(reqs[i].text) \in LabelOrNone
  <2>1. reqs[i].text \in Text BY Zenon, <1>t DEF NipRequest
  <2> QED BY SMT, <2>1 DEF Text, canonical_identifier, LabelOrNone
<1>r. ASSUME NEW s \in Nat, s # Conflict, NEW l \in LabelOrNone, Reply(i, s, l)
      PROVE  \E s_1 \in Nat, l_1 \in LabelOrNone :
               Reply(i, s_1, l_1) /\ (s_1 = Conflict => set_identity(i) /\ users' = users)
  BY Zenon, <1>r
<1>1. CASE current_identity(i)
  <2>1. reqs[i].ph = "signed" /\ UNCHANGED <<users, now, section>>
    BY Zenon, <1>1 DEF current_identity, Serve, Answers
  <2> DEFINE l == IF users[reqs[i].key] = NoName THEN NoName ELSE users[reqs[i].key].identifier
  <2>2. Reply(i, 200, l) BY Zenon, <1>1 DEF current_identity
  <2>3. l \in LabelOrNone
    <3>1. users[reqs[i].key] \in Claim \cup {NoName} BY Zenon, <2>1, <1>t
    <3> QED BY Zenon, <3>1, <1>l DEF Claim
  <2> HIDE DEF l
  <2> QED BY SMT, <2>1, <2>2, <2>3, <1>c, <1>t, <1>r
<1>2. CASE fetch_document(i)
  <2>1. reqs[i].ph = "signed" /\ UNCHANGED <<users, now, section>>
    BY Zenon, <1>2 DEF fetch_document, Serve, Answers
  <2>2. Reply(i, 400, NoName) \/ Reply(i, 422, NoName) \/ reqs' = [reqs EXCEPT ![i].ph = "mapped"]
    BY Zenon, <1>2 DEF fetch_document
  <2> QED BY SMT, <2>1, <2>2, <1>c, <1>l, <1>t, <1>r
<1>3. CASE set_identity(i)
  <2> DEFINE label == canonical_identifier(reqs[i].text)
             us == withoutExpired(label)
             claim == [identifier |-> label, valid_until |-> now + TTL]
  <2>1. reqs[i].ph = "mapped" /\ UNCHANGED <<now, section>>
    BY Zenon, <1>3 DEF set_identity, Answers
  <2>2. \/ Reply(i, Conflict, NoName) /\ UNCHANGED users
        \/ users' = [us EXCEPT ![reqs[i].key] = claim] /\ Reply(i, 200, label)
    BY Zenon, <1>3 DEF set_identity, Conflict
  <2>3. us \in [Key -> Claim \cup {NoName}]
    BY Zenon, <1>t DEF withoutExpired
  <2>4. claim \in Claim
    <3>1. now + TTL \in Nat BY SMT, <1>t, NipAssumption
    <3> QED BY Zenon, <3>1, <1>l DEF Claim
  <2> HIDE DEF us, claim
  <2>5. [us EXCEPT ![reqs[i].key] = claim] \in [Key -> Claim \cup {NoName}]
    BY Zenon, <2>3, <2>4
  <2> QED BY SMT, <1>3, <2>1, <2>2, <2>5, <1>c, <1>l, <1>t, <1>r
<1>4. CASE delete_identity(i)
  <2>1. /\ reqs[i].ph = "signed" /\ UNCHANGED <<now, section>> /\ Reply(i, 204, NoName)
        /\ users' = [users EXCEPT ![reqs[i].key] = NoName]
    BY Zenon, <1>4 DEF delete_identity, Serve, Answers
  <2>2. users' \in [Key -> Claim \cup {NoName}] BY Zenon, <2>1, <1>t
  <2> QED BY SMT, <2>1, <2>2, <1>c, <1>l, <1>r
<1>5. CASE refused(i)
  <2>1. reqs[i].ph = "signed" /\ UNCHANGED <<users, now, section>> /\ Reply(i, 429, NoName)
    BY Zenon, <1>5 DEF refused, Serve, server
  <2> QED BY SMT, <2>1, <1>c, <1>l, <1>t, <1>r
<1> QED BY Zenon, <1>1, <1>2, <1>3, <1>4, <1>5

\* NipInv is inductive.
LEMMA NipStep == ASSUME NipInv, NipNext PROVE NipInv'
<1>t. /\ reqs \in Seq(NipRequest) /\ users \in [Key -> Claim \cup {NoName}] /\ now \in Nat
  BY Zenon DEF NipInv, NipTypes
<1>s. ASSUME UNCHANGED <<shown, loaded, run, pubkey, crossed>> PROVE ShownForActiveKey'
  BY Zenon, <1>s DEF NipInv, ShownForActiveKey
<1>1. ASSUME NEW i \in DOMAIN reqs,
             current_identity(i) \/ fetch_document(i) \/ set_identity(i) \/ delete_identity(i) \/ refused(i)
      PROVE  NipInv'
  <2>1. /\ users' \in [Key -> Claim \cup {NoName}] /\ UNCHANGED <<now, section>>
        /\ reqs[i].ph \in {"signed", "mapped"}
        /\ \/ \E s \in Nat, l \in LabelOrNone : Reply(i, s, l)
           \/ reqs[i].ph = "signed" /\ reqs' = [reqs EXCEPT ![i].ph = "mapped"]
    BY Zenon, <1>1, ServedFact
  <2>2. PICK q \in NipRequest : reqs' = [reqs EXCEPT ![i] = q] /\ Keyed(q) /\ Belongs(q, run, pubkey, crossed)
    <3>1. CASE \E s \in Nat, l \in LabelOrNone : Reply(i, s, l)
      BY Zenon, <3>1, <2>1, ReplyFact DEF NipInv
    <3>2. CASE reqs[i].ph = "signed" /\ reqs' = [reqs EXCEPT ![i].ph = "mapped"]
      <4> DEFINE q == [reqs[i] EXCEPT !.ph = "mapped"]
      <4>1. reqs[i] \in NipRequest BY SMT, <1>t
      <4>2. reqs' = [reqs EXCEPT ![i] = q] BY Zenon, <3>2
      <4>3. /\ q \in NipRequest /\ q.ph = "mapped" /\ q.key = reqs[i].key /\ q.run = reqs[i].run
            /\ q.from = reqs[i].from /\ q.waited = reqs[i].waited
        BY Zenon, <4>1 DEF NipRequest
      <4> HIDE DEF q
      <4>4. Keyed(q) /\ Belongs(q, run, pubkey, crossed)
        BY Zenon, <4>3, <3>2 DEF NipInv, AllBelong, Keyed, Belongs
      <4> QED BY Zenon, <4>2, <4>3, <4>4
    <3> QED BY Zenon, <2>1, <3>1, <3>2
  <2> QED BY Zenon, <2>1, <2>2, <1>s, <1>t, RequestsKeep DEF section
<1>2. ASSUME NEW label \in Label, NEW k \in Other, otherVerifies(k, label) PROVE NipInv'
  <2> DEFINE p == request("PUT", <<label, "mixed">>, "other", 0)
             q == [p EXCEPT !.ph = "signed", !.key = k, !.waited = FALSE]
  <2>1. reqs' = Append(reqs, q) /\ UNCHANGED <<pubkey, run, loaded, crossed, shown, users, now>>
    BY Zenon, <1>2 DEF otherVerifies, section, server
  <2>2. p \in NipRequest
    <3>1. <<label, "mixed">> \in Text /\ 0 \in Nat /\ "PUT" \in {"GET", "PUT", "DELETE"}
          /\ "other" \in {"load", "verify", "remove", "other"}
      BY Zenon DEF Text
    <3> QED BY SMT, <3>1, RequestFact
  <2> HIDE DEF p
  <2>3. q \in NipRequest /\ q.ph = "signed" /\ q.key = k /\ q.waited = FALSE
    BY Zenon, <2>2 DEF NipRequest, Key
  <2> HIDE DEF q
  <2>4. Keyed(q) /\ Belongs(q, run, pubkey, crossed) BY Zenon, <2>3 DEF Keyed, Belongs, Key
  <2> QED BY Zenon, <2>1, <2>3, <2>4, <1>s, <1>t, RequestsKeep
<1>3. ASSUME UNCHANGED <<users, reqs, section>>, now' \in Nat PROVE NipInv'
  BY Zenon, <1>3, <1>s DEF section, NipInv, NipTypes, AllBelong
<1>4. ASSUME NEW label \in Label, NEW k \in Key \cup {NoName}, domainEdits(label, k) PROVE NipInv'
  BY Zenon, <1>4, <1>3, <1>t DEF domainEdits
<1>5. CASE NipTick
  <2>1. now' \in Nat BY SMT, <1>5, <1>t DEF NipTick
  <2> QED BY Zenon, <2>1, <1>5, <1>3 DEF NipTick
<1> QED BY Zenon, <1>1, <1>2, <1>4, <1>5, PageBelongs DEF NipNext

\* NipInv holds in every state.
LEMMA NipInvariant == NipSpec => []NipInv
<1>1. NipInit => NipInv
  <2> SUFFICES ASSUME NipInit PROVE NipInv BY Zenon
  <2> DEFINE q == request("GET", <<NoName, "other">>, "load", 1)
  <2>1. reqs = <<q>> /\ now = 0 /\ pubkey \in Key /\ run = 1 /\ loaded = 0 /\ shown = NoName
    BY Zenon DEF NipInit, Key
  <2>2. q \in NipRequest /\ q.ph = "begun" /\ q.run = 1 /\ q.from = "load"
    <3>1. <<NoName, "other">> \in Text /\ 1 \in Nat /\ "GET" \in {"GET", "PUT", "DELETE"}
          /\ "load" \in {"load", "verify", "remove", "other"}
      BY Zenon DEF Text
    <3> QED BY SMT, <3>1, RequestFact
  <2> HIDE DEF q
  <2>3. reqs \in Seq(NipRequest) /\ (\A i \in DOMAIN reqs : reqs[i] = q) /\ now \in Nat /\ run \in Nat
        /\ loaded \in Nat /\ loaded <= run /\ q.run <= run
    BY SMT, <2>1, <2>2
  <2>4. users \in [Key -> Claim \cup {NoName}]
    <3>1. PICK l \in Label, k \in Key \cup {NoName} :
            users = [j \in Key |-> IF j = k THEN [identifier |-> l, valid_until |-> TTL] ELSE NoName]
      BY Zenon DEF NipInit
    <3>2. [identifier |-> l, valid_until |-> TTL] \in Claim BY Zenon, NipAssumption DEF Claim, LabelOrNone
    <3> QED BY Zenon, <3>1, <3>2
  <2>5. AllBelong BY Zenon, <2>2, <2>3 DEF AllBelong, Keyed, Belongs
  <2> QED BY Zenon, <2>1, <2>3, <2>4, <2>5 DEF NipInv, NipTypes, ShownForActiveKey
<1>2. NipInv /\ [NipNext]_nipVars => NipInv'
  <2> SUFFICES ASSUME NipInv, UNCHANGED nipVars PROVE NipInv' BY Zenon, NipStep
  <2> QED BY Zenon DEF nipVars, server, section, NipInv, NipTypes, AllBelong, ShownForActiveKey
<1> QED BY <1>1, <1>2, PTL DEF NipSpec

\* The section shows a label of the active key (Nip05IdentitySection.tsx).
THEOREM LabelsAreOfTheActiveKey == NipSpec => []ShownForActiveKey
<1>1. NipInv => ShownForActiveKey BY Zenon DEF NipInv
<1> QED BY <1>1, NipInvariant, PTL

\* A conflict is with a claim that is still valid (set_identity of identity.rs).
THEOREM ConflictsAreCurrent == NipSpec => ConflictIsCurrent
<1> DEFINE Current == \A i \in DOMAIN reqs : reqs'[i].ans.status = Conflict /\ reqs[i].ans.status # Conflict =>
                        \E k \in Key : /\ Carries(users, k, canonical_identifier(reqs[i].text))
                                       /\ users[k].valid_until > now
<1>1. NipInv /\ [NipNext]_nipVars => [Current]_nipVars
  <2> SUFFICES ASSUME NipInv, NipNext, NEW i \in DOMAIN reqs, reqs'[i].ans.status = Conflict,
                      reqs[i].ans.status # Conflict
               PROVE  \E k \in Key : /\ Carries(users, k, canonical_identifier(reqs[i].text))
                                     /\ users[k].valid_until > now
    BY Zenon 
  <2>t. /\ reqs \in Seq(NipRequest) /\ users \in [Key -> Claim \cup {NoName}] /\ now \in Nat
    BY Zenon DEF NipInv, NipTypes
  <2>1. ASSUME NEW j \in DOMAIN reqs, NEW q \in NipRequest, reqs' = [reqs EXCEPT ![j] = q] PROVE j = i /\ q.ans.status = Conflict
    <3>1. reqs'[j] = q /\ (i # j => reqs'[i] = reqs[i]) BY Zenon, <2>1, <2>t, ListFact
    <3> QED BY Zenon, <3>1
  <2>2. ASSUME NEW q \in NipRequest, reqs' = Append(reqs, q) PROVE FALSE
    <3>1. reqs'[i] = reqs[i] BY SMT, <2>2, <2>t
    <3> QED BY Zenon, <3>1
  <2>o. Over.ans.status # Conflict BY SMT, OverFact DEF Conflict
  <2>3. ASSUME NEW j \in DOMAIN reqs,
               current_identity(j) \/ fetch_document(j) \/ set_identity(j) \/ delete_identity(j) \/ refused(j)
        PROVE  set_identity(i) /\ users' = users
    <3>1. CASE \E s \in Nat, l \in LabelOrNone : Reply(j, s, l) /\ (s = Conflict => set_identity(j) /\ users' = users)
      <4>1. PICK s \in Nat, l \in LabelOrNone : Reply(j, s, l) /\ (s = Conflict => set_identity(j) /\ users' = users)
        BY Zenon, <3>1
      <4>2. PICK q \in NipRequest : reqs' = [reqs EXCEPT ![j] = q] /\ q.ans.status = s
        <5>1. reqs[j].ph \in {"signed", "mapped"} BY Zenon, <2>3, ServedFact
        <5>2. NipTypes /\ AllBelong BY Zenon DEF NipInv
        <5> QED BY Zenon, <4>1, <5>1, <5>2, ReplyFact
      <4> QED BY Zenon, <4>1, <4>2, <2>1
    <3>2. CASE reqs' = [reqs EXCEPT ![j].ph = "mapped"]
      <4> DEFINE q == [reqs[j] EXCEPT !.ph = "mapped"]
      <4>1. reqs[j] \in NipRequest BY SMT, <2>t
      <4>2. q \in NipRequest /\ q.ans = reqs[j].ans BY Zenon, <4>1 DEF NipRequest
      <4>3. reqs' = [reqs EXCEPT ![j] = q] BY Zenon, <3>2
      <4> HIDE DEF q
      <4> QED BY Zenon, <4>2, <4>3, <2>1
    <3> QED BY Zenon, <3>1, <3>2, <2>3, ServedFact
  <2>4. set_identity(i) /\ users' = users
    <3>1. ASSUME NEW j \in DOMAIN reqs, sign(j) PROVE FALSE
      <4> DEFINE q == [reqs[j] EXCEPT !.ph = "signed", !.key = pubkey]
      <4>1. reqs[j] \in NipRequest /\ pubkey \in Key
        <5>1. reqs[j] \in NipRequest BY SMT, <2>t
        <5> QED BY Zenon, <5>1 DEF NipInv, NipTypes
      <4>2. q \in NipRequest /\ q.ans = reqs[j].ans BY Zenon, <4>1 DEF NipRequest
      <4>3. reqs' = [reqs EXCEPT ![j] = q] BY Zenon, <3>1 DEF sign
      <4> HIDE DEF q
      <4> QED BY Zenon, <4>2, <4>3, <2>1
    <3>2. ASSUME NEW j \in DOMAIN reqs, reqs' = [reqs EXCEPT ![j] = Over] PROVE FALSE
      BY Zenon, <3>2, <2>1, <2>o, OverFact
    <3>3. ASSUME NEW j \in DOMAIN reqs, requestFails(j) PROVE FALSE
      <4> DEFINE q == [reqs[j] EXCEPT !.waited = FALSE]
      <4>1. reqs[j] \in NipRequest BY SMT, <2>t
      <4>2. q \in NipRequest /\ q.ans = reqs[j].ans BY Zenon, <4>1 DEF NipRequest
      <4>3. reqs' = [reqs EXCEPT ![j] = q] \/ reqs' = [reqs EXCEPT ![j] = Over]
        BY Zenon, <3>3 DEF requestFails
      <4> HIDE DEF q
      <4> QED BY Zenon, <4>2, <4>3, <3>2, <2>1
    <3>4. ASSUME NEW op \in {"GET", "PUT", "DELETE"}, NEW text \in Text,
                 NEW from \in {"load", "verify", "remove", "other"}, NEW n \in Nat,
                 reqs' = Append(reqs, request(op, text, from, n))
          PROVE  FALSE
      <4>1. request(op, text, from, n) \in NipRequest BY SMT, RequestFact
      <4> QED BY Zenon, <4>1, <3>4, <2>2
    <3>n. /\ <<NoName, "other">> \in Text /\ run \in Nat /\ run + 1 \in Nat
          /\ "GET" \in {"GET", "PUT", "DELETE"} /\ "PUT" \in {"GET", "PUT", "DELETE"}
          /\ "DELETE" \in {"GET", "PUT", "DELETE"}
          /\ "load" \in {"load", "verify", "remove", "other"} /\ "verify" \in {"load", "verify", "remove", "other"}
          /\ "remove" \in {"load", "verify", "remove", "other"}
      <4>1. run \in Nat BY Zenon DEF NipInv, NipTypes
      <4> QED BY SMT, <4>1 DEF Text
    <3>5. ASSUME NEW k \in Device, changeKey(k) PROVE FALSE
      <4>1. reqs' = Append(reqs, request("GET", <<NoName, "other">>, "load", run + 1)) BY Zenon, <3>5 DEF changeKey
      <4> QED BY Zenon, <4>1, <3>4, <3>n
    <3>6. ASSUME NEW text \in Text, verify(text) PROVE FALSE
      <4>1. reqs' = Append(reqs, request("PUT", text, "verify", run)) BY Zenon, <3>6 DEF verify
      <4> QED BY Zenon, <4>1, <3>4, <3>n
    <3>7. ~remove
      <4>1. remove => reqs' = Append(reqs, request("DELETE", <<NoName, "other">>, "remove", run)) BY Zenon DEF remove
      <4> QED BY Zenon, <4>1, <3>4, <3>n
    <3>8. ASSUME NEW label \in Label, NEW k \in Other, otherVerifies(k, label) PROVE FALSE
      <4>1. \E x : reqs' = Append(reqs, x) BY Zenon, <3>8 DEF otherVerifies
      <4>2. reqs'[i] = reqs[i] BY SMT, <4>1, <2>t
      <4> QED BY Zenon, <4>2
    <3>9. ~UNCHANGED reqs BY Zenon 
    <3> QED BY Zenon, <2>3, <3>1, <3>2, <3>3, <3>5, <3>6, <3>7, <3>8, <3>9
            DEF NipNext, answered, domainEdits, NipTick
  <2>5. PICK k \in Key : Carries(withoutExpired(canonical_identifier(reqs[i].text)), k, canonical_identifier(reqs[i].text))
    <3> DEFINE label == canonical_identifier(reqs[i].text)
               us == withoutExpired(label)
    <3>1. \/ \E k \in Key \ {reqs[i].key} : Carries(us, k, label)
          \/ Reply(i, 200, label)
      BY Zenon, <2>4 DEF set_identity
    <3>2. ~Reply(i, 200, label)
      <4>1. reqs[i].ph = "mapped" BY Zenon, <2>4 DEF set_identity
      <4>2. label \in LabelOrNone
        <5>1. reqs[i] \in NipRequest BY SMT, <2>t
        <5>2. reqs[i].text \in Text BY Zenon, <5>1 DEF NipRequest
        <5> QED BY SMT, <5>2 DEF Text, canonical_identifier, LabelOrNone
      <4>3. 200 \in Nat /\ 200 # Conflict BY SMT DEF Conflict
      <4>4. ASSUME NEW s \in Nat, s # Conflict, Reply(i, s, label) PROVE FALSE
        <5>1. PICK q \in NipRequest : reqs' = [reqs EXCEPT ![i] = q] /\ q.ans.status = s
          BY Zenon, <4>1, <4>2, <4>4, ReplyFact DEF NipInv
        <5> QED BY Zenon, <5>1, <4>4, <2>1
      <4> QED BY Zenon, <4>3, <4>4
    <3> QED BY Zenon, <3>1, <3>2
  <2>6. /\ Carries(users, k, canonical_identifier(reqs[i].text)) /\ users[k] # NoName
        /\ ~(users[k].valid_until <= now)
    BY Zenon, <2>5 DEF Carries, withoutExpired
  <2>7. users[k].valid_until > now
    <3>1. users[k].valid_until \in Nat BY Zenon, <2>6, <2>t DEF Claim
    <3> QED BY SMT, <3>1, <2>6, <2>t
  <2> QED BY Zenon, <2>6, <2>7
<1>2. NipSpec => [][NipNext]_nipVars BY PTL DEF NipSpec
<1> QED BY <1>1, <1>2, NipInvariant, PTL DEF ConflictIsCurrent, Conflict

-----------------------------------------------------------------------------
(* Location envelopes *)

\* A posted envelope is under the key of its circle and epoch, and was captured
\* by now.
Posted(e) ==
  /\ e.key = <<e.circle, e.epoch>> /\ e.aad = <<e.circle, e.epoch>>
  /\ e.created_at \in Nat /\ e.created_at <= clock /\ e.expires = e.created_at + MaxAge
  /\ e.content.captured_at = e.created_at /\ validCoordinateContent(e.content)

\* An approximate one is the centre of its cell in the grid of the session.
Centred(m) ==
  /\ grid \in Grids /\ m.grid = grid /\ m.fix \in Fix
  /\ m.cipher.content.lat = Centre(m.fix.lat, grid.latStep, grid.latOffset)
  /\ m.cipher.content.lng = Centre(m.fix.lng, grid.lngStep, grid.lngOffset)

FormatInv ==
  /\ clock \in Nat /\ drift \in Int
  /\ \A m \in envelopes : Posted(m.cipher) /\ (m.precision = "approximate" => Centred(m))

\* The centre of a cell is within half a step of every point of the cell.
LEMMA CentreIsNear ==
  ASSUME NEW x \in Int, NEW step \in Nat \ {0}, NEW offset \in Int
  PROVE  2 * Abs(Centre(x, step, offset) - x) <= step
<1> DEFINE q == (x - offset) \div step
           t == q * step
<1>1. q \in Int
  BY SMT
<1>2. t \in Int /\ t <= x - offset /\ x - offset < t + step
  BY SMT
<1>3. step \div 2 \in Int /\ 2 * (step \div 2) <= step /\ step < 2 * (step \div 2) + 2
  BY SMT
<1>4. Centre(x, step, offset) = t + offset + step \div 2
  BY Zenon DEF Centre
<1> HIDE DEF q, t
<1> QED BY SMT, <1>2, <1>3, <1>4 DEF Abs

\* The steps of a grid are positive.
LEMMA GridSteps ==
  ASSUME NEW g \in Grids
  PROVE  /\ g.latStep \in Nat \ {0} /\ g.lngStep \in Nat \ {0}
         /\ g.latOffset \in Int /\ g.lngOffset \in Int
<1>1. PICK cell \in CellSizes, f \in Fix : g \in NewGrid(cell, f.lat)
  BY SMT DEF Grids
<1>2. cell \in Nat \ {0} /\ Stretch[f.lat] \in Nat \ {0}
  BY Zenon, FormatAssumption
<1>3. PICK o \in 0..(cell - 1), q \in 0..(cell * Stretch[f.lat] - 1) :
        g = [cell |-> cell, latStep |-> cell, lngStep |-> cell * Stretch[f.lat],
             latOffset |-> o, lngOffset |-> q]
  BY SMT, <1>1 DEF NewGrid
<1>4. g.latStep = cell /\ g.lngStep = cell * Stretch[f.lat] /\ g.latOffset = o /\ g.lngOffset = q
  BY Zenon, <1>3
<1>5. cell * Stretch[f.lat] \in Nat \ {0} /\ o \in Int /\ q \in Int
  BY SMT, <1>2
<1> QED BY Zenon, <1>2, <1>4, <1>5

\* What one publication adds.
LEMMA PublishAdds ==
  ASSUME FormatInv, NEW f \in Fix, NEW i \in Circles, NEW n \in Epochs, NEW p \in Precision,
         publish(f, i, n, p)
  PROVE  /\ UNCHANGED <<clock, drift>>
         /\ \A m \in envelopes : m.precision = "approximate" => grid' = grid
         /\ \A m \in envelopes' \ envelopes :
              Posted(m.cipher)' /\ (m.precision = "approximate" => Centred(m)')
<1>1. PICK g \in IF p = "exact" THEN {grid} ELSE Grids :
        /\ p = "approximate" => sessionGrid(f.lat, g)
        /\ grid' = g
        /\ LET content == Content(f, g, p, clock)
               expires == clock + MaxAge
           IN  envelopes' = IF /\ validCoordinateContent(content)
                               /\ expires > clock /\ expires <= clock + MaxAge
                            THEN envelopes \cup
                                   {[fix |-> f, precision |-> p, grid |-> g, cipher |->
                                     encryptCircleLocationV1(i, n, content, expires)]}
                            ELSE envelopes
  BY Zenon DEF publish
<1>2. UNCHANGED <<clock, drift>>
  BY Zenon DEF publish
<1>3. ASSUME NEW m \in envelopes, m.precision = "approximate" PROVE grid' = grid
  <2>1. grid \in Grids /\ grid # NoGrid
    BY Zenon, <1>3, FormatAssumption DEF FormatInv, Centred
  <2> QED BY Zenon, <1>1, <2>1 DEF sessionGrid, Precision
<1>4. ASSUME NEW m \in envelopes' \ envelopes
      PROVE  Posted(m.cipher)' /\ (m.precision = "approximate" => Centred(m)')
  <2> DEFINE c == Content(f, g, p, clock)
             e == encryptCircleLocationV1(i, n, c, clock + MaxAge)
  <2>1. validCoordinateContent(c) /\ m = [fix |-> f, precision |-> p, grid |-> g, cipher |-> e]
    BY Zenon, <1>1, <1>4
  <2>2. m.fix = f /\ m.precision = p /\ m.grid = g /\ m.cipher = e
    BY Zenon, <2>1
  <2>3. c.captured_at = clock
    BY Zenon DEF Content
  <2> HIDE DEF c
  <2>4. /\ e.key = <<i, n>> /\ e.aad = <<i, n>> /\ e.circle = i /\ e.epoch = n
        /\ e.created_at = c.captured_at /\ e.content = c /\ e.expires = clock + MaxAge
    BY Zenon DEF encryptCircleLocationV1, locationAad
  <2> HIDE DEF e
  <2>5. clock' = clock /\ clock \in Nat /\ clock <= clock
    BY SMT, <1>2 DEF FormatInv
  <2>6. Posted(m.cipher)'
    BY Zenon, <2>1, <2>2, <2>3, <2>4, <2>5 DEF Posted
  <2>7. ASSUME p = "approximate" PROVE Centred(m)'
    <3>1. g \in Grids
      BY Zenon, <1>1, <2>7
    <3>2. c.lat = Centre(f.lat, g.latStep, g.latOffset) /\ c.lng = Centre(f.lng, g.lngStep, g.lngOffset)
      BY Zenon, <2>7 DEF c, Content, approximateLocationForSession
    <3> QED BY Zenon, <1>1, <3>1, <3>2, <2>2, <2>4 DEF Centred
  <2> QED BY Zenon, <2>2, <2>6, <2>7
<1> QED BY Zenon, <1>2, <1>3, <1>4

\* FormatInv is inductive.
LEMMA FormatStep == FormatInv /\ [FormatNext]_formatVars => FormatInv'
<1> SUFFICES ASSUME FormatInv, [FormatNext]_formatVars PROVE FormatInv'
  BY Zenon
<1>1. ASSUME NEW f \in Fix, NEW i \in Circles, NEW n \in Epochs, NEW p \in Precision,
             publish(f, i, n, p)
      PROVE  FormatInv'
  <2>1. /\ UNCHANGED <<clock, drift>>
        /\ \A m \in envelopes : m.precision = "approximate" => grid' = grid
        /\ \A m \in envelopes' \ envelopes :
             Posted(m.cipher)' /\ (m.precision = "approximate" => Centred(m)')
    BY Zenon, <1>1, PublishAdds
  <2>2. ASSUME NEW m \in envelopes
        PROVE  Posted(m.cipher)' /\ (m.precision = "approximate" => Centred(m)')
    BY Zenon, <2>1 DEF FormatInv, Posted, Centred
  <2> QED BY Zenon, <2>1, <2>2 DEF FormatInv
<1>2. CASE tick
  <2>1. clock' = clock + 1 /\ UNCHANGED <<grid, envelopes, drift>>
    BY Zenon, <1>2 DEF tick
  <2>2. clock' \in Nat /\ \A t \in Nat : t <= clock => t <= clock'
    BY SMT, <2>1 DEF FormatInv
  <2> QED BY Zenon, <2>1, <2>2 DEF FormatInv, Posted, Centred
<1>3. CASE UNCHANGED <<grid, envelopes, clock, drift>>
  BY Zenon, <1>3 DEF FormatInv, Posted, Centred
<1> QED BY Zenon, <1>1, <1>2, <1>3 DEF FormatNext, formatVars, receive

\* The invariant holds throughout.
LEMMA Formatted == FormatSpec => []FormatInv
<1>1. FormatInit => FormatInv
  BY SMT, FormatAssumption DEF FormatInit, FormatInv
<1> QED BY <1>1, FormatStep, PTL DEF FormatSpec

\* For every grid, fix and number of envelopes of a session, an approximate
\* position is the centre of its cell, at most half a step from the truth, and
\* the same for all fixes of the cell (approximateLocationForSession).
THEOREM ApproximatePlacesAreCells == FormatSpec => []ApproximateTellsACell
<1>1. FormatInv => ApproximateTellsACell
  <2> SUFFICES ASSUME FormatInv, NEW m \in Approximate PROVE
        /\ 2 * Abs(m.cipher.content.lat - m.fix.lat) <= m.grid.latStep
        /\ 2 * Abs(m.cipher.content.lng - m.fix.lng) <= m.grid.lngStep
        /\ \A n \in Approximate :
             SameCell(m.fix, n.fix, m.grid) =>
               m.cipher.content.lat = n.cipher.content.lat
               /\ m.cipher.content.lng = n.cipher.content.lng
    BY Zenon DEF ApproximateTellsACell
  <2>1. \A n \in Approximate : Centred(n)
    BY Zenon DEF Approximate, FormatInv
  <2>2. m.fix.lat \in Int /\ m.fix.lng \in Int
    BY Zenon, <2>1, FormatAssumption DEF Centred
  <2>3. /\ grid.latStep \in Nat \ {0} /\ grid.lngStep \in Nat \ {0}
        /\ grid.latOffset \in Int /\ grid.lngOffset \in Int
    BY Zenon, <2>1, GridSteps DEF Centred
  <2>4. /\ 2 * Abs(m.cipher.content.lat - m.fix.lat) <= m.grid.latStep
        /\ 2 * Abs(m.cipher.content.lng - m.fix.lng) <= m.grid.lngStep
    BY Zenon, <2>1, <2>2, <2>3, CentreIsNear DEF Centred
  <2>5. ASSUME NEW n \in Approximate, SameCell(m.fix, n.fix, m.grid)
        PROVE  /\ m.cipher.content.lat = n.cipher.content.lat
               /\ m.cipher.content.lng = n.cipher.content.lng
    BY Zenon, <2>1, <2>5 DEF SameCell, Centred, Centre
  <2> QED BY Zenon, <2>4, <2>5
<1> QED BY <1>1, Formatted, PTL

\* For every age limit and skew, the sender's bounds and the reader's bounds fit
\* together: within the skew an envelope is read until it expires, by readers of
\* its circle and epoch only (decryptCircleLocationV1).
THEOREM BoundsLeaveNoGap == FormatSpec => []FreshIsReadable
<1>1. FormatInv => FreshIsReadable
  <2> SUFFICES ASSUME FormatInv, drift \in -Skew..Skew, NEW m \in envelopes,
                      NEW i \in Circles, NEW n \in Epochs
               PROVE  decryptCircleLocationV1(m.cipher, i, n, TRUE, clock + drift) <=>
                        /\ i = m.cipher.circle /\ n = m.cipher.epoch
                        /\ clock + drift < m.cipher.expires
    BY Zenon DEF FreshIsReadable
  <2> DEFINE e == m.cipher
             at == clock + drift
  <2>1. Posted(e)
    BY Zenon DEF FormatInv
  <2> HIDE DEF e
  <2>2. clock \in Nat /\ drift \in Int /\ at \in Int /\ Skew \in Nat /\ MaxAge \in Nat
        /\ at + Skew >= clock
    BY SMT, FormatAssumption DEF FormatInv
  <2> HIDE DEF at
  <2>3. /\ e.created_at <= at + Skew /\ e.expires <= e.created_at + MaxAge
        /\ (e.expires > at) <=> (at < e.expires)
        /\ e.expires > at => e.created_at >= at - MaxAge
    BY SMT, <2>1, <2>2 DEF Posted
  <2>4. e.key = <<i, n>> <=> i = e.circle /\ n = e.epoch
    BY SMT, <2>1 DEF Posted
  <2>5. e.aad = e.key
    BY Zenon, <2>1 DEF Posted
  <2>6. decryptCircleLocationV1(e, i, n, TRUE, at) <=> i = e.circle /\ n = e.epoch /\ at < e.expires
    BY Zenon, <2>1, <2>3, <2>4, <2>5 DEF decryptCircleLocationV1, exactLocationTags, locationAad, Posted
  <2> QED BY Zenon, <2>6 DEF e, at
<1> QED BY <1>1, Formatted, PTL
=============================================================================
