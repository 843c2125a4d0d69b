--------------------------- MODULE CirclesProofs ----------------------------
(*************************************************************************)
(* Proofs about Circles, for every set of members and every bound (each  *)
(* lemma on a step has one step per handler), about its sockets          *)
(* (CircleLive), and about what the map of a circle shows                *)
(* (LocationShare).                                                      *)
(*************************************************************************)
EXTENDS Circles, CircleLive, LocationShare, FiniteSetTheorems, TLAPS

-----------------------------------------------------------------------------
USE OwnerAssumption, BoundAssumption

\* Types hold in a new circle.
LEMMA TypeInit == Init => TypeOK
  BY DEF Init, TypeOK, Sender

\* What the handlers broadcast is a message.
LEMMA NoticeType ==
  ASSUME NEW t \in MessageType, NEW e \in Nat, NEW s \in Sender, NEW r \in Nat
  PROVE  Notice(t, e, s, r) \in Message
  BY Zenon DEF Notice, Message

\* Every handler keeps the types; one step per handler.
LEMMA TypeStep == TypeOK /\ [Next]_vars => TypeOK'
<1> SUFFICES ASSUME TypeOK, [Next]_vars PROVE TypeOK'
  BY Zenon
<1> USE DEF TypeOK, Sender, circleRow, memberRows, ownerSide
<1>1. ASSUME NEW m \in Member, NEW e \in 1..MaxEpoch, AddMember(m, e)
      PROVE  TypeOK'
  BY <1>1 DEF AddMember, BumpRevision
<1>2. ASSUME NEW m \in Member, AcceptMember(m) PROVE TypeOK'
  BY <1>2 DEF AcceptMember, BumpRevision
<1>3. ASSUME NEW m \in Member, RemoveMember(m) PROVE TypeOK'
  <2>1. unsent' \subseteq Message
    <3>1. Notice("MEMBER_REMOVED", key_epoch, m, revision + 1) \in Message
      BY NoticeType DEF MessageType
    <3> QED  BY Zenon, <1>3, <3>1 DEF RemoveMember
  <2>2. wrap' \in [Member -> 0..key_epoch'] /\ blob' \in [Sender -> 0..key_epoch']
    BY <1>3 DEF RemoveMember
  <2> QED  BY <1>3, <2>1, <2>2 DEF RemoveMember, BumpRevision, RequireRekey
<1>4. CASE DeleteCircle
  <2>1. wrap' \in [Member -> 0..key_epoch'] /\ blob' \in [Sender -> 0..key_epoch']
    BY <1>4 DEF DeleteCircle
  <2> QED  BY Zenon, <1>4, <2>1 DEF DeleteCircle
<1>5. CASE ReadCircle
  BY <1>5 DEF ReadCircle
<1>6. ASSUME NEW r \in reads, ReadMembers(r) PROVE TypeOK'
  BY <1>6 DEF ReadMembers, Active
<1>7. ASSUME NEW c \in commits, CommitEpoch(c) PROVE TypeOK'
  <2>1. key_epoch' = key_epoch + 1 /\ c.next = key_epoch + 1
    BY Zenon, <1>7 DEF CommitEpoch, CommitAllowed
  <2>2. wrap' \in [Member -> 0..key_epoch']
    BY <1>7, <2>1 DEF CommitEpoch
  <2>3. granted' \in [Member -> SUBSET (1..key_epoch')]
    BY <1>7, <2>1 DEF CommitEpoch
  <2>4. blob' \in [Sender -> 0..key_epoch'] /\ pushes' \in [Sender -> 0..key_epoch']
    BY <1>7, <2>1 DEF CommitEpoch
  <2>5. unsent' \subseteq Message
    <3>1. Notice("EPOCH", c.next, Owner, revision) \in Message
      BY <2>1, NoticeType DEF MessageType
    <3> QED  BY Zenon, <1>7, <3>1 DEF CommitEpoch
  <2>6. /\ reads' \subseteq [rev : 0..revision', epoch : 1..key_epoch']
        /\ commits' \subseteq [rev : 0..revision', next : 2..(key_epoch' + 1),
                               members : SUBSET Member]
    BY <1>7, <2>1 DEF CommitEpoch
  <2>7. /\ key_epoch' \in Nat \ {0} /\ protocol' \in {0, 1} /\ revision' \in Nat
        /\ mstate' \in [Member -> {"NONE", "PENDING", "ACTIVE"}]
    BY <1>7, <2>1 DEF CommitEpoch
  <2>8. exists' \in BOOLEAN /\ rekey_required' \in BOOLEAN
    BY Zenon, <1>7 DEF CommitEpoch
  <2> QED  BY Zenon, <2>2, <2>3, <2>4, <2>5, <2>6, <2>7, <2>8
<1>8. ASSUME NEW c \in commits, CommitRefused(c) PROVE TypeOK'
  BY Zenon, <1>8 DEF CommitRefused
<1>9. ASSUME NEW s \in Sender, NEW e \in 1..MaxEpoch, PushCheck(s, e)
      PROVE  TypeOK'
  BY <1>9 DEF PushCheck, ReadyFor
<1>10. ASSUME NEW s \in Sender, PushStore(s) PROVE TypeOK'
  <2>1. unsent' \subseteq Message
    <3>1. Notice("ENVELOPE", pushes[s], s, 0) \in Message
      BY NoticeType DEF MessageType
    <3> QED  BY Zenon, <1>10, <3>1 DEF PushStore
  <2>2. blob' \in [Sender -> 0..key_epoch'] /\ pushes' \in [Sender -> 0..key_epoch']
    BY <1>10 DEF PushStore
  <2> QED  BY Zenon, <1>10, <2>1, <2>2 DEF PushStore
<1>11. ASSUME NEW s \in Sender, PushFail(s) PROVE TypeOK'
  BY <1>11 DEF PushFail
<1>12. ASSUME NEW s \in Sender, ExpireEnvelope(s) PROVE TypeOK'
  BY <1>12 DEF ExpireEnvelope
<1>13. ASSUME NEW u \in unsent, Broadcast(u) PROVE TypeOK'
  <2>1. RekeyNotice(u) \in Message
    <3>1. u.epoch \in Nat /\ u.token \in Sender /\ u.rev \in Nat
      BY Zenon DEF Message
    <3> QED  BY Zenon, <3>1, NoticeType DEF RekeyNotice, MessageType
  <2> QED  BY Zenon, <1>13, <2>1 DEF Broadcast
<1>14. CASE UNCHANGED vars
  BY Zenon, <1>14 DEF vars
<1> QED
  BY Zenon, <1>1, <1>2, <1>3, <1>4, <1>5, <1>6, <1>7, <1>8, <1>9, <1>10, <1>11,
     <1>12, <1>13, <1>14 DEF Next, MemberStep, EpochStep, EnvelopeStep

\* Types hold in every reachable state: in particular no stored row, request or
\* envelope is ahead of the circle's epoch or revision.
THEOREM TypeCorrect == Spec => []TypeOK
  BY TypeInit, TypeStep, PTL DEF Spec
-----------------------------------------------------------------------------
\* The epoch of every stored wrap, and of every publication that has passed
\* its checks, is one the member was given the key of.
RowIsGranted == \A m \in Rows : wrap[m] \in granted[m]
PushIsGranted == \A m \in Member : pushes[m] # 0 => pushes[m] \in granted[m]

\* EnvelopeSenderHeldKey is not inductive: push_envelope inserts the epoch it
\* checked earlier, so the epochs in flight need the same guarantee, and they
\* get it from the current wrap of an active member.
IInv ==
  /\ TypeOK
  /\ ActiveHoldsCurrentKey
  /\ NoOutsiderHoldsLiveKey
  /\ StaleCommitFailsClosed
  /\ EnvelopeSenderHeldKey
  /\ RowIsGranted
  /\ PushIsGranted

\* A new circle has nobody to break a promise to.
LEMMA SafetyInit == Init => IInv
  BY SMTT(30), TypeInit DEF Init, IInv, ActiveHoldsCurrentKey, NoOutsiderHoldsLiveKey,
     StaleCommitFailsClosed, EnvelopeSenderHeldKey, RowIsGranted, PushIsGranted,
     Active, Rows, Sender

\* Every handler keeps the inductive invariant.
LEMMA SafetyStep == IInv /\ [Next]_vars => IInv'
<1> SUFFICES ASSUME IInv, [Next]_vars PROVE IInv'
  BY Zenon
<1>0. TypeOK'
  BY Zenon, TypeStep DEF IInv
<1> DEFINE Safe == /\ ActiveHoldsCurrentKey /\ NoOutsiderHoldsLiveKey
                   /\ StaleCommitFailsClosed /\ EnvelopeSenderHeldKey
                   /\ RowIsGranted /\ PushIsGranted
<1> USE DEF IInv, TypeOK, ActiveHoldsCurrentKey, NoOutsiderHoldsLiveKey,
            StaleCommitFailsClosed, EnvelopeSenderHeldKey, RowIsGranted,
            PushIsGranted, Active, Rows, Sender, circleRow, memberRows, ownerSide
<1>1. ASSUME NEW m \in Member, NEW e \in 1..MaxEpoch, AddMember(m, e)
       PROVE  Safe'
  BY <1>1 DEF AddMember, BumpRevision
<1>2. ASSUME NEW m \in Member, AcceptMember(m) PROVE Safe'
  BY <1>2 DEF AcceptMember, BumpRevision
<1>3. ASSUME NEW m \in Member, RemoveMember(m) PROVE Safe'
  BY <1>3 DEF RemoveMember, BumpRevision, RequireRekey
<1>4. ASSUME DeleteCircle PROVE Safe'
  BY Zenon, <1>4 DEF DeleteCircle
<1>5. ASSUME ReadCircle PROVE Safe'
  BY Zenon, <1>5 DEF ReadCircle
<1>6. ASSUME NEW r \in reads, ReadMembers(r) PROVE Safe'
  BY <1>6 DEF ReadMembers
<1>7. ASSUME NEW c \in commits, CommitEpoch(c) PROVE Safe'
  BY <1>7 DEF CommitEpoch, CommitAllowed
<1>8. ASSUME NEW c \in commits, CommitRefused(c) PROVE Safe'
  BY Zenon, <1>8 DEF CommitRefused
<1>9. ASSUME NEW s \in Sender, NEW e \in 1..MaxEpoch, PushCheck(s, e)
       PROVE  Safe'
  BY <1>9 DEF PushCheck, ReadyFor
<1>10. ASSUME NEW s \in Sender, PushStore(s) PROVE Safe'
  BY Zenon, <1>10 DEF PushStore
<1>11. ASSUME NEW s \in Sender, PushFail(s) PROVE Safe'
  BY Zenon, <1>11 DEF PushFail
<1>12. ASSUME NEW s \in Sender, ExpireEnvelope(s) PROVE Safe'
  BY Zenon, <1>12 DEF ExpireEnvelope
<1>13. ASSUME NEW u \in unsent, Broadcast(u) PROVE Safe'
  BY Zenon, <1>13 DEF Broadcast
<1>14. ASSUME UNCHANGED vars PROVE Safe'
  BY Zenon, <1>14 DEF vars
<1> QED
  BY Zenon, <1>0, <1>1, <1>2, <1>3, <1>4, <1>5, <1>6, <1>7, <1>8, <1>9, <1>10, <1>11,
     <1>12, <1>13, <1>14 DEF Next, MemberStep, EpochStep, EnvelopeStep

\* The inductive invariant holds throughout.
LEMMA Safety == Spec => []IInv
  BY SafetyInit, SafetyStep, PTL DEF Spec

\* An active member's stored wrap is always for the current epoch: no order of
\* invitations, acceptances, removals and commits leaves one behind.
THEOREM ActiveMembersReadCurrentKey == Spec => []ActiveHoldsCurrentKey
  BY Safety, PTL DEF IInv

\* Publication is open only while everyone who was given the live epoch's key
\* still has a member row.
THEOREM RemovalEndsKeyAccess == Spec => []NoOutsiderHoldsLiveKey
  BY Safety, PTL DEF IInv

\* A commit whose revision matches carries exactly the active members, although
\* get_circle reads the counter and the members in two statements.
THEOREM StaleCommitsAreRefused == Spec => []StaleCommitFailsClosed
  BY Safety, PTL DEF IInv

\* A stored envelope is for an epoch whose key its sender was given, however
\* the unlocked check and insert of push_envelope interleave with the rest.
THEOREM EnvelopesAreReadableBySender == Spec => []EnvelopeSenderHeldKey
  BY Safety, PTL DEF IInv

-----------------------------------------------------------------------------
(* The circle's sockets *)

\* A socket never holds up the server: what happens with sockets is, seen from
\* the tables, a behaviour of Circles, so all of the above holds with them.
THEOREM SocketsKeepCircles == SpecLive => Spec
<1>1. [NextLive]_<<vars, live>> => [Next]_vars
  <2> SUFFICES ASSUME [NextLive]_<<vars, live>> PROVE [Next]_vars
    BY Zenon
  <2>1. CASE ServerStep
    BY Zenon, <2>1 DEF ServerStep, Next
  <2>2. CASE BroadcastStep
    BY Zenon, <2>2 DEF BroadcastStep, Next
  <2>3. CASE SocketStep
    BY Zenon, <2>3 DEF SocketStep, JoinCheck, Subscribe, Receive, Disconnect, LoadCircle
  <2> QED BY Zenon, <2>1, <2>2, <2>3 DEF NextLive
<1> QED BY <1>1, PTL DEF SpecLive, Spec

EpochType == {"EPOCH", "REKEY"}
AnyView == [epoch : Nat, rekey : BOOLEAN]
Current == [epoch |-> key_epoch, rekey |-> rekey_required]
\* The view a page has after an epoch message u.
Told(u) == [epoch |-> u.epoch, rekey |-> u.type = "REKEY"]

\* Handlers that owe an epoch message owe the current one, and there is one
\* such handler at a time.
OwedInv ==
  /\ unsent = {} \/ \E u : unsent = {u}
  /\ \A u \in unsent : /\ u.type \in EpochType => Told(u) = Current
                       /\ u.type = "MEMBER_REMOVED" => Told(RekeyNotice(u)) = Current

\* The last epoch message in a receiver's queue q tells the current epoch; with
\* none there, the page was told, or nothing has changed since it subscribed.
NoneAfter(q, i) == \A j \in DOMAIN q : j > i => q[j].type \notin EpochType
UpToDate(q, v, s, cur) ==
  \/ \E i \in DOMAIN q : q[i].type \in EpochType /\ NoneAfter(q, i) /\ Told(q[i]) = cur
  \/ NoneAfter(q, 0) /\ (v = cur \/ s = cur)

Since(m) == [epoch |-> since[m].epoch, rekey |-> since[m].rekey]
Quiet == \A u \in unsent : u.type = "ENVELOPE"

LiveTypes ==
  /\ sock \in [Member -> {"closed", "checked", "live", "lagged"}]
  /\ queue \in [Member -> Seq(Message)]
  /\ \A m \in Member : sock[m] # "live" => queue[m] = <<>>
  /\ view \in [Member -> AnyView]
  /\ since \in [Member -> [epoch : Nat, rekey : BOOLEAN, rev : Nat]]

LiveInv == LiveTypes /\ OwedInv /\ (Quiet => \A m \in Member : sock[m] = "live" => UpToDate(queue[m], view[m], Since(m), Current))

\* A page's view after a message is a view.
LEMMA ViewType ==
  ASSUME NEW v \in AnyView, NEW u \in Message
  PROVE  EpochChanged(v, u) \in AnyView /\ Told(u) \in AnyView
<1>1. u.epoch \in Nat /\ (u.type = "REKEY") \in BOOLEAN
  BY Zenon DEF Message
<1> QED BY Zenon, <1>1 DEF EpochChanged, Told, AnyView

\* Types of the live side.
LEMMA LiveTypesStep ==
  ASSUME TypeOK, LiveTypes, [NextLive]_<<vars, live>> PROVE LiveTypes'
<1>1. CASE ServerStep
  BY Zenon, <1>1 DEF ServerStep, LiveTypes
<1>2. CASE BroadcastStep
  <2>1. PICK u \in unsent : Deliver(u)
    BY Zenon, <1>2 DEF BroadcastStep
  <2>2. u \in Message
    BY Zenon DEF TypeOK
  <2>3. \A m \in Member : Append(queue[m], u) \in Seq(Message) /\ <<>> \in Seq(Message)
    BY SMT, <2>2 DEF LiveTypes
  <2>4. queue' \in [Member -> Seq(Message)]
    BY Zenon, <2>1, <2>3 DEF Deliver
  <2>5. sock' \in [Member -> {"closed", "checked", "live", "lagged"}]
    BY Zenon, <2>1 DEF Deliver, LiveTypes
  <2>6. \A m \in Member : sock'[m] # "live" => queue'[m] = <<>>
    BY Zenon, <2>1 DEF Deliver, LiveTypes, Overrun
  <2> QED BY Zenon, <2>1, <2>4, <2>5, <2>6 DEF Deliver, LiveTypes
<1>3. ASSUME NEW m \in Member, JoinCheck(m) PROVE LiveTypes'
  BY Zenon, <1>3 DEF JoinCheck, LiveTypes
<1>4. ASSUME NEW m \in Member, Subscribe(m) PROVE LiveTypes'
  <2>1. [epoch |-> key_epoch, rekey |-> rekey_required, rev |-> revision]
          \in [epoch : Nat, rekey : BOOLEAN, rev : Nat]
    BY Zenon DEF TypeOK
  <2> QED BY Zenon, <2>1, <1>4 DEF Subscribe, LiveTypes
<1>5. ASSUME NEW m \in Member, Receive(m) PROVE LiveTypes'
  <2> DEFINE u == Head(queue[m])
  <2>1. u \in Message /\ Tail(queue[m]) \in Seq(Message) /\ <<>> \in Seq(Message)
    BY SMT, <1>5 DEF Receive, LiveTypes
  <2>2. EpochChanged(view[m], u) \in AnyView
    BY Zenon, <2>1, ViewType DEF LiveTypes
  <2> HIDE DEF u
  <2>3. CASE ClosesSocket(m, u)
    BY Zenon, <2>3, <2>1, <1>5 DEF Receive, LiveTypes, u
  <2>4. CASE ~ClosesSocket(m, u)
    <3>1. /\ queue' = [queue EXCEPT ![m] = Tail(@)] /\ view' = [view EXCEPT ![m] = EpochChanged(@, u)]
          /\ UNCHANGED <<sock, since>> /\ sock[m] = "live"
      BY Zenon, <2>4, <1>5 DEF Receive, u
    <3> QED BY Zenon, <3>1, <2>1, <2>2 DEF LiveTypes
  <2> QED BY Zenon, <2>3, <2>4
<1>6. ASSUME NEW m \in Member, Disconnect(m) PROVE LiveTypes'
  <2>1. <<>> \in Seq(Message) BY SMT
  <2> QED BY Zenon, <2>1, <1>6 DEF Disconnect, LiveTypes
<1>7. ASSUME NEW m \in Member, LoadCircle(m) PROVE LiveTypes'
  <2>1. Current \in AnyView
    BY Zenon DEF TypeOK, Current, AnyView
  <2> QED BY Zenon, <2>1, <1>7 DEF LoadCircle, LiveTypes, Current
<1>8. CASE UNCHANGED <<vars, live>>
  BY Zenon, <1>8 DEF live, LiveTypes
<1> QED
  BY Zenon, <1>1, <1>2, <1>3, <1>4, <1>5, <1>6, <1>7, <1>8 DEF NextLive, SocketStep

\* A message that is not about the epoch changes nothing; an epoch message that
\* tells the current one is the last one afterwards.
LEMMA UpToDateAppend ==
  ASSUME NEW q \in Seq(Message), NEW u \in Message, NEW v, NEW s, NEW cur
  PROVE  /\ u.type \notin EpochType /\ UpToDate(q, v, s, cur) => UpToDate(Append(q, u), v, s, cur)
         /\ u.type \in EpochType /\ Told(u) = cur => UpToDate(Append(q, u), v, s, cur)
<1> DEFINE p == Append(q, u)
           n == Len(q)
<1>1. n \in Nat /\ DOMAIN q = 1 .. n /\ DOMAIN p = 1 .. (n + 1) /\ p[n + 1] = u
  BY SMT
<1>2. \A i \in 1 .. n : p[i] = q[i]
  BY SMT
<1>3. \A i \in DOMAIN p : i \in DOMAIN q \/ i = n + 1
  BY SMT, <1>1
<1>4. DOMAIN q \subseteq DOMAIN p /\ n + 1 \in DOMAIN p /\ ~(\E j \in DOMAIN p : j > n + 1)
  BY SMT, <1>1
<1> HIDE DEF p, n
<1>5. ASSUME u.type \notin EpochType, NEW i, NoneAfter(q, i) PROVE NoneAfter(p, i)
  BY Zenon, <1>1, <1>2, <1>3, <1>5 DEF NoneAfter
<1>6. ASSUME u.type \notin EpochType, UpToDate(q, v, s, cur) PROVE UpToDate(p, v, s, cur)
  <2>1. CASE NoneAfter(q, 0) /\ (v = cur \/ s = cur)
    BY Zenon, <2>1, <1>5, <1>6 DEF UpToDate
  <2>2. ASSUME NEW i \in DOMAIN q, q[i].type \in EpochType, NoneAfter(q, i), Told(q[i]) = cur
        PROVE  UpToDate(p, v, s, cur)
    <3>1. p[i] = q[i] /\ i \in DOMAIN p BY Zenon, <1>1, <1>2, <1>4, <2>2
    <3>2. NoneAfter(p, i) BY Zenon, <1>5, <1>6, <2>2
    <3> QED BY Zenon, <3>1, <3>2, <2>2 DEF UpToDate
  <2> QED BY Zenon, <1>6, <2>1, <2>2 DEF UpToDate
<1>7. ASSUME u.type \in EpochType, Told(u) = cur PROVE UpToDate(p, v, s, cur)
  <2>1. NoneAfter(p, n + 1) BY Zenon, <1>4 DEF NoneAfter
  <2> QED BY Zenon, <2>1, <1>1, <1>4, <1>7 DEF UpToDate
<1> QED BY Zenon, <1>6, <1>7 DEF p

\* Reading the first message moves what it tells from the queue to the view.
LEMMA UpToDateTail ==
  ASSUME NEW q \in Seq(Message), q # <<>>, NEW v, NEW s, NEW cur, UpToDate(q, v, s, cur)
  PROVE  UpToDate(Tail(q), EpochChanged(v, Head(q)), s, cur)
<1> DEFINE p == Tail(q)
           n == Len(q)
<1>1. n \in Nat \ {0} /\ DOMAIN q = 1 .. n /\ DOMAIN p = 1 .. (n - 1) /\ Head(q) = q[1]
  BY SMT
<1>2. \A i \in 1 .. (n - 1) : p[i] = q[i + 1]
  BY SMT
<1> HIDE DEF p, n
<1>3. ASSUME NEW i \in Nat, NoneAfter(q, i + 1) PROVE NoneAfter(p, i)
  <2> SUFFICES ASSUME NEW j \in DOMAIN p, j > i PROVE p[j].type \notin EpochType
    BY Zenon DEF NoneAfter
  <2>1. j + 1 \in DOMAIN q /\ j + 1 > i + 1 BY SMT, <1>1
  <2> QED BY Zenon, <2>1, <1>1, <1>2, <1>3 DEF NoneAfter
<1>4. NoneAfter(q, 0) => NoneAfter(q, 1) /\ q[1].type \notin EpochType
  <2>1. 1 \in DOMAIN q /\ \A j \in DOMAIN q : j > 1 => j > 0 BY SMT, <1>1
  <2>2. 1 > 0 BY SMT
  <2> QED BY Zenon, <2>1, <2>2 DEF NoneAfter
<1>5. CASE NoneAfter(q, 0) /\ (v = cur \/ s = cur)
  <2>1. EpochChanged(v, q[1]) = v BY Zenon, <1>4, <1>5 DEF EpochChanged, EpochType
  <2>2. NoneAfter(p, 0) BY SMT, <1>3, <1>4, <1>5
  <2> QED BY Zenon, <2>1, <2>2, <1>1, <1>5 DEF UpToDate, p
<1>6. ASSUME NEW i \in DOMAIN q, q[i].type \in EpochType, NoneAfter(q, i), Told(q[i]) = cur
      PROVE  UpToDate(p, EpochChanged(v, q[1]), s, cur)
  <2>1. CASE i = 1
    <3>1. EpochChanged(v, q[1]) = cur BY Zenon, <2>1, <1>6 DEF EpochChanged, Told, EpochType
    <3>2. NoneAfter(p, 0) BY SMT, <2>1, <1>3, <1>6
    <3> QED BY Zenon, <3>1, <3>2 DEF UpToDate
  <2>2. CASE i # 1
    <3>1. i - 1 \in DOMAIN p /\ p[i - 1] = q[i] /\ i - 1 \in Nat /\ (i - 1) + 1 = i
      BY SMT, <2>2, <1>1, <1>2
    <3>2. NoneAfter(p, i - 1) BY Zenon, <3>1, <1>3, <1>6
    <3> QED BY Zenon, <3>1, <3>2, <1>6 DEF UpToDate
  <2> QED BY Zenon, <2>1, <2>2
<1> QED BY Zenon, <1>1, <1>5, <1>6 DEF UpToDate, p

\* With one handler at a time between its commit and its broadcast, a handler
\* that commits finds nothing owed.
LEMMA NothingOwed ==
  ASSUME MaxUnsent = 1, OwedInv, CanBroadcast PROVE unsent = {}
<1>1. Cardinality(unsent) < 1
  BY Zenon DEF CanBroadcast
<1>2. ASSUME NEW u, unsent = {u} PROVE FALSE
  <2>1. Cardinality(unsent) = 1 BY Zenon, <1>2, FS_Singleton
  <2> QED BY SMT, <2>1, <1>1
<1> QED BY Zenon, <1>2 DEF OwedInv

\* What a database step may do to the circle's epoch and to what is owed.
LEMMA ServerEffect ==
  ASSUME MaxUnsent = 1, TypeOK, OwedInv, ServerStep
  PROVE  \/ UNCHANGED <<key_epoch, rekey_required, unsent>>
         \/ /\ UNCHANGED <<key_epoch, rekey_required>> /\ unsent = {}
            /\ \E u : unsent' = {u} /\ u.type = "ENVELOPE"
         \/ \E u : unsent' = {u} /\ u.type = "EPOCH" /\ Told(u) = Current'
         \/ \E u : unsent' = {u} /\ u.type = "MEMBER_REMOVED" /\ Told(RekeyNotice(u)) = Current'
<1>1. ASSUME NEW m \in Member, RemoveMember(m)
      PROVE  \E u : unsent' = {u} /\ u.type = "MEMBER_REMOVED" /\ Told(RekeyNotice(u)) = Current'
  <2> DEFINE u == Notice("MEMBER_REMOVED", key_epoch, m, revision + 1)
  <2>1. unsent = {} /\ unsent' = unsent \cup {u} /\ key_epoch' = key_epoch /\ rekey_required' = TRUE
    BY Zenon, <1>1, NothingOwed DEF RemoveMember, RequireRekey
  <2>2. u.type = "MEMBER_REMOVED" /\ u.epoch = key_epoch
    BY Zenon DEF Notice
  <2>3. RekeyNotice(u).type = "REKEY" /\ RekeyNotice(u).epoch = key_epoch
    BY Zenon, <2>2 DEF Notice, RekeyNotice
  <2> HIDE DEF u
  <2>4. Told(RekeyNotice(u)) = Current'
    BY Zenon, <2>1, <2>3 DEF Told, Current
  <2> QED BY Zenon, <2>1, <2>2, <2>4
<1>2. ASSUME NEW c \in commits, CommitEpoch(c)
      PROVE  \E u : unsent' = {u} /\ u.type = "EPOCH" /\ Told(u) = Current'
  <2> DEFINE u == Notice("EPOCH", c.next, Owner, revision)
  <2>1. unsent = {} /\ unsent' = unsent \cup {u} /\ key_epoch' = c.next /\ rekey_required' = FALSE
    BY Zenon, <1>2, NothingOwed DEF CommitEpoch
  <2>2. u.type = "EPOCH" /\ u.epoch = c.next
    BY Zenon DEF Notice
  <2> HIDE DEF u
  <2>3. Told(u) = Current'
    BY Zenon, <2>1, <2>2 DEF Told, Current
  <2> QED BY Zenon, <2>1, <2>2, <2>3
<1>3. ASSUME NEW s \in Sender, PushStore(s)
      PROVE  /\ UNCHANGED <<key_epoch, rekey_required>> /\ unsent = {}
             /\ \E u : unsent' = {u} /\ u.type = "ENVELOPE"
  <2> DEFINE u == Notice("ENVELOPE", pushes[s], s, 0)
  <2>1. unsent = {} /\ unsent' = unsent \cup {u} /\ UNCHANGED <<key_epoch, rekey_required>>
    BY Zenon, <1>3, NothingOwed DEF PushStore, circleRow
  <2>2. u.type = "ENVELOPE"
    BY Zenon DEF Notice
  <2> HIDE DEF u
  <2> QED BY Zenon, <2>1, <2>2
<1>4. \/ UNCHANGED <<key_epoch, rekey_required, unsent>>
      \/ \E m \in Member : RemoveMember(m)
      \/ \E c \in commits : CommitEpoch(c)
      \/ \E s \in Sender : PushStore(s)
  BY Zenon DEF ServerStep, MemberStep, EpochStep, EnvelopeStep, AddMember, AcceptMember, DeleteCircle,
     ReadCircle, ReadMembers, CommitRefused, PushCheck, PushFail, ExpireEnvelope, circleRow
<1> QED BY Zenon, <1>1, <1>2, <1>3, <1>4

\* The invariant is kept, with one handler at a time between commit and broadcast.
LEMMA LiveStep ==
  ASSUME MaxUnsent = 1, TypeOK, LiveInv, [NextLive]_<<vars, live>> PROVE LiveInv'
<1>t. LiveTypes'
  BY Zenon, LiveTypesStep DEF LiveInv
<1> USE DEF LiveInv
<1>1. CASE ServerStep
  <2>1. UNCHANGED <<sock, queue, view, since>>
    BY Zenon, <1>1 DEF ServerStep
  <2>2. CASE UNCHANGED <<key_epoch, rekey_required, unsent>>
    BY Zenon, <1>t, <2>1, <2>2 DEF OwedInv, Current, Quiet, Since
  <2>3. ASSUME UNCHANGED <<key_epoch, rekey_required>>, unsent = {}, NEW u, unsent' = {u}, u.type = "ENVELOPE"
        PROVE  LiveInv'
    BY Zenon, <1>t, <2>1, <2>3 DEF OwedInv, Current, Quiet, Since, EpochType
  <2>4. ASSUME NEW u, unsent' = {u}, u.type = "EPOCH", Told(u) = Current' PROVE LiveInv'
    BY Zenon, <1>t, <2>4 DEF OwedInv, Quiet
  <2>5. ASSUME NEW u, unsent' = {u}, u.type = "MEMBER_REMOVED", Told(RekeyNotice(u)) = Current'
        PROVE  LiveInv'
    BY Zenon, <1>t, <2>5 DEF OwedInv, Quiet, EpochType
  <2> QED BY Zenon, <1>1, <2>2, <2>3, <2>4, <2>5, ServerEffect
<1>2. CASE BroadcastStep
  <2>1. PICK u \in unsent : Broadcast(u) /\ Deliver(u)
    BY Zenon, <1>2 DEF BroadcastStep
  <2>2. unsent = {u} /\ u \in Message
    BY Zenon DEF OwedInv, TypeOK
  <2>3. UNCHANGED <<key_epoch, rekey_required, view, since>>
    BY Zenon, <2>1 DEF Broadcast, Deliver, circleRow
  <2>4. CASE u.type = "MEMBER_REMOVED"
    <3>1. unsent' = {RekeyNotice(u)} BY Zenon, <2>1, <2>2, <2>4 DEF Broadcast
    <3>2. RekeyNotice(u).type = "REKEY" BY Zenon DEF RekeyNotice, Notice
    <3>3. Told(RekeyNotice(u)) = Current' BY Zenon, <2>3, <2>4 DEF OwedInv, Current
    <3> QED BY Zenon, <1>t, <3>1, <3>2, <3>3 DEF OwedInv, Quiet
  <2>5. CASE u.type # "MEMBER_REMOVED"
    <3>1. unsent' = {} BY Zenon, <2>1, <2>2, <2>5 DEF Broadcast
    <3>2. (u.type \in EpochType /\ Told(u) = Current) \/ (u.type = "ENVELOPE" /\ u.type \notin EpochType)
      <4>1. u.type \in {"MEMBER_REMOVED", "REKEY", "EPOCH", "ENVELOPE"}
        BY Zenon, <2>2 DEF Message, MessageType
      <4>2. u.type \in EpochType => Told(u) = Current
        BY Zenon DEF OwedInv
      <4> QED BY Zenon, <2>5, <4>1, <4>2 DEF EpochType
    <3>3. ASSUME NEW m \in Member, sock'[m] = "live"
          PROVE  UpToDate(queue'[m], view'[m], Since(m)', Current')
      <4>1. sock[m] = "live" /\ queue'[m] = Append(queue[m], u) /\ queue[m] \in Seq(Message)
        BY Zenon, <2>1, <3>3 DEF Deliver, Overrun, LiveTypes
      <4>2. u.type = "ENVELOPE" => UpToDate(queue[m], view[m], Since(m), Current)
        BY Zenon, <2>2, <4>1 DEF Quiet
      <4>3. UpToDate(queue'[m], view[m], Since(m), Current)
        BY Zenon, <4>1, <4>2, <3>2, <2>2, UpToDateAppend
      <4> QED BY Zenon, <4>3, <2>3 DEF Since, Current
    <3> QED BY Zenon, <1>t, <3>1, <3>3 DEF OwedInv
  <2> QED BY Zenon, <2>4, <2>5
<1>3. ASSUME NEW m \in Member, Subscribe(m) PROVE LiveInv'
  <2>1. /\ UNCHANGED <<key_epoch, rekey_required, unsent, queue, view>> /\ queue[m] = <<>>
        /\ since' = [since EXCEPT ![m] = [epoch |-> key_epoch, rekey |-> rekey_required, rev |-> revision]]
        /\ sock' = [sock EXCEPT ![m] = "live"]
    BY Zenon, <1>3 DEF Subscribe, vars, circleRow, LiveTypes
  <2>2. UpToDate(queue'[m], view'[m], Since(m)', Current')
    <3>1. Since(m)' = Current' BY Zenon, <2>1 DEF Since, Current, LiveTypes
    <3>2. NoneAfter(<<>>, 0) BY SMT DEF NoneAfter
    <3> QED BY Zenon, <2>1, <3>1, <3>2 DEF UpToDate
  <2>3. \A n \in Member \ {m} : sock'[n] = sock[n] /\ Since(n)' = Since(n)
    BY Zenon, <2>1 DEF LiveTypes, Since
  <2> QED BY Zenon, <1>t, <2>1, <2>2, <2>3 DEF OwedInv, Quiet, Current
<1>4. ASSUME NEW m \in Member, Receive(m) PROVE LiveInv'
  <2> DEFINE u == Head(queue[m])
  <2>1. /\ UNCHANGED <<key_epoch, rekey_required, unsent, since>> /\ sock[m] = "live"
        /\ queue[m] # <<>> /\ queue[m] \in Seq(Message)
    BY Zenon, <1>4 DEF Receive, vars, circleRow, LiveTypes
  <2>2. CASE ClosesSocket(m, u)
    <3>1. /\ sock' = [sock EXCEPT ![m] = "closed"] /\ queue' = [queue EXCEPT ![m] = <<>>]
          /\ view' = view
      BY Zenon, <2>2, <1>4 DEF Receive
    <3>2. \A n \in Member : sock'[n] = "live" => n # m /\ sock[n] = "live" /\ queue'[n] = queue[n]
      BY Zenon, <3>1 DEF LiveTypes
    <3> QED BY Zenon, <1>t, <2>1, <3>1, <3>2 DEF OwedInv, Quiet, Current, Since
  <2>3. CASE ~ClosesSocket(m, u)
    <3>1. /\ queue' = [queue EXCEPT ![m] = Tail(@)] /\ view' = [view EXCEPT ![m] = EpochChanged(@, u)]
          /\ UNCHANGED sock
      BY Zenon, <2>3, <1>4 DEF Receive
    <3>2. queue'[m] = Tail(queue[m]) /\ view'[m] = EpochChanged(view[m], u)
      BY Zenon, <3>1 DEF LiveTypes
    <3>3. Quiet => UpToDate(queue'[m], view'[m], Since(m), Current)
      BY Zenon, <3>2, <2>1, UpToDateTail
    <3>4. \A n \in Member \ {m} : queue'[n] = queue[n] /\ view'[n] = view[n]
      BY Zenon, <3>1 DEF LiveTypes
    <3> HIDE DEF u
    <3> QED BY Zenon, <1>t, <2>1, <3>1, <3>3, <3>4 DEF OwedInv, Quiet, Current, Since
  <2> QED BY Zenon, <2>2, <2>3
<1>5. ASSUME NEW m \in Member, JoinCheck(m) \/ Disconnect(m) \/ LoadCircle(m) PROVE LiveInv'
  <2>1. UNCHANGED <<key_epoch, rekey_required, unsent, since>>
    BY Zenon, <1>5 DEF JoinCheck, Disconnect, LoadCircle, vars, circleRow
  <2>2. \A n \in Member : sock'[n] = "live" =>
          n # m /\ sock[n] = "live" /\ queue'[n] = queue[n] /\ view'[n] = view[n]
    BY Zenon, <1>5 DEF JoinCheck, Disconnect, LoadCircle, LiveTypes
  <2> QED BY Zenon, <1>t, <2>1, <2>2 DEF OwedInv, Quiet, Current, Since
<1>6. CASE UNCHANGED <<vars, live>>
  BY Zenon, <1>t, <1>6 DEF vars, circleRow, live, OwedInv, Quiet, Current, Since
<1> QED
  BY Zenon, <1>1, <1>2, <1>3, <1>4, <1>5, <1>6 DEF NextLive, SocketStep

\* A page that has read everything knows the current epoch if it changed since
\* the page subscribed, for any members, any capacity and any lags, drops and
\* reconnects, when one handler at a time is between its commit and its
\* broadcast (ws/mod.rs, circle_hub.rs).
THEOREM ReadersKnowTheEpoch ==
  ASSUME MaxUnsent = 1 PROVE SpecLive => []DrainedViewIsCurrent
<1>1. Init /\ InitLive => LiveInv
  <2> SUFFICES ASSUME Init, InitLive PROVE LiveInv
    BY Zenon
  <2>1. LiveTypes
    <3>1. [epoch |-> 0, rekey |-> TRUE] \in AnyView /\ <<>> \in Seq(Message)
          /\ [epoch |-> 0, rekey |-> TRUE, rev |-> 0] \in [epoch : Nat, rekey : BOOLEAN, rev : Nat]
      BY SMT DEF AnyView
    <3> QED BY Zenon, <3>1 DEF InitLive, LiveTypes
  <2> QED BY Zenon, <2>1 DEF Init, InitLive, LiveInv, OwedInv
<1>2. LiveInv => DrainedViewIsCurrent
  <2> SUFFICES ASSUME LiveInv, NEW m \in Member, Drained(m), Current # Since(m)
               PROVE  view[m] = Current
    BY Zenon DEF DrainedViewIsCurrent, Current, Since
  <2>1. UpToDate(<<>>, view[m], Since(m), Current)
    BY Zenon DEF LiveInv, Drained, Quiet
  <2>2. ~(\E i \in DOMAIN <<>> : TRUE)
    BY SMT
  <2> QED BY Zenon, <2>1, <2>2 DEF UpToDate
<1>3. TypeOK /\ LiveInv /\ [NextLive]_<<vars, live>> => LiveInv'
  BY Zenon, LiveStep
<1> QED BY <1>1, <1>2, <1>3, SocketsKeepCircles, TypeCorrect, PTL DEF SpecLive

-----------------------------------------------------------------------------
(* LocationShare: the key store and the map *)

\* Every epoch has its own key, or none yet.
KeyInv == DOMAIN keyOf = Epoch /\ KeyIsOwners

\* Only unwrap writes the key store, and it saves a key at its own epoch.
LEMMA KeyStep == ASSUME KeyInv, SharingNext PROVE KeyInv'
<1>1. ASSUME UNCHANGED keyOf PROVE KeyInv' BY Zenon, <1>1 DEF KeyInv, KeyIsOwners
<1>2. CASE unwrap
  <2>1. keyOf' = keyOf \/ keyOf' = [keyOf EXCEPT ![load.wrap] = load.wrap]
    BY Zenon, <1>2 DEF unwrap, unwrapNip44CircleKey
  <2>2. CASE keyOf' = [keyOf EXCEPT ![load.wrap] = load.wrap]
    BY Zenon, <2>2 DEF KeyInv, KeyIsOwners
  <2> QED BY Zenon, <1>1, <2>1, <2>2
<1>3. CASE CircleStep \/ Tick
  BY Zenon, <1>1, <1>3 DEF CircleStep, Tick, commit_epoch, remove_self, remove_member, push_envelope, keyStore
<1>4. CASE useCircles \/ fetchDetail \/ circleLoaded \/ handleAcceptInvite \/ \E code \in Codes : trackCircle(code)
  BY Zenon, <1>1, <1>4 DEF useCircles, fetchDetail, circleLoaded, handleAcceptInvite, trackCircle, keyStore
<1>5. CASE PageSocketStep \/ \E t \in tasks : envelopeDecrypted(t)
  BY Zenon, <1>1, <1>5 DEF PageSocketStep, connect, connectFails, onclose, onmessage, socketOnly, envelopeDecrypted, keyStore
<1>6. CASE startSharing \/ publishOnce \/ stopButton \/ PublishStep
  BY Zenon, <1>1, <1>6 DEF startSharing, publishOnce, stopButton, PublishStep, post, response, publishThrows, other, keyStore
<1>7. CASE handleLeave \/ Reload
  BY Zenon, <1>1, <1>7 DEF handleLeave, Reload, keyStore
<1> QED BY Zenon, <1>2, <1>3, <1>4, <1>5, <1>6, <1>7 DEF SharingNext

\* The key stored for an epoch is the owner's key of that epoch, although a
\* commit may fall between the reads of get_circle (unwrapNip44CircleKey).
THEOREM StoredKeysAreTheOwners == SharingSpec => []KeyIsOwners
<1>1. SharingInit => KeyInv
  <2> SUFFICES ASSUME SharingInit PROVE KeyInv BY Zenon
  <2>1. keyOf = [e \in Epoch |-> 0] BY Zenon DEF SharingInit
  <2> QED BY Zenon, <2>1 DEF KeyInv, KeyIsOwners
<1>2. KeyInv /\ [SharingNext]_sharingVars => KeyInv'
  <2> SUFFICES ASSUME KeyInv, [SharingNext]_sharingVars PROVE KeyInv' BY Zenon
  <2>1. CASE UNCHANGED sharingVars BY Zenon, <2>1 DEF sharingVars, keyStore, KeyInv, KeyIsOwners
  <2> QED BY Zenon, <2>1, KeyStep
<1>3. KeyInv => KeyIsOwners BY Zenon DEF KeyInv
<1> QED BY <1>1, <1>2, <1>3, PTL DEF SharingSpec

Fix == [from : Peer, epoch : Nat, at : Nat]
SocketNotice == [type : {"ENVELOPE"}, envs : SUBSET Fix]
          \cup [type : {"EPOCH"}, epoch : Nat, rekey : BOOLEAN]
          \cup [type : {"REMOVED"}, token : Peer \cup {Self}]

\* Envelopes carry the time they were captured, and what the map shows of a
\* peer is no younger than what was seen last.
MapInv ==
  /\ now \in Nat /\ current_epoch \in Nat
  /\ stored_blob \in [Peer -> Fix \cup {None}]
  /\ ws_queue \in Seq(SocketNotice) /\ \A t \in tasks : t.env \in Fix
  /\ seen \in [Peer -> Nat] /\ shown \in [Peer -> Nat]
  /\ \A p \in Peer : shown[p] <= seen[p]

\* A broadcast of notices.
LEMMA SendFact ==
  ASSUME MapInv, NEW a \in SocketNotice, NEW b \in SocketNotice
  PROVE  /\ Send(<<a>>) => ws_queue' \in Seq(SocketNotice)
         /\ Send(<<a, b>>) => ws_queue' \in Seq(SocketNotice)
<1>1. ws_queue \in Seq(SocketNotice) BY Zenon DEF MapInv
<1>2. ws_queue \o <<a>> \in Seq(SocketNotice) /\ ws_queue \o <<a, b>> \in Seq(SocketNotice) BY SMT, <1>1
<1> QED BY Zenon, <1>1, <1>2 DEF Send

\* The first notice of a queue, and the others.
LEMMA NoticeFact ==
  ASSUME NEW q \in Seq(SocketNotice), q # <<>>
  PROVE  Head(q) \in SocketNotice /\ Tail(q) \in Seq(SocketNotice)
BY SMT

\* Every step keeps MapInv, and the positions it replaces are older.
Advances == \A p \in Peer : shown[p] # 0 /\ shown'[p] # 0 => shown[p] <= shown'[p]
LEMMA MapStep == ASSUME Parameters, MapInv, SharingNext PROVE MapInv' /\ Advances
<1>n. 0 \in Nat /\ <<>> \in Seq(SocketNotice) /\ (\A x \in Nat : x + 1 \in Nat) BY SMT
<1>r. \A p \in Peer : shown[p] <= shown[p]
  <2>1. \A x \in Nat : x <= x BY SMT
  <2> QED BY Zenon, <2>1 DEF MapInv
<1>a. ASSUME UNCHANGED <<seen, shown>> PROVE Advances /\ (\A p \in Peer : shown'[p] <= seen'[p])
  BY Zenon, <1>a, <1>r DEF MapInv, Advances
<1>b. ASSUME UNCHANGED <<now, current_epoch, stored_blob, ws_queue, tasks, seen, shown>> PROVE MapInv' /\ Advances
  BY Zenon, <1>a, <1>b DEF MapInv
<1>1. CASE commit_epoch
  <2>1. current_epoch + 1 \in Nat BY Zenon, <1>n DEF MapInv
  <2>2. EpochNotice(current_epoch + 1, FALSE) \in SocketNotice BY Zenon, <2>1 DEF EpochNotice, SocketNotice
  <2>3. ws_queue' \in Seq(SocketNotice) BY Zenon, <1>1, <2>2, SendFact DEF commit_epoch
  <2>4. UNCHANGED <<now, tasks, seen, shown>> /\ current_epoch' = current_epoch + 1
        /\ stored_blob' = [p \in Peer |-> None]
    BY Zenon, <1>1 DEF commit_epoch, page, map
  <2>5. stored_blob' \in [Peer -> Fix \cup {None}] BY Zenon, <2>4
  <2> QED BY Zenon, <1>a, <2>1, <2>3, <2>4, <2>5 DEF MapInv
<1>2. ASSUME NEW p \in Peer, remove_member(p) PROVE MapInv' /\ Advances
  <2>1. RemovalNotice(p) \in SocketNotice /\ EpochNotice(current_epoch, TRUE) \in SocketNotice
    BY Zenon DEF RemovalNotice, EpochNotice, SocketNotice, MapInv
  <2>2. ws_queue' \in Seq(SocketNotice) BY Zenon, <1>2, <2>1, SendFact DEF remove_member
  <2>3. UNCHANGED <<now, tasks, seen, shown, current_epoch>> /\ stored_blob' = [stored_blob EXCEPT ![p] = None]
    BY Zenon, <1>2 DEF remove_member, page, map
  <2>4. stored_blob' \in [Peer -> Fix \cup {None}] BY Zenon, <2>3 DEF MapInv
  <2> QED BY Zenon, <1>a, <2>2, <2>3, <2>4 DEF MapInv
<1>3. CASE remove_self
  <2>1. RemovalNotice(Self) \in SocketNotice BY Zenon DEF RemovalNotice, SocketNotice
  <2>2. ws_queue' \in Seq(SocketNotice) BY Zenon, <1>3, <2>1, SendFact DEF remove_self
  <2>3. UNCHANGED <<now, tasks, seen, shown, current_epoch, stored_blob>> BY Zenon, <1>3 DEF remove_self, page, map
  <2> QED BY Zenon, <1>a, <2>2, <2>3 DEF MapInv
<1>4. ASSUME NEW p \in Peer, push_envelope(p) PROVE MapInv' /\ Advances
  <2> DEFINE env == [from |-> p, epoch |-> current_epoch, at |-> now]
  <2>1. env \in Fix BY Zenon DEF MapInv, Fix
  <2>2. [type |-> "ENVELOPE", envs |-> {env}] \in SocketNotice BY Zenon, <2>1 DEF SocketNotice
  <2>3. UNCHANGED <<now, tasks, seen, shown, current_epoch>> /\ stored_blob' = [stored_blob EXCEPT ![p] = env]
        /\ Send(<<[type |-> "ENVELOPE", envs |-> {env}]>>)
    BY Zenon, <1>4 DEF push_envelope, page, map
  <2> HIDE DEF env
  <2>4. ws_queue' \in Seq(SocketNotice) BY Zenon, <2>2, <2>3, SendFact
  <2>5. stored_blob' \in [Peer -> Fix \cup {None}] BY Zenon, <2>1, <2>3 DEF MapInv
  <2> QED BY Zenon, <1>a, <2>3, <2>4, <2>5 DEF MapInv
<1>5. CASE Tick
  <2>1. UNCHANGED <<current_epoch, stored_blob, ws_queue, tasks, seen, shown>> /\ now' = now + 1
    BY Zenon, <1>5 DEF Tick, server, page, map
  <2> QED BY Zenon, <1>a, <1>n, <2>1 DEF MapInv
<1>6. CASE useCircles \/ fetchDetail \/ unwrap \/ circleLoaded \/ handleAcceptInvite
           \/ \E code \in Codes : trackCircle(code)
  BY Zenon, <1>b, <1>6 DEF useCircles, fetchDetail, unwrap, circleLoaded, handleAcceptInvite, trackCircle, loadOnly,
     server, map
<1>7. CASE connect
  <2>1. Snapshot \subseteq Fix BY Zenon DEF Snapshot, MapInv
  <2>2. [type |-> "ENVELOPE", envs |-> Snapshot] \in SocketNotice BY Zenon, <2>1 DEF SocketNotice
  <2>3. <<[type |-> "ENVELOPE", envs |-> Snapshot]>> \in Seq(SocketNotice) BY SMT, <2>2
  <2>4. UNCHANGED <<now, current_epoch, stored_blob, tasks, seen, shown>> BY Zenon, <1>7 DEF connect, socketOnly, server, map
  <2>5. ws_queue' \in Seq(SocketNotice) BY Zenon, <1>7, <2>3 DEF connect, MapInv
  <2> QED BY Zenon, <1>a, <2>4, <2>5 DEF MapInv
<1>8. CASE connectFails \/ onclose
  <2>1. UNCHANGED <<now, current_epoch, stored_blob, tasks, seen, shown>> /\ ws_queue' \in {ws_queue, <<>>}
    BY Zenon, <1>8 DEF connectFails, onclose, socketOnly, server, map
  <2> QED BY Zenon, <1>a, <1>n, <2>1 DEF MapInv
<1>9. CASE onmessage
  <2>1. UNCHANGED <<now, current_epoch, stored_blob, seen, shown>> /\ ws_queue # <<>>
    BY Zenon, <1>9 DEF onmessage, server, map
  <2>2. Head(ws_queue) \in SocketNotice /\ Tail(ws_queue) \in Seq(SocketNotice) BY Zenon, <2>1, NoticeFact DEF MapInv
  <2>3. ws_queue' \in {Tail(ws_queue), <<>>}
        /\ (tasks' = tasks \/ (Head(ws_queue).type = "ENVELOPE" /\ handleEnvelope(Head(ws_queue).envs)))
    BY Zenon, <1>9 DEF onmessage
  <2>4. \A t \in tasks' : t.env \in Fix
    <3>1. CASE tasks' = tasks BY Zenon, <3>1 DEF MapInv
    <3>2. CASE Head(ws_queue).type = "ENVELOPE" /\ handleEnvelope(Head(ws_queue).envs)
      <4> DEFINE m == Head(ws_queue)
      <4>1. "ENVELOPE" # "EPOCH" /\ "ENVELOPE" # "REMOVED" BY Zenon
      <4>2. m.envs \subseteq Fix BY Zenon, <4>1, <3>2, <2>2 DEF SocketNotice
      <4> HIDE DEF m
      <4>3. tasks' = tasks \cup {[env |-> env, pubkeys |-> circle.roster] : env \in {e \in m.envs : currentEpoch(e)}}
        BY Zenon, <3>2 DEF handleEnvelope, m
      <4>4. ASSUME NEW t \in tasks', t \notin tasks PROVE t.env \in Fix
        <5>1. PICK e \in m.envs : t = [env |-> e, pubkeys |-> circle.roster] BY Zenon, <4>3, <4>4
        <5> QED BY Zenon, <4>2, <5>1
      <4> QED BY Zenon, <4>4 DEF MapInv
    <3> QED BY Zenon, <2>3, <3>1, <3>2
  <2> QED BY Zenon, <1>a, <1>n, <2>1, <2>2, <2>3, <2>4 DEF MapInv
<1>10. ASSUME NEW t \in tasks, envelopeDecrypted(t) PROVE MapInv' /\ Advances
  <2>1. UNCHANGED <<now, current_epoch, stored_blob, ws_queue>> /\ tasks' = tasks \ {t}
    BY Zenon, <1>10 DEF envelopeDecrypted, server
  <2>2. CASE UNCHANGED <<seen, shown>> BY Zenon, <1>a, <2>1, <2>2 DEF MapInv
  <2>3. CASE ~outdated(t.env) /\ seen' = [seen EXCEPT ![t.env.from] = t.env.at]
             /\ shown' = [shown EXCEPT ![t.env.from] = t.env.at]
    <3> DEFINE p == t.env.from
               at == t.env.at
    <3>1. p \in Peer /\ at \in Nat BY Zenon DEF MapInv, Fix
    <3>2. seen[p] \in Nat /\ shown[p] \in Nat /\ shown[p] <= seen[p] /\ ~(at <= seen[p])
      BY Zenon, <3>1, <2>3 DEF MapInv, outdated
    <3> HIDE DEF p, at
    <3>3. shown[p] <= at /\ at <= at BY SMT, <3>1, <3>2
    <3>4. seen' = [seen EXCEPT ![p] = at] /\ shown' = [shown EXCEPT ![p] = at] BY Zenon, <2>3 DEF p, at
    <3>5. seen' \in [Peer -> Nat] /\ shown' \in [Peer -> Nat] BY Zenon, <3>1, <3>4 DEF MapInv
    <3>6. \A x \in Peer : (x = p /\ shown'[x] = at /\ seen'[x] = at) \/ (x # p /\ shown'[x] = shown[x] /\ seen'[x] = seen[x])
      BY Zenon, <3>1, <3>4 DEF MapInv
    <3>7. \A x \in Peer : shown'[x] <= seen'[x] BY Zenon, <3>3, <3>6 DEF MapInv
    <3>8. \A x \in Peer : shown[x] <= shown'[x] BY Zenon, <3>3, <3>6, <1>r
    <3> QED BY Zenon, <2>1, <3>5, <3>7, <3>8 DEF MapInv, Advances
  <2> QED BY Zenon, <1>10, <2>2, <2>3 DEF envelopeDecrypted, locationReceived
<1>11. CASE startSharing \/ publishOnce \/ stopButton \/ PublishStep
  BY Zenon, <1>b, <1>11 DEF startSharing, publishOnce, stopButton, PublishStep, post, response, publishThrows, other,
     server, map
<1>12. ASSUME ws_queue' = <<>>, tasks' \subseteq tasks, UNCHANGED <<now, current_epoch, stored_blob>>,
              shown' = [x \in Peer |-> 0], seen' = seen \/ seen' = [x \in Peer |-> 0]
       PROVE  MapInv' /\ Advances
  <2>1. shown' \in [Peer -> Nat] /\ seen' \in [Peer -> Nat] /\ \A p \in Peer : shown'[p] = 0
    BY Zenon, <1>12, <1>n DEF MapInv
  <2>2. \A x \in Nat : 0 <= x BY SMT
  <2>3. \A p \in Peer : shown'[p] <= seen'[p] BY Zenon, <2>1, <2>2
  <2> QED BY Zenon, <1>12, <1>n, <2>1, <2>3 DEF MapInv, Advances
<1>13. CASE handleLeave
  BY Zenon, <1>12, <1>13 DEF handleLeave, circleLeft, server
<1>14. CASE Reload
  BY Zenon, <1>12, <1>14 DEF Reload, server
<1> QED BY Zenon, <1>1, <1>2, <1>3, <1>4, <1>5, <1>6, <1>7, <1>8, <1>9, <1>10, <1>11, <1>13, <1>14
        DEF SharingNext, CircleStep, PageSocketStep

\* A member's position on the map never goes back in time, in whatever order
\* snapshots and broadcasts arrive and their decryptions finish (seenRef).
THEOREM MapNeverGoesBack == ASSUME Parameters PROVE SharingSpec => NeverBackInTime
<1>1. SharingInit => MapInv
  <2> SUFFICES ASSUME SharingInit PROVE MapInv BY Zenon
  <2>1. now \in Nat /\ current_epoch \in Nat /\ ws_queue \in Seq(SocketNotice) BY SMT DEF SharingInit, PageInit, Parameters
  <2>2. tasks = {} /\ stored_blob = [p \in Peer |-> None] BY Zenon DEF SharingInit, PageInit
  <2>3. seen = [p \in Peer |-> 0] /\ shown = [p \in Peer |-> 0] BY Zenon DEF SharingInit, PageInit
  <2>4. seen \in [Peer -> Nat] /\ shown \in [Peer -> Nat] /\ \A p \in Peer : shown[p] <= seen[p] BY SMT, <2>3
  <2>5. stored_blob = [p \in Peer |-> None] BY Zenon DEF SharingInit
  <2> QED BY Zenon, <2>1, <2>2, <2>4, <2>5 DEF MapInv
<1>2. MapInv /\ [SharingNext]_sharingVars => MapInv'
  <2> SUFFICES ASSUME MapInv, [SharingNext]_sharingVars PROVE MapInv' BY Zenon
  <2>1. CASE UNCHANGED sharingVars BY Zenon, <2>1 DEF sharingVars, server, map, MapInv
  <2> QED BY Zenon, <2>1, MapStep
<1>3. MapInv /\ [SharingNext]_sharingVars => [Advances]_sharingVars BY Zenon, MapStep
<1>4. SharingSpec => [][Advances]_sharingVars BY <1>1, <1>2, <1>3, PTL DEF SharingSpec
<1>5. Advances <=> \A p \in Peer : shown[p] # 0 /\ shown'[p] # 0 => shown[p] <= shown'[p] BY Zenon DEF Advances
<1> QED BY <1>4, <1>5, PTL DEF NeverBackInTime
=============================================================================
