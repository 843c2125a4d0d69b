----------------------------- MODULE ChatProofs -----------------------------
(*************************************************************************)
(* Proofs about the messenger (Chat) and about what a gift wrap says to  *)
(* each of its receivers (GiftWrap), for any users, messages, relays,    *)
(* tasks and faults.                                                     *)
(*************************************************************************)
EXTENDS Chat, GiftWrap, FiniteSetTheorems, WellFoundedInduction, TLAPS

-----------------------------------------------------------------------------
(* Chat: the inbox *)

\* A finite set of numbers has a greatest one.
LEMMA Greatest ==
  ASSUME NEW S, IsFiniteSet(S), S \subseteq Nat, S # {}
  PROVE  Max(S) \in Nat /\ Max(S) \in S /\ \A y \in S : y <= Max(S)
<1> DEFINE Topped(T) == \E x \in T : \A y \in T : x >= y
           Bad == {n \in Nat : \E T \in SUBSET S : T # {} /\ Cardinality(T) = n /\ ~Topped(T)}
<1>f. ASSUME NEW T \in SUBSET S PROVE IsFiniteSet(T) /\ Cardinality(T) \in Nat
  BY Zenon, FS_Subset, FS_CardinalityType
<1>1. Bad = {}
  <2> SUFFICES ASSUME Bad # {} PROVE FALSE BY Zenon
  <2>1. PICK n \in Bad : \A m \in Bad : ~(<<m, n>> \in OpToRel(<, Nat))
    BY Zenon, NatLessThanWellFounded, WFMin
  <2>2. PICK T \in SUBSET S : T # {} /\ Cardinality(T) = n /\ ~Topped(T)
    BY Zenon
  <2>3. PICK x \in T : TRUE
    BY Zenon, <2>2
  <2> DEFINE U == T \ {x}
  <2>4. Cardinality(U) = n - 1 /\ n \in Nat /\ Cardinality(U) \in Nat /\ U \in SUBSET S
    <3>1. Cardinality(U) = Cardinality(T) - 1 BY Zenon, <2>2, <2>3, <1>f, FS_RemoveElement
    <3> QED BY Zenon, <3>1, <2>2, <1>f
  <2>5. Cardinality(U) \notin Bad
    <3>1. <<Cardinality(U), n>> \in OpToRel(<, Nat) BY <2>4 DEF OpToRel
    <3> QED BY Zenon, <2>1, <3>1
  <2>6. U = {} \/ Topped(U)
    BY Zenon, <2>4, <2>5
  <2> HIDE DEF Bad
  <2>7. CASE U = {}
    <3>1. T = {x} BY Zenon, <2>7, <2>3
    <3>2. x \in Nat BY Zenon, <2>2, <2>3
    <3> QED BY <2>2, <3>1, <3>2
  <2>8. CASE Topped(U)
    <3>1. PICK z \in U : \A y \in U : z >= y BY Zenon, <2>8
    <3>2. T \subseteq Nat /\ T = U \cup {x} /\ z \in Nat /\ x \in Nat BY Zenon, <2>2, <2>3, <3>1
    <3>3. (\A y \in T : z >= y) \/ (\A y \in T : x >= y)
      BY <3>1, <3>2
    <3> QED BY Zenon, <2>2, <2>3, <3>1, <3>3
  <2> QED BY Zenon, <2>6, <2>7, <2>8
<1>2. Topped(S)
  <2>1. S \in SUBSET S /\ Cardinality(S) \in Nat BY Zenon, <1>f
  <2>2. ~Topped(S) => Cardinality(S) \in Bad BY Zenon, <2>1
  <2> QED BY Zenon, <1>1, <2>2
<1>3. Max(S) \in S /\ \A y \in S : Max(S) >= y
  BY Zenon, <1>2 DEF Max
<1>4. Max(S) \in Nat BY Zenon, <1>3
<1> QED BY Zenon, <1>3, <1>4

\* The image of a finite set is finite.
LEMMA FiniteImage ==
  ASSUME NEW S, IsFiniteSet(S), NEW T, NEW f \in [S -> T], NEW R, R = {f[x] : x \in S}
  PROVE  IsFiniteSet(R)
<1>1. f \in Surjection(S, R)
  BY Zenon DEF Surjection
<1> QED BY Zenon, <1>1, FS_Surjection

Tasks == [wrap : Wrap, ph : Phase, mount : Nat, key : Nat]
InboxTypes ==
  /\ tasks \subseteq Tasks /\ IsFiniteSet(tasks) /\ mount \in Nat /\ deviceKey \in Nat
  /\ cipher \in [Wrap \cup Event -> Nat \cup {None}] /\ gift_wraps \subseteq Wrap
InboxInv == InboxTypes /\ SeenIsKept

\* A wrap is taken care of.
Kept(w, c, x, ts) == \/ c[w] # None \/ w \in x
                     \/ \E t \in ts : t.wrap = w /\ t.ph \in {"key", "newkey", "put"}

\* What a step does to a task.
LEMMA TaskFact ==
  ASSUME InboxTypes, NEW t \in tasks
  PROVE  /\ t \in Tasks /\ tasks \ {t} \subseteq Tasks /\ IsFiniteSet(tasks \ {t})
         /\ \A u \in Tasks : (tasks \ {t}) \cup {u} \subseteq Tasks /\ IsFiniteSet((tasks \ {t}) \cup {u})
         /\ \A ph \in Phase : /\ [t EXCEPT !.ph = ph] \in Tasks /\ [t EXCEPT !.ph = ph].wrap = t.wrap
                              /\ [t EXCEPT !.ph = ph].ph = ph
         /\ \A ph \in Phase, k \in Nat :
              /\ [t EXCEPT !.ph = ph, !.key = k] \in Tasks /\ [t EXCEPT !.ph = ph, !.key = k].wrap = t.wrap
              /\ [t EXCEPT !.ph = ph, !.key = k].ph = ph
<1>1. t \in Tasks /\ tasks \ {t} \subseteq Tasks BY Zenon DEF InboxTypes
<1>2. IsFiniteSet(tasks \ {t}) BY Zenon, FS_RemoveElement DEF InboxTypes
<1>3. ASSUME NEW u \in Tasks PROVE (tasks \ {t}) \cup {u} \subseteq Tasks /\ IsFiniteSet((tasks \ {t}) \cup {u})
  BY Zenon, <1>1, <1>2, FS_AddElement
<1>4. ASSUME NEW ph \in Phase
      PROVE  /\ [t EXCEPT !.ph = ph] \in Tasks /\ [t EXCEPT !.ph = ph].wrap = t.wrap
             /\ [t EXCEPT !.ph = ph].ph = ph
  BY Zenon, <1>1 DEF Tasks
<1>5. ASSUME NEW ph \in Phase, NEW k \in Nat
      PROVE  /\ [t EXCEPT !.ph = ph, !.key = k] \in Tasks /\ [t EXCEPT !.ph = ph, !.key = k].wrap = t.wrap
             /\ [t EXCEPT !.ph = ph, !.key = k].ph = ph
  BY Zenon, <1>1 DEF Tasks
<1> QED BY Zenon, <1>1, <1>2, <1>3, <1>4, <1>5

\* A key that a task makes is a new number.
LEMMA FreshKeyType == ASSUME InboxTypes PROVE FreshKey \in Nat
<1> DEFINE K == {t.key : t \in tasks}
<1>1. IsFiniteSet(K)
  <2> DEFINE f == [t \in tasks |-> t.key]
  <2>1. f \in [tasks -> Nat] BY Zenon DEF InboxTypes, Tasks
  <2>2. K = {f[t] : t \in tasks} BY Zenon 
  <2> HIDE DEF f, K
  <2> QED BY <2>1, <2>2, FiniteImage DEF InboxTypes
<1>2. IsFiniteSet({deviceKey} \cup K)
  <2>1. IsFiniteSet(K \cup {deviceKey}) BY Zenon, <1>1, FS_AddElement
  <2>2. {deviceKey} \cup K = K \cup {deviceKey} BY Zenon 
  <2> QED BY Zenon, <2>1, <2>2
<1>3. {deviceKey} \cup K \subseteq Nat /\ {deviceKey} \cup K # {}
  BY Zenon DEF InboxTypes, Tasks
<1>4. Max({deviceKey} \cup K) \in Nat BY Zenon, <1>2, <1>3, Greatest
<1> QED BY SMT, <1>4 DEF FreshKey

\* SeenIsKept, wrap by wrap.
LEMMA KeptFact == SeenIsKept <=> \A w \in gift_wraps : Kept(w, cipher, cut, tasks)
BY Zenon DEF SeenIsKept, Kept

\* A task that goes on, keeping the wrap it has.
LEMMA TaskGoesOn ==
  ASSUME InboxInv, NEW t \in tasks, NEW u \in Tasks, u.wrap = t.wrap,
         t.ph \in {"key", "newkey", "put"} => u.ph \in {"key", "newkey", "put"},
         tasks' = (tasks \ {t}) \cup {u}, UNCHANGED <<mount, cipher, gift_wraps, cut>>, deviceKey' \in Nat
  PROVE  InboxInv'
<1>1. InboxTypes' BY Zenon, TaskFact DEF InboxInv, InboxTypes
<1>2. ASSUME NEW w, Kept(w, cipher, cut, tasks) PROVE Kept(w, cipher', cut', tasks')
  BY Zenon, <1>2 DEF Kept
<1> QED BY Zenon, <1>1, <1>2 DEF InboxInv, SeenIsKept, Kept

\* A task that ends: the wrap is stored or accounted for, or the task did not hold it.
LEMMA TaskIsOver ==
  ASSUME InboxInv, NEW t \in tasks, tasks' = tasks \ {t}, UNCHANGED <<mount, deviceKey>>,
         cipher' \in [Wrap \cup Event -> Nat \cup {None}],
         \A w \in Wrap \cup Event : cipher[w] # None => cipher'[w] # None,
         cut \subseteq cut', gift_wraps' \subseteq gift_wraps \cup {t.wrap},
         (gift_wraps' = gift_wraps /\ t.ph \notin {"key", "newkey", "put"}) \/ t.wrap \in cut' \/ cipher'[t.wrap] # None
  PROVE  InboxInv'
<1>0. t.wrap \in Wrap BY Zenon DEF InboxInv, InboxTypes, Tasks
<1>1. InboxTypes' BY Zenon, <1>0, TaskFact DEF InboxInv, InboxTypes
<1>2. ASSUME NEW w \in gift_wraps' PROVE Kept(w, cipher', cut', tasks')
  <2>1. CASE w \in gift_wraps
    <3>1. Kept(w, cipher, cut, tasks) /\ w \in Wrap BY Zenon, <2>1, KeptFact DEF InboxInv, InboxTypes
    <3> QED BY Zenon, <3>1 DEF Kept
  <2>2. CASE w \notin gift_wraps
    BY Zenon, <2>2, <1>2 DEF Kept
  <2> QED BY Zenon, <2>1, <2>2
<1> QED BY Zenon, <1>1, <1>2 DEF InboxInv, SeenIsKept, Kept

\* The steps of the inbox's effect.
LEMMA InboxKeeps == ASSUME InboxInv, InboxStep, None \notin Nat PROVE InboxInv'
<1>t. /\ InboxTypes /\ mount \in Nat /\ deviceKey \in Nat /\ cipher \in [Wrap \cup Event -> Nat \cup {None}]
      /\ \A t \in tasks : t \in Tasks /\ t.wrap \in Wrap /\ t.key \in Nat
  BY Zenon DEF InboxInv, InboxTypes, Tasks
<1>p. {"check", "unwrap", "mark", "key", "newkey", "put"} = Phase BY Zenon DEF Phase
<1>1. ASSUME NEW w \in Wrap, subscribe(w) PROVE InboxInv'
  <2> DEFINE u == Task(w, "check", NoDeviceKey)
  <2>1. tasks' = tasks \cup {u} /\ UNCHANGED <<mount, cipher, gift_wraps, cut, deviceKey>>
    BY Zenon, <1>1 DEF subscribe, store
  <2>2. u \in Tasks
    <3>1. NoDeviceKey \in Nat BY Zenon DEF NoDeviceKey
    <3> QED BY Zenon, <3>1, <1>t, <1>p DEF Task, Tasks
  <2> HIDE DEF u
  <2>3. IsFiniteSet(tasks') /\ tasks' \subseteq Tasks
    BY Zenon, <2>1, <2>2, <1>t, FS_AddElement DEF InboxTypes
  <2>4. SeenIsKept' BY Zenon, <2>1 DEF InboxInv, SeenIsKept
  <2> QED BY Zenon, <2>1, <2>3, <2>4, <1>t DEF InboxInv, InboxTypes
<1>e. ASSUME NEW t \in tasks, Ends(t), t.ph \notin {"key", "newkey", "put"},
             UNCHANGED <<mount, cipher, gift_wraps, cut, deviceKey>>
      PROVE  InboxInv'
  BY Zenon, <1>e, <1>t, TaskIsOver DEF Ends
<1>b. ASSUME NEW t \in tasks, NEW ph \in Phase, Becomes(t, ph),
             t.ph \in {"key", "newkey", "put"} => ph \in {"key", "newkey", "put"},
             UNCHANGED <<mount, cipher, gift_wraps, cut>>, deviceKey' \in Nat
      PROVE  InboxInv'
  <2> DEFINE u == [t EXCEPT !.ph = ph]
  <2>1. u \in Tasks /\ u.wrap = t.wrap /\ u.ph = ph BY Zenon, <1>t, TaskFact
  <2>2. tasks' = (tasks \ {t}) \cup {u} BY Zenon, <1>b DEF Becomes
  <2> HIDE DEF u
  <2> QED BY Zenon, <2>1, <2>2, <1>b, TaskGoesOn
<1>2. ASSUME NEW t \in tasks, isSeen(t) PROVE InboxInv'
  <2>1. t.ph = "check" /\ (Ends(t) \/ Becomes(t, "unwrap")) /\ UNCHANGED <<mount, cipher, gift_wraps, cut, deviceKey>>
    BY Zenon, <1>2 DEF isSeen, store
  <2> QED BY Zenon, <2>1, <1>b, <1>e, <1>t, <1>p
<1>3. ASSUME NEW t \in tasks, unwrapAnswered(t) PROVE InboxInv'
  <2>1. t.ph = "unwrap" /\ (Ends(t) \/ Becomes(t, "mark")) /\ UNCHANGED <<mount, cipher, gift_wraps, cut, deviceKey>>
    BY Zenon, <1>3 DEF unwrapAnswered, store
  <2> QED BY Zenon, <2>1, <1>b, <1>e, <1>t, <1>p
<1>4. ASSUME NEW t \in tasks, markGiftWrapSeen(t) PROVE InboxInv'
  <2>1. t.ph = "mark" /\ gift_wraps' = gift_wraps \cup {t.wrap} /\ UNCHANGED <<mount, cipher, deviceKey>>
    BY Zenon, <1>4 DEF markGiftWrapSeen
  <2>2. CASE t.mount # mount
    <3>1. Ends(t) /\ cut' = cut \cup {t.wrap} BY Zenon, <1>4, <2>2 DEF markGiftWrapSeen
    <3> QED BY Zenon, <3>1, <2>1, <1>t, TaskIsOver DEF Ends
  <2>3. CASE t.mount = mount
    <3> DEFINE u == [t EXCEPT !.ph = "key"]
    <3>1. tasks' = (tasks \ {t}) \cup {u} /\ cut' = cut BY Zenon, <1>4, <2>3 DEF markGiftWrapSeen, Becomes
    <3>2. u \in Tasks /\ u.wrap = t.wrap /\ u.ph = "key" BY Zenon, <1>t, <1>p, TaskFact
    <3> HIDE DEF u
    <3>5. tasks' \subseteq Tasks /\ IsFiniteSet(tasks') BY Zenon, <3>1, <3>2, <1>t, TaskFact
    <3>6. gift_wraps' \subseteq Wrap BY Zenon, <2>1, <1>t DEF InboxTypes
    <3>3. InboxTypes' BY Zenon, <3>5, <3>6, <2>1, <1>t DEF InboxTypes
    <3>4. SeenIsKept' BY Zenon, <3>1, <3>2, <2>1 DEF InboxInv, SeenIsKept
    <3> QED BY Zenon, <3>3, <3>4 DEF InboxInv
  <2> QED BY Zenon, <2>2, <2>3
<1>5. ASSUME NEW t \in tasks, getOrCreateEncryptionKey(t) PROVE InboxInv'
  <2>1. UNCHANGED <<mount, cipher, gift_wraps, cut, deviceKey>>
    BY Zenon, <1>5 DEF getOrCreateEncryptionKey, store
  <2>2. PICK ph \in {"put", "newkey"}, k \in {deviceKey, FreshKey} :
          tasks' = (tasks \ {t}) \cup {[t EXCEPT !.ph = ph, !.key = k]}
    BY Zenon, <1>5 DEF getOrCreateEncryptionKey
  <2>3. k \in Nat /\ ph \in Phase BY Zenon, <1>t, <1>p, FreshKeyType
  <2> DEFINE u == [t EXCEPT !.ph = ph, !.key = k]
  <2>4. u \in Tasks /\ u.wrap = t.wrap /\ u.ph = ph
    <3>1. t \in Tasks BY Zenon, <1>t
    <3> QED BY Zenon, <3>1, <2>3 DEF Tasks
  <2>5. tasks' = (tasks \ {t}) \cup {u} BY Zenon, <2>2
  <2> HIDE DEF u
  <2> QED BY Zenon, <2>1, <2>4, <2>5, <1>t, TaskGoesOn
<1>6. ASSUME NEW t \in tasks, putDeviceKey(t) PROVE InboxInv'
  <2>1. deviceKey' = t.key /\ Becomes(t, "put") /\ UNCHANGED <<mount, cipher, gift_wraps, cut>>
    BY Zenon, <1>6 DEF putDeviceKey
  <2> QED BY Zenon, <2>1, <1>b, <1>t, <1>p
<1>7. ASSUME NEW t \in tasks, putMessage(t) PROVE InboxInv'
  <2>1. cipher' = [cipher EXCEPT ![t.wrap] = t.key] /\ Ends(t) /\ UNCHANGED <<mount, gift_wraps, cut, deviceKey>>
    BY Zenon, <1>7 DEF putMessage, encryptLocalPlaintext
  <2>2. t.key # None BY Zenon, <1>t
  <2>3. /\ cipher' \in [Wrap \cup Event -> Nat \cup {None}] /\ cipher'[t.wrap] # None
        /\ \A w \in Wrap \cup Event : cipher[w] # None => cipher'[w] # None
    BY Zenon, <2>1, <2>2, <1>t
  <2> QED BY Zenon, <2>1, <2>3, TaskIsOver DEF Ends
<1>8. ASSUME NEW t \in tasks, taskFails(t) PROVE InboxInv'
  <2>1. Ends(t) /\ UNCHANGED <<mount, cipher, gift_wraps, deviceKey>>
    BY Zenon, <1>8 DEF taskFails, store
  <2>2. cut \subseteq cut' /\ (t.wrap \in cut' \/ t.ph = "check") BY Zenon, <1>8 DEF taskFails
  <2> QED BY Zenon, <2>1, <2>2, <1>t, TaskIsOver DEF Ends
<1>9. CASE remountInbox
  <2>1. mount' = mount + 1 /\ UNCHANGED <<tasks, cipher, gift_wraps, cut, deviceKey>>
    BY Zenon, <1>9 DEF remountInbox, store
  <2>2. mount' \in Nat BY SMT, <2>1, <1>t
  <2>3. SeenIsKept' BY Zenon, <2>1 DEF InboxInv, SeenIsKept
  <2> QED BY Zenon, <2>1, <2>2, <2>3 DEF InboxInv, InboxTypes
<1> QED BY Zenon, <1>1, <1>2, <1>3, <1>4, <1>5, <1>6, <1>7, <1>8, <1>9 DEF InboxStep, TaskStep

\* A message of a wrap marked seen is stored or on its way (processGiftWrap and
\* the callback of useInboxSync).
THEOREM SeenWrapsAreKept == ASSUME Parameters PROVE Spec => []SeenIsKept
<1>n. None \notin Nat /\ NoDeviceKey \in Nat
  <2>1. NoDeviceKey \in Nat BY Zenon DEF NoDeviceKey
  <2> QED BY Zenon, <2>1 DEF Parameters
<1>1. Init => InboxInv
  <2> SUFFICES ASSUME Init PROVE InboxInv BY Zenon
  <2>1. mount \in Nat BY Zenon DEF Init
  <2>2. IsFiniteSet({}) BY Zenon, FS_EmptySet
  <2> QED BY Zenon, <1>n, <2>1, <2>2 DEF Init, InboxInv, InboxTypes, SeenIsKept
<1>2. InboxInv /\ [Next]_vars => InboxInv'
  <2> SUFFICES ASSUME InboxInv, [Next]_vars PROVE InboxInv' BY Zenon
  <2>1. ASSUME UNCHANGED <<inbox, cipher, gift_wraps, deviceKey>> PROVE InboxInv'
    BY Zenon, <2>1 DEF inbox, InboxInv, InboxTypes, SeenIsKept
  <2>2. CASE UNCHANGED vars
    BY Zenon, <2>1, <2>2 DEF vars, inbox, store
  <2>3. CASE InboxStep
    BY Zenon, <1>n, <2>3, InboxKeeps
  <2>4. CASE PageStep
    BY Zenon, <2>1, <2>4 DEF PageStep, openPage, restoreConversations, handleNewDm, handleJoin, handleCreateChannel,
       circleChatParticipants, setConversationId, store
  <2>5. CASE SendStep
    BY Zenon, <2>1, <2>5 DEF SendStep, handleSendDirect, handleSendCircle, createChannelMessage, echo, publish,
       sendFails, store
  <2>6. ASSUME NEW m, put(m) PROVE InboxInv'
    <3>1. UNCHANGED <<inbox, gift_wraps, deviceKey>> BY Zenon, <2>6 DEF put
    <3>2. cipher' \in [Wrap \cup Event -> Nat \cup {None}] /\ \A w \in Wrap : cipher[w] # None => cipher'[w] # None
      <4>1. cipher \in [Wrap \cup Event -> Nat \cup {None}] BY Zenon DEF InboxInv, InboxTypes
      <4>2. cipher' = cipher \/ cipher' = [e \in Wrap \cup Event |-> IF e = m THEN NoDeviceKey ELSE cipher[e]]
        BY Zenon, <2>6, <4>1 DEF put
      <4> QED BY Zenon, <1>n, <4>1, <4>2
    <3>3. SeenIsKept'
      BY Zenon, <3>1, <3>2 DEF inbox, InboxInv, InboxTypes, SeenIsKept
    <3> QED BY Zenon, <3>1, <3>2, <3>3 DEF inbox, InboxInv, InboxTypes
  <2>7. CASE ChannelStep
    BY Zenon, <2>1, <2>6, <2>7 DEF ChannelStep, restoreMessages, fetchRelayInfo, loadChannelState, historyFails,
       historyThenLive, subscribeChannel, onEose, store
  <2>8. ASSUME NEW m, peerPublishes(m) PROVE InboxInv'
    BY Zenon, <2>1, <2>8 DEF peerPublishes, store
  <2>9. CASE reload
    <3>1. /\ tasks' = {} /\ mount' = mount + 1 /\ UNCHANGED <<cipher, gift_wraps, deviceKey>>
          /\ cut' = cut \cup {t.wrap : t \in {u \in tasks : u.ph \in {"key", "newkey", "put"}}}
      BY Zenon, <2>9 DEF reload, store
    <3>2. mount' \in Nat /\ IsFiniteSet(tasks')
      BY <3>1, FS_EmptySet DEF InboxInv, InboxTypes
    <3>3. SeenIsKept' BY Zenon, <3>1 DEF InboxInv, SeenIsKept
    <3> QED BY Zenon, <3>1, <3>2, <3>3 DEF InboxInv, InboxTypes
  <2> QED BY Zenon, <2>2, <2>3, <2>4, <2>5, <2>7, <2>8, <2>9 DEF Next
<1> QED BY <1>1, <1>2, PTL DEF Spec, InboxInv

-----------------------------------------------------------------------------
(* Chat: the channel on screen *)

Syncs == [ph : {"off", "info", "query", "live", "eose", "failed"}, restore : BOOLEAN, state : BOOLEAN,
          seen : SUBSET Event, history : SUBSET Event, had : SUBSET Event]

\* What a run s of the effect has reached: while it is subscribed all it has
\* seen is shown, and at the end of stored events none it was owed is missing.
Reached(s, p, ms) ==
  /\ s.ph # "off" \/ s.restore \/ s.state => p \in Channel
  /\ s.ph \in {"live", "eose"} =>
       s.history \subseteq s.seen /\ s.seen \subseteq ms[p] /\ \A e \in s.had : channelOf[e] = p
  /\ s.ph = "eose" =>
       \A e \in s.had : created_at[e] >= Since(s.history) /\ validateChannelMessage(e, p) => e \in s.seen
ChannelInv == sync \in Syncs /\ DOMAIN messages = Conversation /\ Reached(sync, page, messages)

\* Messages are only added while the page stays.
LEMMA MessagesGrow ==
  ASSUME ChannelInv, UNCHANGED <<sync, page>>, DOMAIN messages' = Conversation,
         \A c \in Conversation : messages[c] \subseteq messages'[c]
  PROVE  ChannelInv'
<1>1. Channel \subseteq Conversation BY Zenon DEF Conversation
<1> QED BY Zenon, <1>1 DEF ChannelInv, Reached

\* A message added to one conversation.
LEMMA Inserted ==
  ASSUME DOMAIN messages = Conversation, NEW c, NEW ms, messages' = [messages EXCEPT ![c] = @ \cup ms]
  PROVE  /\ DOMAIN messages' = Conversation
         /\ \A d \in Conversation : messages[d] \subseteq messages'[d]
         /\ c \in Conversation => ms \subseteq messages'[c]
BY Zenon

\* A run before its subscription, or after it has failed.
LEMMA NotSubscribed ==
  ASSUME sync' \in Syncs, DOMAIN messages' = Conversation, sync'.ph \notin {"live", "eose"},
         sync'.ph # "off" \/ sync'.restore \/ sync'.state => page' \in Channel
  PROVE  ChannelInv'
<1>1. sync'.ph # "eose" BY Zenon
<1> QED BY Zenon, <1>1 DEF ChannelInv, Reached

\* A page's effects start its run anew.
LEMMA Navigated ==
  ASSUME DOMAIN messages = Conversation, UNCHANGED messages, NEW p, Navigate(p)
  PROVE  ChannelInv'
<1>1. page' = p /\ sync' = IF HasChannel(p) THEN [NoSync EXCEPT !.ph = "info", !.restore = TRUE] ELSE NoSync
  BY Zenon DEF Navigate, useChannelSync
<1>2. NoSync \in Syncs /\ NoSync.ph = "off" /\ ~NoSync.restore /\ ~NoSync.state BY Zenon DEF NoSync, Syncs
<1>3. LET s == [NoSync EXCEPT !.ph = "info", !.restore = TRUE] IN s \in Syncs /\ s.ph = "info"
  BY Zenon, <1>2 DEF Syncs
<1>4. HasChannel(p) => p \in Channel BY Zenon DEF HasChannel
<1>5. sync' \in Syncs /\ sync'.ph \notin {"live", "eose"} BY Zenon, <1>1, <1>2, <1>3
<1>6. sync'.ph # "off" \/ sync'.restore \/ sync'.state => page' \in Channel BY Zenon, <1>1, <1>2, <1>4
<1> QED BY Zenon, <1>5, <1>6, NotSubscribed

\* The steps of the effect itself.
LEMMA ChannelKeeps == ASSUME ChannelInv, ChannelStep PROVE ChannelInv'
<1>t. /\ sync \in Syncs /\ DOMAIN messages = Conversation /\ Reached(sync, page, messages)
      /\ Channel \subseteq Conversation
  BY Zenon DEF ChannelInv, Conversation
<1>1. CASE restoreMessages
  <2>1. /\ sync' = [sync EXCEPT !.restore = FALSE] /\ page' = page /\ sync.restore
        /\ messages' = [messages EXCEPT ![page] = @ \cup listChannelMessages(page)]
    BY Zenon, <1>1 DEF restoreMessages, channelHistoryLoaded, view
  <2>2. /\ sync' \in Syncs /\ sync'.ph = sync.ph /\ sync'.seen = sync.seen /\ sync'.history = sync.history
        /\ sync'.had = sync.had /\ sync'.state = sync.state
    BY Zenon, <2>1, <1>t DEF Syncs
  <2>3. DOMAIN messages' = Conversation /\ \A d \in Conversation : messages[d] \subseteq messages'[d]
    BY Zenon, <2>1, <1>t, Inserted
  <2>4. page \in Channel BY Zenon, <2>1, <1>t DEF Reached
  <2> QED BY Zenon, <1>t, <2>1, <2>2, <2>3, <2>4 DEF ChannelInv, Reached
<1>2. CASE fetchRelayInfo
  <2>1. sync.ph = "info" /\ sync' = [sync EXCEPT !.ph = "query", !.state = TRUE] /\ UNCHANGED <<page, messages>>
    BY Zenon, <1>2 DEF fetchRelayInfo, view, slices
  <2>2. sync' \in Syncs /\ sync'.ph = "query" BY Zenon, <2>1, <1>t DEF Syncs
  <2>3. page \in Channel BY Zenon, <2>1, <1>t DEF Reached
  <2> QED BY Zenon, <2>1, <2>2, <2>3, <1>t, NotSubscribed
<1>3. CASE loadChannelState
  <2>1. sync.state /\ sync' = [sync EXCEPT !.state = FALSE] /\ UNCHANGED <<page, messages>>
    BY Zenon, <1>3 DEF loadChannelState, view
  <2>2. /\ sync' \in Syncs /\ sync'.ph = sync.ph /\ sync'.seen = sync.seen /\ sync'.history = sync.history
        /\ sync'.had = sync.had
    BY Zenon, <2>1, <1>t DEF Syncs
  <2>3. page \in Channel BY Zenon, <2>1, <1>t DEF Reached
  <2> QED BY Zenon, <1>t, <2>1, <2>2, <2>3 DEF ChannelInv, Reached
<1>4. CASE historyFails
  <2>1. sync.ph = "query" /\ sync' = [sync EXCEPT !.ph = "failed"] /\ UNCHANGED <<page, messages>>
    BY Zenon, <1>4 DEF historyFails, view, slices
  <2>2. sync' \in Syncs /\ sync'.ph = "failed" BY Zenon, <2>1, <1>t DEF Syncs
  <2>3. page \in Channel BY Zenon, <2>1, <1>t DEF Reached
  <2> QED BY Zenon, <2>1, <2>2, <2>3, <1>t, NotSubscribed
<1>5. ASSUME NEW h \in SUBSET Event, historyThenLive(h) PROVE ChannelInv'
  <2>1. /\ sync.ph = "query" /\ page' = page /\ messages' = [messages EXCEPT ![page] = @ \cup h]
        /\ sync' = [sync EXCEPT !.ph = "live", !.seen = h, !.history = h, !.had = OnRelay(page)]
    BY Zenon, <1>5 DEF historyThenLive, fetchChannelHistory, channelHistoryLoaded, view
  <2>2. OnRelay(page) \in SUBSET Event /\ \A e \in OnRelay(page) : channelOf[e] = page
    BY Zenon DEF OnRelay
  <2>3. sync' \in Syncs /\ sync'.ph = "live" /\ sync'.seen = h /\ sync'.history = h /\ sync'.had = OnRelay(page)
    BY Zenon, <2>1, <2>2, <1>t DEF Syncs
  <2>4. page \in Channel BY Zenon, <2>1, <1>t DEF Reached
  <2>5. DOMAIN messages' = Conversation /\ h \subseteq messages'[page]
    BY Zenon, <2>1, <2>4, <1>t, Inserted
  <2> QED BY Zenon, <2>1, <2>2, <2>3, <2>4, <2>5 DEF ChannelInv, Reached
<1>6. ASSUME NEW e \in Event, subscribeChannel(e) PROVE ChannelInv'
  <2>1. /\ sync.ph \in {"live", "eose"} /\ page' = page /\ messages' = [messages EXCEPT ![page] = @ \cup {e}]
        /\ sync' = [sync EXCEPT !.seen = @ \cup {e}]
    BY Zenon, <1>6 DEF subscribeChannel, channelMessageReceived, insertSorted, view
  <2>2. /\ sync' \in Syncs /\ sync'.ph = sync.ph /\ sync'.seen = sync.seen \cup {e}
        /\ sync'.history = sync.history /\ sync'.had = sync.had
    BY Zenon, <2>1, <1>t DEF Syncs
  <2>3. page \in Channel BY Zenon, <2>1, <1>t DEF Reached
  <2>4. /\ DOMAIN messages' = Conversation /\ {e} \subseteq messages'[page]
        /\ messages[page] \subseteq messages'[page]
    BY Zenon, <2>1, <2>3, <1>t, Inserted
  <2> QED BY Zenon, <1>t, <2>1, <2>2, <2>3, <2>4 DEF ChannelInv, Reached
<1>7. CASE onEose
  <2>1. /\ sync.ph = "live" /\ UNCHANGED <<page, messages>> /\ sync' = [sync EXCEPT !.ph = "eose"]
        /\ Owed(sync.had) = {}
    BY Zenon, <1>7 DEF onEose, view
  <2>2. /\ sync' \in Syncs /\ sync'.ph = "eose" /\ sync'.seen = sync.seen
        /\ sync'.history = sync.history /\ sync'.had = sync.had
    BY Zenon, <2>1, <1>t DEF Syncs
  <2>3. page \in Channel BY Zenon, <2>1, <1>t DEF Reached
  <2>4. \A e \in sync.had : created_at[e] >= Since(sync.history) /\ validateChannelMessage(e, page) => e \in sync.seen
    BY Zenon, <2>1 DEF Owed
  <2> QED BY Zenon, <1>t, <2>1, <2>2, <2>3, <2>4 DEF ChannelInv, Reached
<1>8. ASSUME NEW m, put(m) PROVE ChannelInv'
  BY Zenon, <1>8 DEF put, view, slices, ChannelInv
<1> QED BY Zenon, <1>1, <1>2, <1>3, <1>4, <1>5, <1>6, <1>7, <1>8 DEF ChannelStep

\* The bound of the subscription's filter lies the overlap before the newest
\* event of the history.
LEMMA SinceFact ==
  ASSUME Parameters, NEW h, h \subseteq Event, h # {}
  PROVE  LET newest == Max({created_at[e] : e \in h})
         IN  \A e \in Event : created_at[e] + Overlap >= newest => created_at[e] >= Since(h)
<1> DEFINE S == {created_at[e] : e \in h}
           f == [e \in h |-> created_at[e]]
<1>0. created_at \in [Event -> Nat] /\ Overlap \in Nat BY Zenon DEF Parameters
<1>1. S \subseteq Nat /\ S # {} /\ created_at \in [Event -> Nat] /\ Overlap \in Nat BY Zenon, <1>0
<1>2. IsFiniteSet(h) BY Zenon, FS_Subset DEF Parameters
<1>3. f \in [h -> Nat] /\ S = {f[e] : e \in h} BY Zenon, <1>1
<1>4. Since(h) = resumeSince(Max(S)) BY Zenon DEF Since
<1> HIDE DEF S, f
<1>5. IsFiniteSet(S) BY <1>2, <1>3, FiniteImage
<1>6. Max(S) \in Nat BY Zenon, <1>1, <1>5, Greatest
<1>7. \A e \in Event : created_at[e] + Overlap >= Max(S) => created_at[e] >= Since(h)
  BY SMT, <1>1, <1>4, <1>6 DEF resumeSince
<1> QED BY Zenon, <1>7 DEF S

\* At the end of stored events the channel page shows what it was owed, also
\* what was posted between the query and the subscription (useChannelSync).
THEOREM ChannelsCatchUp == ASSUME Parameters PROVE Spec => []ChannelCaughtUp
<1>1. Init => ChannelInv
  <2> SUFFICES ASSUME Init PROVE ChannelInv BY Zenon
  <2>1. sync \in Syncs /\ sync.ph = "off" /\ ~sync.restore /\ ~sync.state BY Zenon DEF Init, NoSync, Syncs
  <2>2. sync.ph \notin {"live", "eose"} /\ sync.ph # "eose" BY Zenon, <2>1
  <2>3. DOMAIN messages = Conversation BY Zenon DEF Init
  <2> QED BY Zenon, <2>1, <2>2, <2>3 DEF ChannelInv, Reached
<1>2. ChannelInv /\ [Next]_vars => ChannelInv'
  <2> SUFFICES ASSUME ChannelInv, [Next]_vars PROVE ChannelInv' BY Zenon
  <2>d. DOMAIN messages = Conversation BY Zenon DEF ChannelInv
  <2>0. ASSUME UNCHANGED <<sync, page, messages>> PROVE ChannelInv'
    BY Zenon, <2>0 DEF ChannelInv
  <2>1. ASSUME UNCHANGED <<sync, page>>, NEW c, NEW ms, messages' = [messages EXCEPT ![c] = @ \cup ms]
        PROVE  ChannelInv'
    <3>1. DOMAIN messages' = Conversation /\ \A d \in Conversation : messages[d] \subseteq messages'[d]
      BY Zenon, <2>1, <2>d, Inserted
    <3> QED BY Zenon, <2>1, <3>1, MessagesGrow
  <2>2. CASE UNCHANGED vars
    BY Zenon, <2>0, <2>2 DEF vars, channel, view, slices
  <2>3. CASE InboxStep
    <3>1. ASSUME NEW t, putMessage(t) PROVE ChannelInv'
      BY Zenon, <2>1, <3>1 DEF putMessage, messageReceived, insertSorted, channel, view
    <3> QED BY Zenon, <2>0, <2>3, <3>1 DEF InboxStep, TaskStep, subscribe, isSeen, unwrapAnswered, markGiftWrapSeen,
         getOrCreateEncryptionKey, putDeviceKey, taskFails, remountInbox, channel, view, slices
  <2>4. CASE PageStep
    <3>1. ASSUME NEW p, openPage(p) \/ handleNewDm(p) \/ handleJoin(p) PROVE ChannelInv'
      <4>1. Navigate(p) /\ UNCHANGED messages BY Zenon, <3>1 DEF openPage, handleNewDm, handleJoin
      <4> QED BY Zenon, <4>1, <2>d, Navigated
    <3> QED BY Zenon, <2>0, <2>4, <3>1 DEF PageStep, restoreConversations, handleCreateChannel,
         circleChatParticipants, setConversationId, channel, view, slices
  <2>5. CASE SendStep
    <3>1. ASSUME NEW s, echo(s) PROVE ChannelInv'
      <4>1. UNCHANGED <<sync, page>> BY Zenon, <3>1 DEF echo, view
      <4>2. messages' = [messages EXCEPT ![s.conv] = @ \cup {s.id}]
        BY Zenon, <3>1 DEF echo, messageReceived, channelMessageReceived, insertSorted
      <4> QED BY Zenon, <4>1, <4>2, <2>1
    <3> QED BY Zenon, <2>0, <2>5, <3>1 DEF SendStep, handleSendDirect, handleSendCircle, createChannelMessage,
         publish, sendFails, channel, view, slices
  <2>6. CASE ChannelStep
    BY Zenon, <2>6, ChannelKeeps
  <2>7. ASSUME NEW m, peerPublishes(m) PROVE ChannelInv'
    BY Zenon, <2>0, <2>7 DEF peerPublishes, channel, view, slices
  <2>8. CASE reload
    <3>1. sync' = NoSync /\ DOMAIN messages' = Conversation BY Zenon, <2>8 DEF reload
    <3>2. sync' \in Syncs /\ sync'.ph = "off" /\ ~sync'.restore /\ ~sync'.state BY Zenon, <3>1 DEF NoSync, Syncs
    <3> QED BY Zenon, <3>1, <3>2, NotSubscribed
  <2> QED BY Zenon, <2>2, <2>3, <2>4, <2>5, <2>6, <2>7, <2>8 DEF Next
<1>3. ChannelInv => ChannelCaughtUp
  <2> SUFFICES ASSUME ChannelInv, sync.ph = "eose", sync.history # {} PROVE ChannelCaughtUp
    BY Zenon DEF ChannelCaughtUp
  <2> DEFINE newest == Max({created_at[e] : e \in sync.history})
  <2>1. /\ sync.history \subseteq Event /\ sync.had \subseteq Event
        /\ sync.history \subseteq sync.seen /\ sync.seen \subseteq messages[page]
        /\ \A e \in sync.had : channelOf[e] = page
        /\ \A e \in sync.had : created_at[e] >= Since(sync.history) /\ validateChannelMessage(e, page) => e \in sync.seen
    BY Zenon DEF ChannelInv, Reached, Syncs
  <2>2. \A e \in Event : created_at[e] + Overlap >= newest => created_at[e] >= Since(sync.history)
    BY Zenon, <2>1, SinceFact
  <2> HIDE DEF newest
  <2>3. ASSUME NEW e \in sync.had \ Poison, created_at[e] + Overlap >= newest PROVE e \in messages[page]
    BY Zenon, <2>1, <2>2, <2>3 DEF validateChannelMessage, wellFormed
  <2> QED BY Zenon, <2>1, <2>3 DEF ChannelCaughtUp, newest
<1> QED BY <1>1, <1>2, <1>3, PTL DEF Spec

-----------------------------------------------------------------------------
(* GiftWrap *)

LowerKeys == {ownKey(u) : u \in User}

\* What an inbox shows of a message it opened.
Shown(m, w) ==
  [conversationId |-> roomConversationId(m.participants), participants |-> m.participants,
   senderPubkey |-> m.rumor.pubkey, content |-> m.rumor.content, wrap |-> w]

\* A message was wrapped for all who are in the room of its rumor.
RumorOf(m, rumor) ==
  /\ rumor.pubkey = m.author /\ rumor.content = m.content /\ isLowercaseHex64(m.author)
  /\ validMessageContent(m.content)
  /\ m.participants \subseteq LowerKeys /\ participantSet(rumor) = m.participants
  /\ m.conversationId = m.participants
  /\ m.wraps = wrapRumor(m.author, rumor, m.participants)
WellSent(m) == \E rumor : RumorOf(m, rumor)
WrapFor(m, rumor, k) == createWrap(createSeal(m.author, rumor, k), k)

WrapInv ==
  /\ \E S : sent \in Seq(S) /\ \A m \in S : WellSent(m)
  /\ DOMAIN opened = User /\ DOMAIN inboxShown = User
  /\ \A u \in User : \A w \in opened[u] : \E m \in unwrapMessage(u, w) : Shown(m, w) \in inboxShown[u]

\* Spellings of keys.
LEMMA KeyFact ==
  /\ \A k \in Spelling : toLowerCase(k) \in LowerKeys
  /\ \A k \in LowerKeys : /\ k \in Spelling /\ k = ownKey(k[1]) /\ k[1] \in User
                          /\ isLowercaseHex64(k) /\ toLowerCase(k) = k
BY SMT DEF Spelling, LowerKeys, toLowerCase, ownKey, isLowercaseHex64
LEMMA NormalFact ==
  /\ \A ks : ks \subseteq Spelling => normalizeParticipants(ks) \subseteq LowerKeys
  /\ \A ks : ks \subseteq LowerKeys => normalizeParticipants(ks) = ks
<1>1. ASSUME NEW ks, ks \subseteq Spelling PROVE normalizeParticipants(ks) \subseteq LowerKeys
  BY Zenon, <1>1, KeyFact DEF normalizeParticipants
<1>2. ASSUME NEW ks, ks \subseteq LowerKeys PROVE normalizeParticipants(ks) = ks
  <2>1. ASSUME NEW k \in normalizeParticipants(ks) PROVE k \in ks
    BY Zenon, <1>2, <2>1, KeyFact DEF normalizeParticipants
  <2>2. ASSUME NEW k \in ks PROVE k \in normalizeParticipants(ks)
    BY Zenon, <1>2, <2>2, KeyFact DEF normalizeParticipants
  <2> QED BY Zenon, <2>1, <2>2
<1> QED BY Zenon, <1>1, <1>2

\* The keys of a room in order: each of them once.
LEMMA SortedFact ==
  ASSUME NEW ks, ks \subseteq LowerKeys
  PROVE  /\ IsFiniteSet(ks) /\ Cardinality(ks) \in Nat
         /\ sorted(ks) \in [1..Cardinality(ks) -> ks] /\ IsInjective(sorted(ks)) /\ Range(sorted(ks)) = ks
<1>1. IsFiniteSet(LowerKeys)
  <2> DEFINE g == [u \in User |-> ownKey(u)]
  <2>1. g \in Surjection(User, LowerKeys) BY Zenon DEF Surjection, LowerKeys
  <2> HIDE DEF g
  <2> QED BY Zenon, <2>1, WrapAssumption, FS_Surjection
<1>2. IsFiniteSet(ks) /\ Cardinality(ks) \in Nat BY Zenon, <1>1, FS_Subset, FS_CardinalityType
<1>3. PICK f : f \in Bijection(1..Cardinality(ks), ks)
  BY Zenon, <1>2, FS_CardinalityType DEF ExistsBijection
<1>4. f \in [1..Cardinality(ks) -> ks] /\ IsInjective(f)
  BY Zenon, <1>3 DEF Bijection, Injection
<1> DEFINE s == sorted(ks)
<1>5. s \in [1..Cardinality(ks) -> ks] /\ IsInjective(s) BY Zenon, <1>4 DEF sorted
<1> HIDE DEF s
<1>6. Range(s) = ks
  <2>1. s \in Injection(1..Cardinality(ks), ks) BY Zenon, <1>5 DEF Injection
  <2>2. Range(s) \subseteq ks BY Zenon, <1>5 DEF Range
  <2>3. Cardinality(1..Cardinality(ks)) = Cardinality(ks) /\ IsFiniteSet(1..Cardinality(ks))
    BY SMT, <1>2, FS_Interval
  <2>4. s \in Surjection(1..Cardinality(ks), ks) BY Zenon, <2>1, <2>3, <1>2, FS_Injection
  <2> QED BY Zenon, <2>2, <2>4, <1>5 DEF Surjection, Range
<1> QED BY Zenon, <1>2, <1>5, <1>6 DEF s

\* Both ways of sending make a message that is well sent.
LEMMA SendIsWell ==
  ASSUME NEW u \in User, NEW rs, rs \subseteq Spelling, NEW t, validMessageContent(t), NEW ks, NEW rumor,
         ks = normalizeParticipants({ownKey(u)} \cup rs),
         rumor.pubkey = ownKey(u), rumor.content = t, participantSet(rumor) = ks,
         NEW m, m = [wraps |-> wrapRumor(ownKey(u), rumor, ks), conversationId |-> ks, participants |-> ks,
                     author |-> ownKey(u), content |-> t]
  PROVE  WellSent(m)
<1>1. ownKey(u) \in LowerKeys BY Zenon DEF LowerKeys
<1>2. isLowercaseHex64(ownKey(u)) /\ ownKey(u) \in Spelling BY Zenon, <1>1, KeyFact
<1>3. {ownKey(u)} \cup rs \subseteq Spelling BY Zenon, <1>2
<1>4. ks \subseteq LowerKeys BY Zenon, <1>3, NormalFact
<1>5. /\ m.wraps = wrapRumor(ownKey(u), rumor, ks) /\ m.conversationId = ks /\ m.participants = ks
      /\ m.author = ownKey(u) /\ m.content = t
  BY Zenon 
<1> QED BY Zenon, <1>2, <1>4, <1>5 DEF WellSent, RumorOf

LEMMA DirectIsWell ==
  ASSUME NEW u \in User, NEW r \in Spelling, NEW t, sendDirectMessage(u, r, t)
  PROVE  \E m : sent' = Append(sent, m) /\ WellSent(m)
<1> DEFINE me == ownKey(u)
           n == Len(sent)
           rumor == createRumor(me, 14, <<toLowerCase(r)>>, t, n)
           ks == normalizeParticipants({me} \cup {r})
<1>1. /\ isLowercaseHex64(r) /\ r # me /\ validMessageContent(t)
      /\ sent' = Append(sent, [wraps |-> createDirectMessage(me, r, t, n), conversationId |-> directConversationId(me, r),
                               participants |-> normalizeParticipants({me, r}), author |-> me, content |-> t])
  BY Zenon DEF sendDirectMessage, Sends
<1>2. r \in LowerKeys /\ toLowerCase(r) = r
  <2>1. toLowerCase(r) = r BY SMT, <1>1 DEF Spelling, toLowerCase, isLowercaseHex64
  <2> QED BY Zenon, <2>1, KeyFact
<1>3. me \in LowerKeys BY Zenon DEF LowerKeys
<1>4. {me, r} = {me} \cup {r} /\ {me, toLowerCase(r)} = {me} \cup {r} BY Zenon, <1>2
<1>5. ks = {me} \cup {r}
  <2>1. {me} \cup {r} \subseteq LowerKeys BY Zenon, <1>2, <1>3
  <2> QED BY Zenon, <2>1, NormalFact
<1>6. rumor.pubkey = me /\ rumor.content = t /\ rumor.kind = 14 /\ rumor.tags = <<r>>
  BY Zenon, <1>2 DEF createRumor
<1>7. participantSet(rumor) = ks
  <2>1. Len(<<r>>) \in 1..MaxParticipants BY SMT, WrapAssumption
  <2>2. DOMAIN <<r>> = {1} /\ <<r>>[1] = r BY SMT
  <2>3. IsInjective(<<r>>) /\ Range(<<r>>) = {r} BY Zenon, <2>2 DEF IsInjective, Range
  <2> HIDE DEF me, rumor, ks
  <2>4. \A k \in Range(rumor.tags) : isLowercaseHex64(k) BY Zenon, <2>3, <1>1, <1>6
  <2>5. participantSet(rumor) = normalizeParticipants({rumor.pubkey} \cup Range(rumor.tags))
    BY Zenon, <2>1, <2>3, <2>4, <1>6 DEF participantSet
  <2> QED BY Zenon, <2>3, <2>5, <1>6 DEF ks
<1>8. createDirectMessage(me, r, t, n) = wrapRumor(me, rumor, ks)
  BY Zenon, <1>4, <1>5 DEF createDirectMessage
<1>9. directConversationId(me, r) = ks /\ normalizeParticipants({me, r}) = ks
  BY Zenon, <1>4 DEF directConversationId, conversationIdFor
<1> DEFINE m == [wraps |-> wrapRumor(me, rumor, ks), conversationId |-> ks, participants |-> ks,
                 author |-> me, content |-> t]
<1>10. sent' = Append(sent, m) BY Zenon, <1>1, <1>8, <1>9
<1>11. WellSent(m)
  <2> HIDE DEF rumor
  <2>1. {r} \subseteq Spelling BY Zenon 
  <2>2. ks = normalizeParticipants({ownKey(u)} \cup {r}) BY Zenon
  <2>3. m = [wraps |-> wrapRumor(ownKey(u), rumor, ks), conversationId |-> ks, participants |-> ks,
             author |-> ownKey(u), content |-> t]
    BY Zenon
  <2>4. rumor.pubkey = ownKey(u) BY Zenon, <1>6
  <2> HIDE DEF ks, m, me
  <2> QED BY Zenon, <2>1, <2>2, <2>3, <2>4, <1>1, <1>6, <1>7, SendIsWell
<1> HIDE DEF m
<1> QED BY Zenon, <1>10, <1>11

LEMMA GroupIsWell ==
  ASSUME NEW u \in User, NEW rs, rs \subseteq Spelling, NEW t, sendGroupMessage(u, rs, t)
  PROVE  \E m : sent' = Append(sent, m) /\ WellSent(m)
<1> DEFINE me == ownKey(u)
           n == Len(sent)
           ks == normalizeParticipants({me} \cup rs)
           rumor == createRumor(me, 14, sorted(ks), t, n)
<1>1. /\ Cardinality(ks) <= MaxParticipants /\ Cardinality(ks) >= 2 /\ validMessageContent(t)
      /\ sent' = Append(sent, [wraps |-> createGroupMessage(me, rs, t, n), conversationId |-> roomConversationId(ks),
                               participants |-> ks, author |-> me, content |-> t])
  BY Zenon DEF sendGroupMessage, Sends
<1>2. me \in LowerKeys BY Zenon DEF LowerKeys
<1>3. {me} \cup rs \subseteq Spelling BY Zenon, <1>2, KeyFact
<1>4. ks \subseteq LowerKeys BY Zenon, <1>3, NormalFact
<1>5. me \in ks BY Zenon, <1>2, KeyFact DEF normalizeParticipants
<1>6. rumor.pubkey = me /\ rumor.content = t /\ rumor.kind = 14 /\ rumor.tags = sorted(ks)
  BY Zenon DEF createRumor
<1>7. participantSet(rumor) = ks
  <2> HIDE DEF me, rumor, ks
  <2>1. /\ Cardinality(ks) \in Nat /\ sorted(ks) \in [1..Cardinality(ks) -> ks] /\ IsInjective(sorted(ks))
        /\ Range(sorted(ks)) = ks
    BY Zenon, <1>4, SortedFact
  <2>2. Len(sorted(ks)) \in 1..MaxParticipants
    <3>1. Len(sorted(ks)) = Cardinality(ks) BY SMT, <2>1
    <3> QED BY SMT, <3>1, <2>1, <1>1, WrapAssumption
  <2>3. \A k \in Range(rumor.tags) : isLowercaseHex64(k) BY Zenon, <2>1, <1>4, <1>6, KeyFact
  <2>4. participantSet(rumor) = normalizeParticipants({rumor.pubkey} \cup Range(rumor.tags))
    BY Zenon, <2>1, <2>2, <2>3, <1>6 DEF participantSet
  <2>5. {me} \cup ks = ks BY Zenon, <1>5
  <2>6. normalizeParticipants(ks) = ks BY Zenon, <1>4, NormalFact
  <2> QED BY Zenon, <2>1, <2>4, <2>5, <2>6, <1>6
<1>8. createGroupMessage(me, rs, t, n) = wrapRumor(me, rumor, ks) BY Zenon DEF createGroupMessage
<1>9. roomConversationId(ks) = ks
  <2> HIDE DEF ks
  <2> QED BY Zenon, <1>4, NormalFact DEF roomConversationId, conversationIdFor
<1> DEFINE m == [wraps |-> wrapRumor(me, rumor, ks), conversationId |-> ks, participants |-> ks,
                 author |-> me, content |-> t]
<1>10. sent' = Append(sent, m) BY Zenon, <1>1, <1>8, <1>9
<1>11. WellSent(m)
  <2> HIDE DEF rumor
  <2>1. ks = normalizeParticipants({ownKey(u)} \cup rs) BY Zenon
  <2>2. m = [wraps |-> wrapRumor(ownKey(u), rumor, ks), conversationId |-> ks, participants |-> ks,
             author |-> ownKey(u), content |-> t]
    BY Zenon
  <2>3. rumor.pubkey = ownKey(u) BY Zenon, <1>6
  <2> HIDE DEF ks, m, me
  <2> QED BY Zenon, <2>1, <2>2, <2>3, <1>1, <1>6, <1>7, SendIsWell
<1> HIDE DEF m
<1> QED BY Zenon, <1>10, <1>11

\* A wrap of a well sent message opens, for the one it is for, to that message.
LEMMA WellOpens ==
  ASSUME NEW m, NEW rumor, RumorOf(m, rumor), NEW k \in m.participants
  PROVE  /\ WrapFor(m, rumor, k).for = k
         /\ unwrapMessage(k[1], WrapFor(m, rumor, k)) = {[rumor |-> rumor, participants |-> m.participants]}
<1> DEFINE w == WrapFor(m, rumor, k)
<1> USE DEF RumorOf
<1>1. k = ownKey(k[1]) BY Zenon, KeyFact
<1>2. w.p = <<k>> /\ w.for = k /\ w.seal.for = k /\ w.seal.rumor = rumor /\ w.seal.pubkey = m.author
  BY Zenon DEF createWrap, createSeal, WrapFor
<1>3. singleTag(w) = k
  <2>1. Len(<<k>>) = 1 /\ <<k>>[1] = k BY Zenon 
  <2> QED BY Zenon, <1>2, <2>1 DEF singleTag
<1> HIDE DEF w
<1>4. unwrapGiftWrap(k[1], w) = {rumor}
  BY Zenon, <1>1, <1>2, <1>3 DEF unwrapGiftWrap
<1>5. ownKey(k[1]) \in participantSet(rumor) BY Zenon, <1>1
<1>6. {x \in unwrapGiftWrap(k[1], w) : validMessageContent(x.content) /\ ownKey(k[1]) \in participantSet(x)} = {rumor}
  BY Zenon, <1>4, <1>5
<1>7. unwrapMessage(k[1], w) = {[rumor |-> r, participants |-> participantSet(r)] : r \in {rumor}}
  BY Zenon, <1>6 DEF unwrapMessage
<1>8. {[rumor |-> r, participants |-> participantSet(r)] : r \in {rumor}} = {[rumor |-> rumor, participants |-> m.participants]}
  BY Zenon 
<1> QED BY Zenon, <1>2, <1>7, <1>8 DEF w

\* Sender and recipients put a message in the same room, and every wrap opens
\* (createGroupMessage, unwrapMessage, processGiftWrap and conversationIdFor).
THEOREM EveryoneSeesOneRoom == WrapSpec => []RoomsAgree
<1>1. WrapInit => WrapInv
  <2> SUFFICES ASSUME WrapInit PROVE WrapInv BY Zenon
  <2>1. sent \in Seq({}) BY SMT DEF WrapInit
  <2>2. sent \in Seq({}) /\ \A m \in {} : WellSent(m) BY Zenon, <2>1
  <2>3. \E S : sent \in Seq(S) /\ \A m \in S : WellSent(m) BY <2>2
  <2> QED BY Zenon, <2>3 DEF WrapInit, WrapInv
<1>2. WrapInv /\ [WrapNext]_wrapVars => WrapInv'
  <2> SUFFICES ASSUME WrapInv, [WrapNext]_wrapVars PROVE WrapInv' BY Zenon
  <2>1. PICK S : sent \in Seq(S) /\ \A m \in S : WellSent(m) BY Zenon DEF WrapInv
  <2>2. ASSUME NEW m, sent' = Append(sent, m), WellSent(m), UNCHANGED <<opened, inboxShown>> PROVE WrapInv'
    <3>1. sent' \in Seq(S \cup {m}) BY SMT, <2>1, <2>2
    <3>2. \A x \in S \cup {m} : WellSent(x) BY Zenon, <2>1, <2>2
    <3>3. \E T : sent' \in Seq(T) /\ \A x \in T : WellSent(x) BY Zenon, <3>1, <3>2
    <3> QED BY Zenon, <3>3, <2>2 DEF WrapInv
  <2>3. ASSUME NEW u \in User, NEW r \in Spelling, NEW t, sendDirectMessage(u, r, t) PROVE WrapInv'
    <3>1. UNCHANGED <<opened, inboxShown>> BY Zenon, <2>3 DEF sendDirectMessage, Sends
    <3> QED BY Zenon, <3>1, <2>2, <2>3, DirectIsWell
  <2>4. ASSUME NEW u \in User, NEW rs \in SUBSET Spelling, NEW t, sendGroupMessage(u, rs, t) PROVE WrapInv'
    <3>1. UNCHANGED <<opened, inboxShown>> BY Zenon, <2>4 DEF sendGroupMessage, Sends
    <3>2. rs \subseteq Spelling BY Zenon 
    <3> QED BY Zenon, <3>1, <3>2, <2>2, <2>4, GroupIsWell
  <2>5. ASSUME NEW w, otherClient(w) PROVE WrapInv'
    BY Zenon, <2>5 DEF otherClient, WrapInv
  <2>6. ASSUME NEW u \in User, NEW w \in inboxRelay, processGiftWrap(u, w) PROVE WrapInv'
    <3>1. PICK m \in unwrapMessage(u, w) : /\ opened' = [opened EXCEPT ![u] = @ \cup {w}]
                                            /\ inboxShown' = [inboxShown EXCEPT ![u] = @ \cup {Shown(m, w)}]
      BY Zenon, <2>6 DEF processGiftWrap, Shown
    <3>2. DOMAIN opened' = User /\ DOMAIN inboxShown' = User BY Zenon, <3>1 DEF WrapInv
    <3>3. ASSUME NEW v \in User, NEW x \in opened'[v] PROVE \E y \in unwrapMessage(v, x) : Shown(y, x) \in inboxShown'[v]
      <4>1. inboxShown[v] \subseteq inboxShown'[v] BY Zenon, <3>1 DEF WrapInv
      <4>2. CASE x \in opened[v] BY Zenon, <4>1, <4>2 DEF WrapInv
      <4>3. CASE x \notin opened[v]
        <5>1. v = u /\ x = w BY Zenon, <3>1, <3>3, <4>3 DEF WrapInv
        <5>2. Shown(m, w) \in inboxShown'[u] BY Zenon, <3>1 DEF WrapInv
        <5> QED BY Zenon, <5>1, <5>2
      <4> QED BY Zenon, <4>2, <4>3
    <3>4. UNCHANGED sent BY Zenon, <2>6 DEF processGiftWrap
    <3> QED BY Zenon, <3>2, <3>3, <3>4 DEF WrapInv
  <2>7. CASE UNCHANGED wrapVars BY Zenon, <2>7 DEF wrapVars, WrapInv
  <2> QED BY Zenon, <2>3, <2>4, <2>5, <2>6, <2>7 DEF WrapNext
<1>3. WrapInv => RoomsAgree
  <2> SUFFICES ASSUME WrapInv, NEW i \in DOMAIN sent
               PROVE  /\ \A k \in sent[i].participants :
                           /\ Delivered(sent[i], k)
                           /\ \E w \in sent[i].wraps : w.for = k /\ unwrapMessage(k[1], w) # {}
                      /\ \A w \in sent[i].wraps : w.for \in sent[i].participants
    BY Zenon DEF RoomsAgree
  <2> DEFINE m == sent[i]
  <2>1. WellSent(m)
    <3>1. PICK S : sent \in Seq(S) /\ \A x \in S : WellSent(x) BY Zenon DEF WrapInv
    <3>2. m \in S BY SMT, <3>1
    <3> QED BY Zenon, <3>1, <3>2
  <2> HIDE DEF m
  <2>2. PICK rumor : RumorOf(m, rumor) BY Zenon, <2>1 DEF WellSent
  <2> DEFINE W(k) == WrapFor(m, rumor, k)
             v == [rumor |-> rumor, participants |-> m.participants]
  <2>3. m.wraps = {W(k) : k \in m.participants} BY Zenon, <2>2 DEF wrapRumor, RumorOf, WrapFor
  <2>4. ASSUME NEW k \in m.participants PROVE W(k).for = k /\ unwrapMessage(k[1], W(k)) = {v} /\ k[1] \in User
    <3>1. k[1] \in User BY Zenon, <2>2, KeyFact DEF RumorOf
    <3>2. W(k).for = k /\ unwrapMessage(k[1], W(k)) = {v} BY Zenon, <2>2, WellOpens
    <3> QED BY Zenon, <3>1, <3>2
  <2> HIDE DEF W, v
  <2>5. \A w \in m.wraps : w.for \in m.participants BY Zenon, <2>3, <2>4
  <2>6. ASSUME NEW k \in m.participants PROVE \E w \in m.wraps : w.for = k /\ unwrapMessage(k[1], w) # {}
    <3>1. {v} # {} BY Zenon 
    <3> QED BY Zenon, <3>1, <2>3, <2>4
  <2>7. ASSUME NEW k \in m.participants PROVE Delivered(m, k)
    <3> SUFFICES ASSUME NEW w \in m.wraps, w.for = k, w \in opened[k[1]]
                 PROVE  [conversationId |-> m.conversationId, participants |-> m.participants,
                         senderPubkey |-> m.author, content |-> m.content, wrap |-> w] \in inboxShown[k[1]]
      BY Zenon DEF Delivered
    <3>1. w = W(k) BY Zenon, <2>3, <2>4
    <3>2. PICK y \in unwrapMessage(k[1], w) : Shown(y, w) \in inboxShown[k[1]] BY Zenon, <2>4 DEF WrapInv
    <3>7. unwrapMessage(k[1], w) = {v} BY Zenon, <3>1, <2>4
    <3>3. y = v BY Zenon, <3>2, <3>7
    <3>4. y.rumor = rumor /\ y.participants = m.participants BY Zenon, <3>3 DEF v
    <3>5. roomConversationId(m.participants) = m.conversationId
      BY Zenon, <2>2, NormalFact DEF roomConversationId, conversationIdFor, RumorOf
    <3>6. Shown(y, w) = [conversationId |-> m.conversationId, participants |-> m.participants,
                         senderPubkey |-> m.author, content |-> m.content, wrap |-> w]
      BY Zenon, <3>4, <3>5, <2>2 DEF Shown, RumorOf
    <3> QED BY Zenon, <3>2, <3>6
  <2> QED BY Zenon, <2>5, <2>6, <2>7 DEF m
<1> QED BY <1>1, <1>2, <1>3, PTL DEF WrapSpec
=============================================================================
