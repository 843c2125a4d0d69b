-------------------------------- MODULE Chat --------------------------------
(***************************************************************************)
(* Chat in one browser profile: the NIP-17 inbox with its gift wraps       *)
(* (hooks/useInboxSync.ts, services/chat/inbox.ts, nip17.ts, nip59.ts),    *)
(* direct and circle rooms, public NIP-29 channels (hooks/                 *)
(* useChannelSync.ts, services/chat/chatSync.ts), the two Redux slices     *)
(* (store/dmSlice.ts, store/chatSlice.ts) and the IndexedDB database       *)
(* (services/chat/chatStore.ts).                                           *)
(*                                                                         *)
(* Every await is a step boundary; the tab may be reloaded at each.  A     *)
(* gift wrap and the rumor inside it are one value, and a list of messages *)
(* is its set: insertSorted orders it totally by created_at and id.        *)
(***************************************************************************)
EXTENDS Naturals, FiniteSets, FiniteSetsExt

CONSTANTS
  Direct,        \* direct conversations
  CircleRoom,    \* rooms of one circle, one per roster it may have
  firstPeer,     \* direct room with the first other participant of a circle room
  Channel,       \* public channels
  Wrap,          \* gift wraps addressed to this user
  room,          \* the room of a wrap's participants
  Poison,        \* wraps and events that fail decryption or validation
  SelfCopy,      \* wraps of this user's own messages to themselves
  Peer,          \* stands for the wraps addressed to the others
  Event,         \* channel messages, numbered by id
  channelOf,     \* the channel an event is posted in
  created_at,    \* an event's timestamp
  Own,           \* events of this user
  Echo,          \* optimistic local echoes, one per send
  Limit,         \* CHANNEL_HISTORY_LIMIT and listMessages' limit
  Overlap,       \* CHANNEL_SYNC_OVERLAP_SECONDS
  Configs,       \* builds: subsets of {"inbox", "community"}, relays set
  MaxFaults,     \* bound: reloads, reruns of the inbox effect, failed awaits
  MaxPeers,      \* bound: messages of others
  MaxTasks,      \* bound: wraps being processed at a time
  MaxInputs,     \* bound: what the user does and changes of the roster
  None

Room == Direct \cup CircleRoom
Conversation == Room \cup Channel
Message == Wrap \cup Event \cup Echo

\* What the constants must be.
Parameters ==
  /\ room \in [Wrap -> Room] /\ SelfCopy \subseteq Wrap
  /\ Poison \subseteq Wrap \cup Event
  /\ firstPeer \in [CircleRoom -> Direct]
  /\ channelOf \in [Event -> Channel] /\ created_at \in [Event -> Nat]
  /\ Event \subseteq Nat /\ IsFiniteSet(Event) /\ Own \subseteq Event /\ None \notin Nat
  /\ Limit \in Nat \ {0} /\ Overlap \in Nat
  /\ Configs \subseteq SUBSET {"inbox", "community"}
  /\ MaxFaults \in Nat /\ MaxPeers \in Nat /\ MaxInputs \in Nat
  /\ MaxTasks \in Nat

VARIABLES
  chatRelays,    \* the relays this build has
  relay,         \* external: wraps and events the relays hold
  cipher,        \* IndexedDB: device key a stored message is encrypted under
  gift_wraps,    \* IndexedDB: wraps marked seen
  roster,        \* IndexedDB: stored conversations
  deviceKey,     \* IndexedDB: local-encryption-key
  joined,        \* localStorage: joined channels
  conversations, \* dmSlice.conversations and chatSlice.channels
  messages,      \* messages of both slices
  unread,        \* unread of both slices
  synced,        \* chatSlice.synced
  active,        \* activeConversationId or activeChannelId
  page,          \* route on screen: "chat", "circle", /chat/dm/room, a channel
  members,       \* the circle's room under its current roster, None if alone
  lookups,       \* CircleChatPage: runs of its effect still deriving a room
  tasks,         \* inbox: wraps being processed
  seen,          \* inbox: ids in the effect's own Set
  mount,         \* inbox: runs of the effect so far
  sends,         \* handleSend calls under way
  sync,          \* useChannelSync of the page on screen
  writes,        \* putChannelMessage and putConversation calls under way
  faults, inputs,
  cut            \* history: wraps whose task ended between mark and dispatch

net == <<chatRelays, relay>>
store == <<cipher, gift_wraps, roster, deviceKey, joined>>
slices == <<conversations, messages, unread, synced, active>>
view == <<page, members, lookups>>
inbox == <<tasks, seen, mount, cut>>
channel == <<sync, writes>>
bounds == <<faults, inputs>>
vars == <<net, store, slices, view, inbox, sends, channel, bounds>>

NoDeviceKey == 0
Phase == {"check", "unwrap", "mark", "key", "newkey", "put"}
NoSync == [ph |-> "off", restore |-> FALSE, state |-> FALSE, seen |-> {},
           history |-> {}, had |-> {}]

TypeOK ==
  /\ chatRelays \in Configs
  /\ relay \subseteq Wrap \cup Event
  /\ cipher \in [Wrap \cup Event -> Nat \cup {None}]
  /\ gift_wraps \subseteq Wrap \ Poison /\ roster \subseteq Room
  /\ deviceKey \in Nat /\ joined \subseteq Channel
  /\ conversations \subseteq Conversation
  /\ messages \in [Conversation -> SUBSET Message]
  /\ unread \in [Conversation -> Nat]
  /\ synced \subseteq Channel /\ active \in Conversation \cup {None}
  /\ page \in Conversation \cup {"chat", "circle"}
  /\ members \in CircleRoom \cup {None}
  /\ lookups \subseteq [room : CircleRoom \cup {None}, mounted : BOOLEAN]
  /\ tasks \subseteq [wrap : Wrap, ph : Phase, mount : 1..mount, key : Nat]
  /\ seen \subseteq Wrap /\ mount \in Nat \ {0}
  /\ sends \subseteq [conv : Conversation, id : Message, ph : {"sign", "publish"},
                     wraps : SUBSET (SelfCopy \cup {Peer} \cup Own)]
  /\ sync \in [ph : {"off", "info", "query", "live", "eose", "failed"},
               restore : BOOLEAN, state : BOOLEAN, seen : SUBSET Event,
               history : SUBSET Event, had : SUBSET Event]
  /\ writes \subseteq Event \cup Direct
  /\ faults \in 0..MaxFaults /\ inputs \in 0..MaxInputs
  /\ cut \subseteq Wrap

Init ==
  /\ chatRelays \in Configs
  /\ relay = {}
  /\ cipher = [m \in Wrap \cup Event |-> None]
  /\ gift_wraps = {} /\ roster = {} /\ deviceKey = NoDeviceKey /\ joined = {}
  /\ conversations = {}
  /\ messages = [c \in Conversation |-> {}]
  /\ unread = [c \in Conversation |-> 0]
  /\ synced = {} /\ active = None /\ page = "chat"
  /\ members \in CircleRoom /\ lookups = {}
  /\ tasks = {} /\ seen = {} /\ mount = 1
  /\ sends = {} /\ sync = NoSync /\ writes = {}
  /\ faults = 0 /\ inputs = 0 /\ cut = {}

-----------------------------------------------------------------------------
(* Reducers and the event checks *)

insertSorted(ms, m) == ms \cup {m}

Counted(c, m) == m \notin messages[c] /\ c # active
messageReceived(c, m) ==
  /\ messages' = [messages EXCEPT ![c] = insertSorted(@, m)]
  /\ unread' = [unread EXCEPT ![c] = IF Counted(c, m) THEN @ + 1 ELSE @]

channelMessageReceived(c, m) ==
  /\ messages' = [messages EXCEPT ![c] = insertSorted(@, m)]
  /\ unread' = [unread EXCEPT ![c] = IF Counted(c, m) THEN @ + 1 ELSE @]

channelHistoryLoaded(c, ms) == messages' = [messages EXCEPT ![c] = @ \cup ms]

conversationAdded(c) == conversations' = conversations \cup {c}

channelStateLoaded(c) == conversations' = conversations \cup {c} /\ active' = c

channelSynced(c) == synced' = synced \cup {c}

activeConversationChanged(c) ==
  /\ active' = c
  /\ unread' = [d \in Conversation |-> IF d = c THEN 0 ELSE unread[d]]

\* The same of the other slice: pages exclude each other, so one variable does.
activeChannelChanged(c) ==
  /\ active' = c
  /\ unread' = [d \in Conversation |-> IF d = c THEN 0 ELSE unread[d]]

\* eventValidation.ts: size, timestamp window, signature, content.
wellFormed(e) == e \notin Poison

validateChannelMessage(e, c) == wellFormed(e) /\ channelOf[e] = c

Later(e, f) == \/ created_at[e] > created_at[f]
               \/ created_at[e] = created_at[f] /\ e > f
\* External: a relay answers a limit with its newest events.
Newest(es) == {e \in es : Cardinality({f \in es : Later(f, e)}) < Limit}

\* The cursor runs backwards, newest first.
Stored(c) == {e \in Event : channelOf[e] = c /\ cipher[e] # None}
listMessages(c) ==
  {e \in Stored(c) : Cardinality({f \in Stored(c) : Later(f, e)}) < Limit}

\* The messages of a channel are stored as they are, and read back so.
listChannelMessages(c) == listMessages(c)

putChannelMessage(es) == writes' = writes \cup es

listConversations == roster

putConversation(c) == roster' = roster \cup ({c} \cap Direct)

hasGiftWrap(w) == w \in gift_wraps

NoOverlap(last) == last  \* mutant

resumeSince(last) == IF last > Overlap THEN last - Overlap ELSE 0

\* The filter's since, from the last event of the history.
Since(history) ==
  IF history = {} THEN 0 ELSE resumeSince(Max({created_at[e] : e \in history}))

OnRelay(c) == {e \in relay \cap Event : channelOf[e] = c}

-----------------------------------------------------------------------------
(* The inbox: one task per gift wrap that arrives *)

Task(w, ph, k) == [wrap |-> w, ph |-> ph, mount |-> mount, key |-> k]
Becomes(t, ph) == tasks' = (tasks \ {t}) \cup {[t EXCEPT !.ph = ph]}
Ends(t) == tasks' = tasks \ {t}

\* The subscription's callback; a wrap may arrive again.
subscribe(w) ==
  /\ "inbox" \in chatRelays
  /\ w \in relay
  /\ w \notin seen
  /\ Cardinality(tasks) < MaxTasks
  /\ tasks' = tasks \cup {Task(w, "check", NoDeviceKey)}
  /\ UNCHANGED <<net, store, slices, view, seen, mount, cut, sends, channel, bounds>>

\* hasGiftWrap has answered.
isSeen(t) ==
  /\ t.ph = "check"
  /\ IF hasGiftWrap(t.wrap) THEN Ends(t) ELSE Becomes(t, "unwrap")
  /\ UNCHANGED <<net, store, slices, view, seen, mount, cut, sends, channel, bounds>>

\* Every layer checks out; participantSet includes this user.
opensGiftWrap(w) == w \notin Poison

\* conversationIdFor the sorted, unique participants.
conversationOf(w) == room[w]

\* The signer has answered or failed (unwrapGiftWrap returns null either way);
\* then markSeen notes the wrap in this effect's Set and goes on to IndexedDB.
unwrapAnswered(t) ==
  /\ t.ph = "unwrap"
  /\ \/ Ends(t) /\ UNCHANGED seen
     \/ /\ opensGiftWrap(t.wrap)
        /\ Becomes(t, "mark")
        /\ seen' = IF t.mount = mount THEN seen \cup {t.wrap} ELSE seen
  /\ UNCHANGED <<net, store, slices, view, mount, cut, sends, channel, bounds>>

\* processGiftWrap returns; a disposed effect stops here.
markGiftWrapSeen(t) ==
  /\ t.ph = "mark"
  /\ gift_wraps' = gift_wraps \cup {t.wrap}
  /\ IF t.mount # mount
     THEN Ends(t) /\ cut' = cut \cup {t.wrap}
     ELSE Becomes(t, "key") /\ UNCHANGED cut
  /\ UNCHANGED <<net, cipher, roster, deviceKey, joined, slices, view, seen, mount,
                 sends, channel, bounds>>

\* getOrCreateEncryptionKey reads the device key; without one it makes its own.
FreshKey == 1 + Max({deviceKey} \cup {t.key : t \in tasks})
getOrCreateEncryptionKey(t) ==
  /\ t.ph = "key"
  /\ tasks' = (tasks \ {t}) \cup
       {IF deviceKey # NoDeviceKey THEN [t EXCEPT !.ph = "put", !.key = deviceKey]
                             ELSE [t EXCEPT !.ph = "newkey", !.key = FreshKey]}
  /\ UNCHANGED <<net, store, slices, view, seen, mount, cut, sends, channel, bounds>>

\* The message as it is stored: under the key this task has.
encryptLocalPlaintext(t) == [cipher EXCEPT ![t.wrap] = t.key]

\* Its own key is written over whatever is there by now.
putDeviceKey(t) ==
  /\ t.ph = "newkey"
  /\ deviceKey' = t.key
  /\ Becomes(t, "put")
  /\ UNCHANGED <<net, cipher, gift_wraps, roster, joined, slices, view, seen, mount,
                 cut, sends, channel, bounds>>

NotStored(t) ==  \* mutant: the message is shown and not stored
  /\ t.ph = "put"
  /\ Ends(t)
  /\ messageReceived(conversationOf(t.wrap), t.wrap)
  /\ conversationAdded(conversationOf(t.wrap))
  /\ UNCHANGED <<net, store, synced, active, view, seen, mount, cut, sends, channel,
                 bounds>>

StoresOnly(t) ==  \* mutant: stored and not shown
  /\ t.ph = "put"
  /\ cipher' = encryptLocalPlaintext(t)
  /\ Ends(t)
  /\ UNCHANGED <<net, gift_wraps, roster, deviceKey, joined, slices, view,
                 seen, mount, cut, sends, channel, bounds>>

\* putMessage has answered: conversationAdded and messageReceived.
putMessage(t) ==
  /\ t.ph = "put"
  /\ cipher' = encryptLocalPlaintext(t)
  /\ Ends(t)
  /\ messageReceived(conversationOf(t.wrap), t.wrap)
  /\ conversationAdded(conversationOf(t.wrap))
  /\ UNCHANGED <<net, gift_wraps, roster, deviceKey, joined, synced, active, view, seen,
                 mount, cut, sends, channel, bounds>>

Fault == faults < MaxFaults /\ faults' = faults + 1

\* An IndexedDB request of the task is rejected: an unhandled rejection.
taskFails(t) ==
  /\ Fault
  /\ t.ph # "unwrap"
  /\ Ends(t)
  /\ cut' = IF t.ph = "check" THEN cut ELSE cut \cup {t.wrap}
  /\ UNCHANGED <<net, store, slices, view, seen, mount, sends, channel, inputs>>

\* The effect is cleaned up and runs again with a new Set.
remountInbox ==
  /\ Fault
  /\ mount' = mount + 1
  /\ seen' = {}
  /\ UNCHANGED <<net, store, slices, view, tasks, cut, sends, channel, inputs>>

-----------------------------------------------------------------------------
(* Pages *)

Input == inputs < MaxInputs /\ inputs' = inputs + 1

\* PublicChannelPage has a channel id, and syncs, only with a community relay.
HasChannel(p) == p \in Channel /\ "community" \in chatRelays

\* useChannelSync's effect: the old run is disposed of, a new one starts.
useChannelSync(p) ==
  sync' = IF HasChannel(p) THEN [NoSync EXCEPT !.ph = "info", !.restore = TRUE]
                           ELSE NoSync

\* The old page's cleanups, then the new page's effects.
Navigate(p) ==
  /\ page' = p
  /\ IF p \in Channel THEN activeChannelChanged(IF HasChannel(p) THEN p ELSE None)
                      ELSE activeConversationChanged(IF p \in Room THEN p ELSE None)
  /\ lookups' = {[l EXCEPT !.mounted = FALSE] : l \in lookups} \cup
                IF p = "circle" THEN {[room |-> members, mounted |-> TRUE]} ELSE {}
  /\ useChannelSync(p)

openPage(p) ==
  /\ Input
  /\ p # page
  /\ p \in Channel => p \in joined
  /\ p \in Room => p \in conversations
  /\ Navigate(p)
  /\ UNCHANGED <<net, store, conversations, messages, synced, members, inbox, sends,
                 writes, faults>>

\* ChatPage puts the stored conversations back.
restoreConversations ==
  /\ page = "chat"
  /\ conversations' = conversations \cup listConversations
  /\ UNCHANGED <<net, store, messages, unread, synced, active, view, inbox, sends,
                 channel, bounds>>

\* What is typed to find someone: an npub or a hex key, of either case; anything
\* else names nobody.
hexFromNpubOrHex(form, d) == IF form \in {"npub", "hex", "HEX"} THEN d ELSE None

\* handleNewDm, after the id is derived; wherever the user is by then.
handleNewDm(d) ==
  /\ Input
  /\ "inbox" \in chatRelays
  /\ \E form \in {"npub", "HEX", "other"} : hexFromNpubOrHex(form, d) # None
  /\ d \notin conversations
  /\ conversationAdded(d)
  /\ writes' = writes \cup {d}
  /\ Navigate(d)
  /\ UNCHANGED <<net, store, messages, synced, members, inbox, sends, faults>>

addJoinedChannel(c) == joined' = joined \cup {c}

\* A reference to a channel: its id, or an address that holds the id.
parseChannelRef(form, c) == IF form \in {"id", "naddr"} THEN c ELSE None

handleJoin(c) ==
  /\ Input
  /\ "community" \in chatRelays
  /\ \E form \in {"id", "naddr", "empty", "long"} : parseChannelRef(form, c) # None
  /\ c \notin joined
  /\ addJoinedChannel(c)
  /\ Navigate(c)
  /\ UNCHANGED <<net, cipher, gift_wraps, roster, deviceKey, conversations, messages,
                 synced, members, inbox, sends, writes, faults>>

\* An id nobody has used.
newGroupId(c) == c \notin joined /\ OnRelay(c) = {}

\* Both events are signed and published, from ChatPage; the user may be
\* elsewhere when the new channel is joined and opened.
handleCreateChannel(c) ==
  /\ page # "chat" /\ newGroupId(c)
  /\ handleJoin(c)

\* circleChatParticipants and circleChatFeasible under a new roster: the page's
\* effect runs again without cancelling the run before.
circleChatParticipants(r) ==
  /\ Input
  /\ r # members
  /\ members' = r
  /\ lookups' = IF page = "circle" THEN lookups \cup {[room |-> r, mounted |-> TRUE]}
                                   ELSE lookups
  /\ UNCHANGED <<net, store, slices, page, inbox, sends, channel, faults>>

\* CircleChatPage's effect has its room: setConversationId, conversationAdded.
setConversationId(l) ==
  /\ lookups' = lookups \ {l}
  /\ IF l.room = None THEN UNCHANGED conversations ELSE conversationAdded(l.room)
  /\ IF l.mounted /\ l.room # active THEN activeConversationChanged(l.room)
                                     ELSE UNCHANGED <<active, unread>>
  /\ UNCHANGED <<net, store, messages, synced, page, members, inbox, sends, channel,
                 bounds>>

-----------------------------------------------------------------------------
(* Sending *)

NewId(id) == /\ \A c \in Conversation : id \notin messages[c]
             /\ \A s \in sends : s.id # id
Send(c, id, wraps) ==
  sends' = sends \cup {[conv |-> c, id |-> id, ph |-> "sign", wraps |-> wraps]}

\* One wrap for the recipient and one for the sender.
directWraps(w) == {w, Peer}

\* One wrap for every participant, the sender included.
groupWraps(w) == {w, Peer}

\* A self-copy not used before.
NewCopy(w) == w \in SelfCopy \ relay /\ \A s \in sends : w \notin s.wraps

\* DirectConversationPage, which ChatPage opens for circle rooms too: one
\* recipient, the first other participant, and only their wrap is published.
handleSendDirect(id, w) ==
  /\ Input
  /\ "inbox" \in chatRelays
  /\ page \in Room /\ page \in conversations
  /\ id \in Echo /\ NewId(id) /\ NewCopy(w)
  /\ Send(IF page \in Direct THEN page ELSE firstPeer[page], id,
          directWraps(w) \cap {Peer})
  /\ UNCHANGED <<net, store, slices, view, inbox, channel, faults>>

\* CircleChatPage: wraps for the roster of this render, whatever room it shows.
handleSendCircle(id, w) ==
  /\ Input
  /\ "inbox" \in chatRelays
  /\ page = "circle" /\ active # None /\ members # None
  /\ id \in Echo /\ NewId(id) /\ NewCopy(w) /\ room[w] = members
  /\ Send(members, id, groupWraps(w))
  /\ UNCHANGED <<net, store, slices, view, inbox, channel, faults>>

\* PublicChannelPage signs an event of its own.
createChannelMessage(e) ==
  /\ Input
  /\ HasChannel(page) /\ channelOf[e] = page
  /\ e \in Own \ (relay \cup writes) /\ NewId(e) /\ cipher[e] = None
  /\ Send(page, e, {e})
  /\ UNCHANGED <<net, store, slices, view, inbox, channel, faults>>

\* The signer has answered: the optimistic echo, stored for channels only.
echo(s) ==
  /\ s.ph = "sign"
  /\ IF s.conv \in Channel
     THEN putChannelMessage({s.id}) /\ channelMessageReceived(s.conv, s.id)
     ELSE UNCHANGED writes /\ messageReceived(s.conv, s.id)
  /\ sends' = (sends \ {s}) \cup {[s EXCEPT !.ph = "publish"]}
  /\ UNCHANGED <<net, store, conversations, synced, active, view, inbox, sync, bounds>>

\* The relay takes one wrap or event; the caller goes on to the next.
publish(s, w) ==
  /\ s.ph = "publish"
  /\ relay' = relay \cup ({w} \ {Peer})
  /\ sends' = (sends \ {s}) \cup
              IF s.wraps = {w} THEN {} ELSE {[s EXCEPT !.wraps = @ \ {w}]}
  /\ UNCHANGED <<chatRelays, store, slices, view, inbox, channel, bounds>>

\* The signer refuses or a publish fails: the rest is not sent, and the echo
\* stays.
sendFails(s) ==
  /\ sends' = sends \ {s}
  /\ UNCHANGED <<net, store, slices, view, inbox, channel, bounds>>

-----------------------------------------------------------------------------
(* useChannelSync of the channel page on screen *)

\* listChannelMessages has answered.
restoreMessages ==
  /\ sync.restore
  /\ channelHistoryLoaded(page, listChannelMessages(page))
  /\ sync' = [sync EXCEPT !.restore = FALSE]
  /\ UNCHANGED <<net, store, conversations, unread, synced, active, view, inbox, sends,
                 writes, bounds>>

\* The relay's self key has arrived or is unavailable.
fetchRelayInfo ==
  /\ sync.ph = "info"
  /\ sync' = [sync EXCEPT !.ph = "query", !.state = TRUE]
  /\ UNCHANGED <<net, store, slices, view, inbox, sends, writes, bounds>>

\* The channel's state has arrived (channelStateLoaded) or failed.
loadChannelState ==
  /\ sync.state
  /\ sync' = [sync EXCEPT !.state = FALSE]
  /\ channelStateLoaded(page) \/ UNCHANGED <<conversations, active>>
  /\ UNCHANGED <<net, store, messages, unread, synced, view, inbox, sends, writes,
                 bounds>>

\* Deduplicated and sorted: what is left of a list is its set.
mergeUnique(es) == {e \in es : validateChannelMessage(e, page)}

\* The query answers, in full or with what came before its timeout.
fetchChannelHistory(h) ==
  /\ sync.ph = "query"
  /\ h \subseteq mergeUnique(Newest(OnRelay(page)))

\* remember, channelHistoryLoaded and the subscription follow at once.
historyThenLive(h) ==
  /\ fetchChannelHistory(h)
  /\ channelHistoryLoaded(page, h)
  /\ putChannelMessage(h)
  /\ sync' = [sync EXCEPT !.ph = "live", !.seen = h, !.history = h,
                          !.had = OnRelay(page)]
  /\ UNCHANGED <<net, store, conversations, unread, synced, active, view, inbox, sends,
                 bounds>>

historyFails ==
  /\ sync.ph = "query"
  /\ sync' = [sync EXCEPT !.ph = "failed"]
  /\ UNCHANGED <<net, store, slices, view, inbox, sends, writes, bounds>>

\* The subscription's callback.
Owed(es) == {e \in es : /\ created_at[e] >= Since(sync.history)
                        /\ validateChannelMessage(e, page)} \ sync.seen
subscribeChannel(e) ==
  /\ sync.ph \in {"live", "eose"}
  /\ e \in Owed(OnRelay(page))
  /\ channelMessageReceived(page, e)
  /\ putChannelMessage({e})
  /\ sync' = [sync EXCEPT !.seen = @ \cup {e}]
  /\ UNCHANGED <<net, store, conversations, synced, active, view, inbox, sends, bounds>>

\* External: the relay has sent what it held when the subscription began.  The
\* pool's subscribeEose closes the subscription then and may keep the callback
\* to itself; nothing after it is taken for granted.
onEose ==
  /\ sync.ph = "live"
  /\ Owed(sync.had) = {}
  /\ channelSynced(page) \/ UNCHANGED synced
  /\ sync' = [sync EXCEPT !.ph = "eose"]
  /\ UNCHANGED <<net, store, conversations, messages, unread, active, view, inbox, sends,
                 writes, bounds>>

\* A write of the page reaches IndexedDB, or is rejected and forgotten.
put(m) ==
  /\ writes' = writes \ {m}
  /\ \/ /\ cipher' = [e \in DOMAIN cipher |-> IF e = m THEN NoDeviceKey ELSE cipher[e]]
        /\ putConversation(m)
        /\ UNCHANGED faults
     \/ /\ Fault
        /\ UNCHANGED <<cipher, roster>>
  /\ UNCHANGED <<net, gift_wraps, deviceKey, joined, slices, view, inbox, sends, sync,
                 inputs>>

-----------------------------------------------------------------------------
\* External: someone else's message reaches a relay.
peerPublishes(m) ==
  /\ m \notin relay
  /\ (IF m \in Wrap THEN "inbox" ELSE "community") \in chatRelays
  /\ Cardinality(relay \ (SelfCopy \cup Own)) < MaxPeers
  /\ relay' = relay \cup {m}
  /\ UNCHANGED <<chatRelays, store, slices, view, inbox, sends, channel, bounds>>

\* The tab is reloaded: what is not in IndexedDB or localStorage is gone.
reload ==
  /\ Fault
  /\ conversations' = {} /\ synced' = {} /\ active' = None /\ page' = "chat"
  /\ messages' = [c \in Conversation |-> {}]
  /\ unread' = [c \in Conversation |-> 0]
  /\ cut' = cut \cup {t.wrap : t \in {u \in tasks : u.ph \in {"key", "newkey", "put"}}}
  /\ lookups' = {} /\ tasks' = {} /\ seen' = {} /\ mount' = mount + 1
  /\ sends' = {} /\ sync' = NoSync /\ writes' = {}
  /\ UNCHANGED <<net, store, members, inputs>>

TaskStep(t) == isSeen(t) \/ markGiftWrapSeen(t) \/ getOrCreateEncryptionKey(t)
               \/ putDeviceKey(t) \/ putMessage(t)
InboxStep == \/ \E w \in Wrap : subscribe(w)
             \/ \E t \in tasks : TaskStep(t) \/ unwrapAnswered(t) \/ taskFails(t)
             \/ remountInbox
PageStep == \/ \E p \in Conversation \cup {"chat", "circle"} : openPage(p)
            \/ restoreConversations
            \/ \E d \in Direct : handleNewDm(d)
            \/ \E c \in Channel : handleJoin(c) \/ handleCreateChannel(c)
            \/ \E r \in CircleRoom \cup {None} : circleChatParticipants(r)
            \/ \E l \in lookups : setConversationId(l)
SendStep == \/ \E id \in Echo, w \in SelfCopy : handleSendDirect(id, w)
            \/ \E id \in Echo, w \in SelfCopy : handleSendCircle(id, w)
            \/ \E e \in Own : createChannelMessage(e)
            \/ \E s \in sends : \/ echo(s)
                                \/ \E w \in s.wraps : publish(s, w)
                                \/ sendFails(s)
ChannelStep == \/ restoreMessages \/ fetchRelayInfo \/ loadChannelState
               \/ historyFails
               \/ \E h \in SUBSET Event : historyThenLive(h)
               \/ \E e \in Event : subscribeChannel(e)
               \/ onEose
               \/ \E m \in writes : put(m)
Next == \/ InboxStep \/ PageStep \/ SendStep \/ ChannelStep
        \/ \E m \in (Wrap \ SelfCopy) \cup (Event \ Own) : peerPublishes(m)
        \/ reload

\* IndexedDB answers; the signer, the relays and the user need not.
Fairness ==
  /\ \A w \in Wrap : WF_vars(\E t \in tasks : t.wrap = w /\ TaskStep(t))
  /\ WF_vars(restoreMessages)
Spec == Init /\ [][Next]_vars /\ Fairness

-----------------------------------------------------------------------------
(* Properties *)

\* A wrap that is marked seen, and so never processed again, has its message
\* in IndexedDB or on the way there, unless the tab, the effect or IndexedDB
\* gave out in between: duplicate deliveries and concurrent tasks of
\* processGiftWrap lose nothing.
SeenIsKept ==
  \A w \in gift_wraps : \/ cipher[w] # None
                        \/ w \in cut
                        \/ \E t \in tasks : t.wrap = w /\ t.ph \in {"key", "newkey", "put"}

\* After EOSE the channel page shows everything the relay held that is no older
\* than the overlap before the newest event of the history, also what was
\* posted between query and subscription with an older timestamp
\* (fetchChannelHistory, resumeSince, subscribeChannel's shared seen set).
ChannelCaughtUp ==
  sync.ph = "eose" /\ sync.history # {} =>
    LET newest == Max({created_at[e] : e \in sync.history})
    IN {e \in sync.had \ Poison : created_at[e] + Overlap >= newest}
         \cup sync.history \subseteq messages[page]

\* A wrap that was unwrapped is shown in the end, unless the tab or the effect
\* is replaced or IndexedDB fails (useInboxSync's callback).
UnwrappedIsShown ==
  \A w \in Wrap : (\E t \in tasks : t.wrap = w /\ t.ph = "mark")
                  ~> w \in messages[room[w]] \/ faults > 0
=============================================================================
