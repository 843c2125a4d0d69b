--------------------------- MODULE LocationShare ---------------------------
(***************************************************************************)
(* One member's PWA in a circle that shares locations: loading the circle  *)
(* and its key (hooks/useCircles.ts, services/e2eeService.ts), the         *)
(* circle's socket and the envelopes it brings (services/                  *)
(* circleWebSocket.ts, store/circlesSlice.ts), sharing one's own location  *)
(* (services/locationPublisher.ts, components/FamilyCircleDashboard.tsx)   *)
(* and the proximity alerts (hooks/useProximityAlerts.ts).                 *)
(*                                                                         *)
(* The server is reduced to what its answers depend on (module Circles has *)
(* it in full).  Every await whose outcome another event can change is a   *)
(* step boundary.  A ciphertext is the epoch of the key it is under; a     *)
(* position is the time it was captured, and Where says where that is.     *)
(***************************************************************************)
EXTENDS Naturals, Sequences, FiniteSets

CONSTANTS
  Peer,         \* the other members
  Self,         \* this device's member token
  TrueOwner,    \* the circle's owner, whose key signs the wraps
  Event,        \* active safety events the map shows
  Near,         \* <<captured_at, event>>: within alert_radius_km, severe enough
  FirstEpoch,   \* the epoch the circle is in at first
  LastEpoch,    \* bound: key epochs explored
  MaxNow,       \* bound: the clock
  Age,          \* LOCATION_MAX_AGE_SECONDS, in ticks of the clock
  MaxTasks,     \* bound: envelopes between arrival and dispatch
  MaxSessions,  \* bound: publishers created on one page
  MaxChanges,   \* bound: membership changes and epoch commits
  Plans,        \* bounds of a behaviour: inputs of the user, the clock, and faults
                 \* (lost connections, failed signatures and requests)
  None

\* What the constants must be.
Parameters ==
  /\ Self \notin Peer /\ TrueOwner \notin Peer
  /\ FirstEpoch \in Nat \ {0, 1} /\ LastEpoch \in Nat
  /\ Age \in Nat \ {0} /\ MaxTasks \in Nat \ {0} /\ MaxSessions \in Nat \ {0}
  /\ MaxNow \in Nat /\ MaxChanges \in Nat
  /\ Plans \subseteq [inputs : Nat, now : 1..MaxNow, faults : Nat]

Epoch == FirstEpoch..LastEpoch
Time == 1..MaxNow
Session == 1..MaxSessions
Envelope == [from : Peer, epoch : Epoch, at : Time]

VARIABLES
  current_epoch,  \* server: current epoch (its protocol version is 1)
  rekey,          \* server: rekey_required
  active,         \* server: peers with an ACTIVE row
  mine,           \* server: this member's membership_state
  own_wrap,       \* server: epoch of this member's key wrap
  stored_blob,    \* server: stored envelope per peer
  changes,        \* membership changes and commits so far
  now,            \* the clock
  keyOf,          \* IndexedDB: per epoch, the epoch of the key stored there
  ids,            \* localStorage: the circle ids this device tracks
  ownerKey,       \* localStorage: whose key is kept as the owner's, or None
  load,           \* useCircles: the load under way
  circle,         \* store: the circle as this page knows it
  ws,             \* "off", "timer", "open", "ended" (never reconnects)
  ws_queue,       \* messages the socket has not handled
  tasks,          \* handleEnvelope calls waiting for the key and the decryption
  seen,           \* seenRef: captured_at per peer, 0 for none
  shown,          \* store: decryptedLocations, by captured_at
  alerts,         \* store: proximity alerts per member and event
  sharing,        \* dashboard: the button says "Stop sharing"
  interval,       \* intervalRef: session its timer publishes for, 0 for none
  pubs,           \* publishers created so far
  inputs, faults,
  plan        \* the bounds chosen for this behaviour

server == <<current_epoch, rekey, active, mine, own_wrap, stored_blob, changes>>
keyStore == <<keyOf, ids, ownerKey>>
map == <<seen, shown, alerts>>
publisher == <<sharing, interval, pubs>>
budget == <<inputs, faults, plan>>
sharingVars == <<server, now, keyStore, load, circle, ws, ws_queue, tasks, map,
          publisher, budget>>

NoLoad == [ph |-> "idle", epoch |-> 0, rekey |-> TRUE, active |-> {},
           labels |-> 0, mine |-> "NONE", wrap |-> 0]

SharingTypeOK ==
  /\ current_epoch \in Epoch /\ rekey \in BOOLEAN /\ active \subseteq Peer
  /\ mine \in {"NONE", "PENDING", "ACTIVE"} /\ own_wrap \in Epoch \cup {0}
  /\ \A p \in Peer : stored_blob[p] \in Envelope \/ stored_blob[p] = None
  /\ keyOf \in [Epoch -> Epoch \cup {0}]
  /\ ids \subseteq {"circle"} /\ ownerKey \in {None, TrueOwner} \cup Peer
  /\ load.ph \in {"idle", "row", "detail", "keyed"}
  /\ circle = None \/ /\ circle.epoch \in Epoch /\ circle.roster \subseteq Peer
                      /\ circle.mine \in {"PENDING", "ACTIVE", "UNKNOWN"}
  /\ ws \in {"off", "timer", "open", "ended"}
  /\ \A t \in tasks : t.env \in Envelope /\ t.pubkeys \subseteq Peer
  /\ seen \in [Peer -> 0..MaxNow] /\ shown \in [Peer -> 0..MaxNow]
  /\ sharing \in BOOLEAN /\ interval \in 0..Len(pubs)

\* The circle's owner has committed FirstEpoch and invited this member; the
\* page has just been opened and nothing is known of the circle yet.
PageInit ==
  /\ load = NoLoad /\ circle = None
  /\ ws = "off" /\ ws_queue = <<>> /\ tasks = {}
  /\ seen = [p \in Peer |-> 0] /\ shown = [p \in Peer |-> 0]
  /\ alerts = [a \in Peer \X Event |-> 0]
  /\ sharing = FALSE /\ interval = 0 /\ pubs = <<>>

SharingInit ==
  /\ current_epoch = FirstEpoch /\ rekey = FALSE /\ active = Peer
  /\ mine = "PENDING" /\ own_wrap = FirstEpoch
  /\ stored_blob = [p \in Peer |-> None] /\ changes = 0 /\ now = 1
  /\ keyOf = [e \in Epoch |-> 0] 
  /\ ids = {} /\ ownerKey = None
  /\ PageInit
  /\ inputs = 0 /\ faults = 0 /\ plan \in Plans

Input == inputs < plan.inputs /\ inputs' = inputs + 1 /\ UNCHANGED plan
Fault == faults < plan.faults /\ faults' = faults + 1 /\ UNCHANGED plan
Change == changes < MaxChanges /\ changes' = changes + 1

-----------------------------------------------------------------------------
(* The server, as its answers and broadcasts look from this device *)

Send(msgs) == ws_queue' = IF ws = "open" THEN ws_queue \o msgs ELSE ws_queue
EpochNotice(e, r) == [type |-> "EPOCH", epoch |-> e, rekey |-> r]
RemovalNotice(m) == [type |-> "REMOVED", token |-> m]

page == <<load, circle, ws, tasks, map, publisher, budget>>

\* commit_epoch by the owner: the active members get a wrap of the new key.
commit_epoch ==
  /\ current_epoch < LastEpoch
  /\ Change
  /\ current_epoch' = current_epoch + 1 /\ rekey' = FALSE
  /\ own_wrap' = IF mine = "ACTIVE" THEN current_epoch + 1 ELSE own_wrap
  /\ stored_blob' = [p \in Peer |-> None]
  /\ Send(<<EpochNotice(current_epoch + 1, FALSE)>>)
  /\ UNCHANGED <<active, mine, now, keyStore, page>>

remove_member(p) ==
  /\ p \in active
  /\ Change
  /\ active' = active \ {p} /\ rekey' = TRUE
  /\ stored_blob' = [stored_blob EXCEPT ![p] = None]
  /\ Send(<<RemovalNotice(p), EpochNotice(current_epoch, TRUE)>>)
  /\ UNCHANGED <<current_epoch, mine, own_wrap, now, keyStore, page>>

\* This member is removed: its socket gets the close frame 4003 instead.
remove_self ==
  /\ mine # "NONE"
  /\ Change
  /\ mine' = "NONE" /\ own_wrap' = 0 /\ rekey' = TRUE
  /\ Send(<<RemovalNotice(Self)>>)
  /\ UNCHANGED <<current_epoch, active, stored_blob, now, keyStore, page>>

\* push_envelope of another member, at most once per tick of the clock.
push_envelope(p) ==
  /\ p \in active /\ ~rekey
  /\ stored_blob[p] # None => stored_blob[p].at < now
  /\ LET env == [from |-> p, epoch |-> current_epoch, at |-> now] IN
       /\ stored_blob' = [stored_blob EXCEPT ![p] = env]
       /\ Send(<<[type |-> "ENVELOPE", envs |-> {env}]>>)
  /\ UNCHANGED <<current_epoch, rekey, active, mine, own_wrap, changes, now, keyStore, page>>

Tick ==
  /\ now < plan.now
  /\ now' = now + 1
  /\ UNCHANGED <<server, keyStore, page, ws_queue>>

\* fetch_blob_snapshot: the envelopes of this epoch that have not expired.
Snapshot ==
  {stored_blob[p] : p \in {q \in Peer : /\ stored_blob[q] # None
                                 /\ stored_blob[q].at + Age > now /\ stored_blob[q].epoch = current_epoch}}

-----------------------------------------------------------------------------
(* Sharing: createLocationPublisher and the dashboard's timers *)

\* stopSharing: whatever publisher publisherRef holds, that is, the newest one.
stopSharing(ps, on) ==
  /\ pubs' = IF on THEN [ps EXCEPT ![Len(ps)].stopped = TRUE] ELSE ps
  /\ sharing' = FALSE /\ interval' = 0

epochReady(c) == c # None /\ (c # None => ~c.rekey)

\* The effect that watches the circle: a rekey, or no circle, stops sharing.
watchCircle(c) ==
  IF sharing /\ ~epochReady(c) THEN stopSharing(pubs, TRUE) ELSE UNCHANGED publisher

startSharing ==
  /\ ~sharing /\ epochReady(circle) /\ Len(pubs) < MaxSessions
  /\ Input
  /\ pubs' = Append(pubs, [epoch |-> circle.epoch, stopped |-> FALSE, ph |-> "begun"])
  /\ sharing' = TRUE /\ interval' = Len(pubs) + 1
  /\ UNCHANGED <<server, now, keyStore, load, circle, ws, ws_queue, tasks, map, faults>>

Running(n) == n \in DOMAIN pubs /\ pubs[n].ph # "idle"
other == <<server, now, keyStore, load, circle, ws, ws_queue, tasks, map>>

\* publish rejects, and publishOnce's catch stops whatever is shared now.
publishFails(n) == stopSharing([pubs EXCEPT ![n].ph = "idle"], sharing)

\* The interval calls publish: it throws while the last call is in flight.
publishOnce ==
  /\ interval # 0
  /\ IF pubs[interval].ph = "idle" /\ ~pubs[interval].stopped
     THEN /\ pubs' = [pubs EXCEPT ![interval].ph = "begun"]
          /\ UNCHANGED <<sharing, interval>>
     ELSE stopSharing(pubs, sharing)
  /\ UNCHANGED <<other, budget>>

\* loadCircleKey, getPosition, encryptCircleLocationV1 and signNip98AuthEvent;
\* stopped is not looked at again.
post(n) ==
  /\ Running(n) /\ pubs[n].ph = "begun"
  /\ IF keyOf[pubs[n].epoch] = 0
     THEN publishFails(n)
     ELSE /\ pubs' = [pubs EXCEPT ![n].ph = "posted"]
          /\ UNCHANGED <<sharing, interval>>
  /\ UNCHANGED <<other, budget>>

\* The request is for the epoch the publisher was created in.
buildLocationEnvelopeBody(n) == [version |-> 1, key_epoch |-> pubs[n].epoch]

\* validate_circle_state and the membership check behind the request.
Accepts(body) == mine = "ACTIVE" /\ ~rekey /\ body.version = 1 /\ body.key_epoch = current_epoch

RefusalIgnored(n) ==  \* mutant: a refused envelope does not reject publish
  /\ Running(n) /\ pubs[n].ph = "posted"
  /\ pubs' = [pubs EXCEPT ![n].ph = "idle"]
  /\ UNCHANGED <<sharing, interval, other, budget>>

\* 409, 422, 503 or 403 reject the call.
response(n) ==
  /\ Running(n) /\ pubs[n].ph = "posted"
  /\ IF Accepts(buildLocationEnvelopeBody(n))
     THEN pubs' = [pubs EXCEPT ![n].ph = "idle"] /\ UNCHANGED <<sharing, interval>>
     ELSE publishFails(n)
  /\ UNCHANGED <<other, budget>>

\* No position, a signer that does not answer, a timeout: any stage may fail.
publishThrows(n) ==
  /\ Running(n)
  /\ Fault
  /\ publishFails(n)
  /\ UNCHANGED <<other, inputs>>

\* The button, or the timer of the chosen duration.
stopButton ==
  /\ sharing
  /\ stopSharing(pubs, sharing)
  /\ UNCHANGED <<other, budget>>

-----------------------------------------------------------------------------
(* Tracking and loading the circle *)

\* The invite code anyone who presses "Invite" gets: the circle, and that
\* person's own key in the owner's place.
handleInvite(m) == [form |-> "sm:circle", ownerPubkey |-> m]

Codes == {handleInvite(m) : m \in {TrueOwner} \cup Peer} \cup {[form |-> "other", ownerPubkey |-> None]}

parseInviteString(code) == IF code.form = "sm:circle" THEN code.ownerPubkey ELSE None

getCircleIds == ids
addCircleId == ids' = getCircleIds \cup {"circle"}
saveCircleOwnerKey(m) == ownerKey' = m

\* "Track this circle", which is there while no circle is open.
trackCircle(code) ==
  /\ circle = None /\ parseInviteString(code) # None
  /\ addCircleId /\ saveCircleOwnerKey(parseInviteString(code))
  /\ ownerKey' # ownerKey
  /\ IF ids = {} THEN UNCHANGED <<inputs, plan>> ELSE Input  \* the first one is free
  /\ UNCHANGED <<server, now, keyOf, load, circle, ws, tasks, map, publisher, faults, ws_queue>>

loadOnly == <<server, now, circle, ws, ws_queue, tasks, map, publisher>>

\* useCircles' effect: on mount, and again whenever the identity's mode comes
\* back to local, which aborts the load before it.  get_circle reads the circle
\* row first.
useCircles ==
  /\ getCircleIds # {} /\ mine # "NONE"
  /\ Input
  /\ load' = [NoLoad EXCEPT !.ph = "row", !.epoch = current_epoch, !.rekey = rekey]
  /\ UNCHANGED <<loadOnly, keyStore, faults>>

\* The member rows: states, labels under the current key and the own wrap.
fetchDetail ==
  /\ load.ph = "row"
  /\ load' = IF mine = "NONE" THEN NoLoad
             ELSE [load EXCEPT !.ph = "detail", !.active = active,
                               !.labels = current_epoch, !.mine = mine, !.wrap = own_wrap]
  /\ UNCHANGED <<loadOnly, keyStore, budget>>

SavedAsLoaded(w) == [keyOf EXCEPT ![load.epoch] = w]  \* mutant

\* The key of wrap w is saved at the epoch its own package names; the wrap must
\* be signed with the key kept as the owner's.
unwrapNip44CircleKey(w) == IF ownerKey = TrueOwner THEN [keyOf EXCEPT ![w] = w] ELSE keyOf

\* toCircleAndMembers, first part: the stored key, else the own wrap's.
unwrap ==
  /\ load.ph = "detail"
  /\ load' = [load EXCEPT !.ph = "keyed"]
  /\ keyOf' = IF keyOf[load.epoch] = 0 THEN unwrapNip44CircleKey(load.wrap) ELSE keyOf
  /\ UNCHANGED <<loadOnly, ids, ownerKey, budget>>

\* A string under the key of epoch c, read with the key stored for epoch e.
decryptString(e, c) == keyOf[e] # 0 /\ keyOf[e] = c

\* Labels that decryptString cannot read leave their members without pubkey;
\* one's own label was written together with one's own wrap.
Labelled == IF decryptString(load.epoch, load.labels) THEN load.active ELSE {}
OwnState == IF decryptString(load.epoch, load.wrap) THEN load.mine ELSE "UNKNOWN"

\* circleLoaded and circleEpochChanged: the store takes what was read, however
\* long ago that was.
circleLoaded ==
  /\ load.ph = "keyed"
  /\ load' = NoLoad
  /\ circle' = [epoch |-> load.epoch, rekey |-> load.rekey, roster |-> Labelled,
                mine |-> OwnState]
  /\ watchCircle(circle')
  /\ UNCHANGED <<server, now, keyStore, ws, ws_queue, tasks, map, budget>>

memberAccepted == circle' = [circle EXCEPT !.mine = "ACTIVE"]

\* Offered to a pending member whose own label could be read; accept_member
\* wants the invitation's wrap at the current epoch.
handleAcceptInvite ==
  /\ circle # None /\ (circle # None => circle.mine = "PENDING")
  /\ mine = "PENDING" /\ own_wrap = current_epoch
  /\ mine' = "ACTIVE"
  /\ memberAccepted
  /\ UNCHANGED <<current_epoch, rekey, active, own_wrap, stored_blob, changes, now, keyStore,
                 load, ws, ws_queue, tasks, map, publisher, budget>>

-----------------------------------------------------------------------------
(* The circle's socket *)

socketOnly == <<server, now, keyStore, load, circle, tasks, map, publisher>>

\* connect: sign, open, join.  Who is not an active member gets 4003, and the
\* page does not try again until it is mounted anew.
connect ==
  /\ circle # None
  /\ ws \in {"off", "timer"}
  /\ IF mine = "ACTIVE"
     THEN ws' = "open" /\ ws_queue' = <<[type |-> "ENVELOPE", envs |-> Snapshot]>>
     ELSE ws' = "ended" /\ UNCHANGED ws_queue
  /\ UNCHANGED <<socketOnly, budget>>

\* The signature fails: connect returns and nothing schedules another.
connectFails ==
  /\ circle # None
  /\ ws \in {"off", "timer"}
  /\ Fault
  /\ ws' = "ended"
  /\ UNCHANGED <<socketOnly, ws_queue, inputs>>

\* The connection drops: back-off timer, without loading the circle again.
onclose ==
  /\ ws = "open"
  /\ Fault
  /\ ws' = "timer" /\ ws_queue' = <<>>
  /\ UNCHANGED <<socketOnly, inputs>>

\* handleEnvelope up to its first await: roster and epoch are read here.
currentEpoch(env) == env.epoch = circle.epoch
handleEnvelope(envs) ==
  tasks' = tasks \cup {[env |-> env, pubkeys |-> circle.roster] :
                         env \in {e \in envs : currentEpoch(e)}}

circleEpochChanged(m) == circle' = [circle EXCEPT !.epoch = m.epoch, !.rekey = m.rekey]
memberRemoved(p) == circle' = [circle EXCEPT !.roster = @ \ {p}]

\* ws.onmessage; the close frame 4003 ends the socket for good.
onmessage ==
  /\ ws = "open" /\ ws_queue # <<>>
  /\ LET m == Head(ws_queue) IN
       \/ /\ m.type = "ENVELOPE"
          /\ Cardinality(tasks) + Cardinality(m.envs) <= MaxTasks
          /\ handleEnvelope(m.envs)
          /\ ws_queue' = Tail(ws_queue)
          /\ UNCHANGED <<circle, ws, publisher>>
       \/ /\ m.type = "EPOCH"
          /\ circleEpochChanged(m)
          /\ watchCircle(circle')
          /\ ws_queue' = Tail(ws_queue)
          /\ UNCHANGED <<ws, tasks>>
       \/ /\ m.type = "REMOVED" /\ m.token # Self
          /\ memberRemoved(m.token)
          /\ ws_queue' = Tail(ws_queue)
          /\ UNCHANGED <<ws, tasks, publisher>>
       \/ /\ m.type = "REMOVED" /\ m.token = Self
          /\ ws' = "ended" /\ ws_queue' = <<>>
          /\ UNCHANGED <<circle, tasks, publisher>>
  /\ UNCHANGED <<server, now, keyStore, load, map, budget>>

-----------------------------------------------------------------------------
(* Envelopes that have been decrypted, and proximity alerts *)

\* decryptCircleLocationV1: right key, a signer of the roster, not expired.
decryptCircleLocationV1(t) ==
  /\ keyOf[t.env.epoch] = t.env.epoch
  /\ t.env.from \in t.pubkeys
  /\ now < t.env.at + Age

SameFixOnly(env) == seen[env.from] = env.at  \* mutant
\* Duplicate, or older than what was seen last.
outdated(env) == env.at <= seen[env.from]

\* The members whose last position in s is close to an event they watch.
computeProximityAlerts(s) ==
  {a \in Peer \X Event : a[1] \in circle.roster /\ <<s[a[1]], a[2]>> \in Near}

\* Each alert has a fresh id, so this reducer finds none of them there already.
proximityAlertAdded(new) ==
  alerts' = [a \in Peer \X Event |-> alerts[a] + (IF a \in new THEN 1 ELSE 0)]

\* The effect on new locations s, less the pairs alerted before.
useProximityAlerts(s) ==
  IF circle = None THEN UNCHANGED alerts
  ELSE proximityAlertAdded({a \in computeProximityAlerts(s) : alerts[a] = 0})

\* locationReceived, and the effect that runs because the locations changed.
locationReceived(p, at) ==
  /\ shown' = [shown EXCEPT ![p] = at]
  /\ useProximityAlerts(shown')

\* handleEnvelope after its awaits.
envelopeDecrypted(t) ==
  /\ tasks' = tasks \ {t}
  /\ IF decryptCircleLocationV1(t) /\ ~outdated(t.env)
     THEN /\ seen' = [seen EXCEPT ![t.env.from] = t.env.at]
          /\ locationReceived(t.env.from, t.env.at)
     ELSE UNCHANGED <<seen, shown, alerts>>
  /\ UNCHANGED <<server, now, keyStore, load, circle, ws, ws_queue,
                 publisher, budget>>

-----------------------------------------------------------------------------
\* The reducer empties the slice.
circleLeft ==
  /\ circle' = None
  /\ shown' = [p \in Peer |-> 0] /\ alerts' = [a \in Peer \X Event |-> 0]

\* The user confirms hiding the circle: the socket's effect is cleaned up,
\* seenRef and the running handleEnvelope calls are not.
handleLeave ==
  /\ circle # None
  /\ Input
  /\ circleLeft
  /\ ws' = "off" /\ ws_queue' = <<>>
  /\ watchCircle(None)
  /\ UNCHANGED <<server, now, keyStore, load, tasks, seen, faults>>

\* The page is loaded anew: IndexedDB and localStorage stay.
Reload ==
  /\ Input
  /\ load' = NoLoad /\ circle' = None
  /\ ws' = "off" /\ ws_queue' = <<>> /\ tasks' = {}
  /\ seen' = [p \in Peer |-> 0] /\ shown' = [p \in Peer |-> 0]
  /\ alerts' = [a \in Peer \X Event |-> 0]
  /\ sharing' = FALSE /\ interval' = 0 /\ pubs' = <<>>
  /\ UNCHANGED <<server, now, keyStore, faults>>

CircleStep ==
  \/ commit_epoch
  \/ remove_self
  \/ \E p \in Peer : remove_member(p) \/ push_envelope(p)

PublishStep ==
  \E n \in Session : post(n) \/ response(n) \/ publishThrows(n)

PageSocketStep == connect \/ connectFails \/ onclose \/ onmessage

SharingNext ==
  \/ CircleStep \/ Tick
  \/ (\E code \in Codes : trackCircle(code)) \/ useCircles \/ fetchDetail \/ unwrap \/ circleLoaded
  \/ handleAcceptInvite
  \/ PageSocketStep
  \/ \E t \in tasks : envelopeDecrypted(t)
  \/ startSharing \/ publishOnce \/ stopButton \/ PublishStep
  \/ handleLeave \/ Reload

\* Timers fire, and every stage of publish ends: geolocation, signer and fetch
\* all have a timeout.  The user and other members owe nothing.
SharingFairness ==
  /\ WF_sharingVars(publishOnce)
  /\ \A n \in Session : WF_sharingVars(post(n) \/ response(n))
  /\ WF_sharingVars(connect)

SharingSpec == SharingInit /\ [][SharingNext]_sharingVars /\ SharingFairness

-----------------------------------------------------------------------------
(* Properties *)

\* The key stored for an epoch is the owner's key of that epoch, although
\* get_circle reads the circle row and the wraps apart and a commit may fall
\* between the two (unwrapNip44CircleKey saves at the package's epoch).
KeyIsOwners == \A e \in Epoch : keyOf[e] \in {0, e}

\* A member's position on the map never goes back in time, in whatever order
\* snapshots and broadcasts arrive and their decryptions finish
\* (circleWebSocket.ts, seenRef).
NeverBackInTime ==
  [][\A p \in Peer : shown[p] # 0 /\ shown'[p] # 0 => shown[p] <= shown'[p]]_sharingVars

\* A page that missed the new epoch (its socket was down, and a reconnect does
\* not load the circle) does not go on sharing under the old one: the server
\* refuses the envelope and the publisher stops.
StaleSharingEnds ==
  sharing /\ pubs[interval].epoch # current_epoch ~>
    ~sharing \/ pubs[interval].epoch = current_epoch
=============================================================================
