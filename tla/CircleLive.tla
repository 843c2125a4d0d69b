----------------------------- MODULE CircleLive -----------------------------
(***************************************************************************)
(* Circles together with its live side: the per-circle broadcast channel   *)
(* (ws/circle_hub.rs), one WebSocket per participant (ws/mod.rs,           *)
(* handle_circle_ws) and what each PWA believes about the epoch            *)
(* (services/circleWebSocket.ts, store/circlesSlice.ts, hooks/             *)
(* useCircles.ts).                                                         *)
(*                                                                         *)
(* A socket checks membership, then subscribes: two steps.  A receiver     *)
(* that falls more than Capacity messages behind is told so (Lagged) and   *)
(* subscribes afresh, losing what it had not read.                         *)
(***************************************************************************)
EXTENDS Circles, Sequences

CONSTANT Capacity  \* circle_hub.rs: CHANNEL_CAPACITY = 64

ASSUME CapacityAssumption == Capacity \in Nat \ {0}

VARIABLES
  sock,     \* "closed", "checked" (joined, not subscribed), "live", "lagged"
  queue,    \* messages the socket's receiver has not read
  view,     \* the PWA's key_epoch and rekey_required, epoch 0 before a load
  since,    \* history: epoch, rekey and revision when the socket subscribed
  removed   \* history: revision of a member's latest removal, 0 for none

live == <<sock, queue, view, since, removed>>

TypeOKLive ==
  /\ TypeOK
  /\ sock \in [Member -> {"closed", "checked", "live", "lagged"}]
  /\ \A m \in Member : /\ queue[m] \in Seq(Message)
                       /\ Len(queue[m]) <= Capacity
                       /\ sock[m] # "live" => queue[m] = <<>>
  /\ view \in [Member -> [epoch : 0..key_epoch, rekey : BOOLEAN]]
  /\ since \in [Member -> [epoch : 0..key_epoch, rekey : BOOLEAN, rev : 0..revision]]
  /\ removed \in [Member -> 0..revision]

InitLive ==
  /\ sock = [m \in Member |-> "closed"]
  /\ queue = [m \in Member |-> <<>>]
  /\ view = [m \in Member |-> [epoch |-> 0, rekey |-> TRUE]]
  /\ since = [m \in Member |-> [epoch |-> 0, rekey |-> TRUE, rev |-> 0]]
  /\ removed = [m \in Member |-> 0]

-----------------------------------------------------------------------------
(* Server side of a socket *)

\* handle_circle_ws up to its membership query.
JoinCheck(m) ==
  /\ sock[m] = "closed"
  /\ m \in Active
  /\ sock' = [sock EXCEPT ![m] = "checked"]
  /\ UNCHANGED <<vars, queue, view, since, removed>>

\* CircleHub::subscribe, after the join and after Lagged: membership is not
\* looked at again (it only decides whether a snapshot is sent).
Subscribe(m) ==
  /\ sock[m] \in {"checked", "lagged"}
  /\ sock' = [sock EXCEPT ![m] = "live"]
  /\ since' = [since EXCEPT ![m] = [epoch |-> key_epoch, rekey |-> rekey_required,
                                    rev |-> revision]]
  /\ UNCHANGED <<vars, queue, view, removed>>

\* A receiver that is Capacity behind loses the channel's oldest message and
\* its next recv returns Lagged, so its whole backlog is already lost.
Overrun(m) == sock[m] = "live" /\ Len(queue[m]) = Capacity

\* broadcast::Sender::send, reaching every subscribed receiver.
Deliver(u) ==
  /\ sock' = [m \in Member |-> IF Overrun(m) THEN "lagged" ELSE sock[m]]
  /\ queue' = [m \in Member |->
                 IF sock[m] = "live" /\ ~Overrun(m) THEN Append(queue[m], u)
                                                    ELSE <<>>]
  /\ UNCHANGED <<view, since, removed>>

ForwardsRemoval(m, u) == FALSE  \* mutant
\* The socket's own removal closes it with code 4003 and is not forwarded.
ClosesSocket(m, u) == u.type = "MEMBER_REMOVED" /\ u.token = m

-----------------------------------------------------------------------------
(* Client side *)

KeepRekey(v, u) ==  \* mutant: rekey_required is not taken over
  IF u.type \in {"EPOCH", "REKEY"} THEN [v EXCEPT !.epoch = u.epoch] ELSE v

\* circleEpochChanged: the last message to arrive wins.
EpochChanged(v, u) ==
  IF u.type \in {"EPOCH", "REKEY"}
  THEN [epoch |-> u.epoch, rekey |-> u.type = "REKEY"]
  ELSE v

\* The socket loop forwards one message and the PWA applies it.
Receive(m) ==
  /\ sock[m] = "live"
  /\ queue[m] # <<>>
  /\ LET u == Head(queue[m]) IN
       IF ClosesSocket(m, u)
       THEN /\ sock' = [sock EXCEPT ![m] = "closed"]
            /\ queue' = [queue EXCEPT ![m] = <<>>]
            /\ UNCHANGED view
       ELSE /\ queue' = [queue EXCEPT ![m] = Tail(@)]
            /\ view' = [view EXCEPT ![m] = EpochChanged(@, u)]
            /\ UNCHANGED sock
  /\ UNCHANGED <<vars, since, removed>>

\* The connection drops; the PWA reconnects without reloading the circle.
Disconnect(m) ==
  /\ sock[m] # "closed"
  /\ sock' = [sock EXCEPT ![m] = "closed"]
  /\ queue' = [queue EXCEPT ![m] = <<>>]
  /\ UNCHANGED <<vars, view, since, removed>>

\* useCircles: get_circle before the socket is opened.
LoadCircle(m) ==
  /\ sock[m] = "closed"
  /\ m \in Rows
  /\ view' = [view EXCEPT ![m] = [epoch |-> key_epoch, rekey |-> rekey_required]]
  /\ UNCHANGED <<vars, sock, queue, since, removed>>

-----------------------------------------------------------------------------
\* A database step of Circles; a removal is noted in the history.
ServerStep ==
  /\ MemberStep \/ EpochStep \/ EnvelopeStep
  /\ removed' = [m \in Member |-> IF exists' /\ m \in Rows /\ mstate'[m] = "NONE"
                                  THEN revision' ELSE removed[m]]
  /\ UNCHANGED <<sock, queue, view, since>>

BroadcastStep == \E u \in unsent : Broadcast(u) /\ Deliver(u)

SocketStep ==
  \E m \in Member : \/ JoinCheck(m)
                    \/ Subscribe(m)
                    \/ Receive(m)
                    \/ Disconnect(m)
                    \/ LoadCircle(m)

NextLive == ServerStep \/ BroadcastStep \/ SocketStep

\* A handler that has committed goes on to its broadcast without waiting, and
\* a socket task with unread messages is scheduled.
Fairness ==
  /\ WF_<<vars, live>>(BroadcastStep)
  /\ \A m \in Member : WF_<<vars, live>>(Receive(m))

SpecLive == Init /\ InitLive /\ [][NextLive]_<<vars, live>> /\ Fairness

-----------------------------------------------------------------------------
(* Properties *)

\* A socket that was subscribed when its member was removed.
Doomed(m) == sock[m] = "live" /\ exists /\ m \notin Rows /\ since[m].rev < removed[m]

\* Such a socket goes away, whatever else is broadcast around the removal:
\* handle_circle_ws closes it with 4003, or the receiver lagged or the
\* connection dropped before.
RemovedSocketCloses == \A m \in Member : Doomed(m) ~> sock[m] # "live"

\* m's receiver has read everything there is.
Drained(m) == sock[m] = "live" /\ queue[m] = <<>> /\ unsent = {} /\ exists

\* A PWA that has read everything since its socket subscribed knows the epoch
\* and whether a rekey is required, if either changed since.
DrainedViewIsCurrent ==
  \A m \in Member :
    /\ Drained(m)
    /\ [epoch |-> key_epoch, rekey |-> rekey_required] #
         [epoch |-> since[m].epoch, rekey |-> since[m].rekey]
    => view[m] = [epoch |-> key_epoch, rekey |-> rekey_required]

\* ws/mod.rs: a CIRCLE_MEMBER_REMOVED broadcast is matched "so a removed
\* member's live socket is force-closed": no drained socket belongs to someone
\* without a member row.
RemovedSocketIsClosed == \A m \in Member : Drained(m) => m \in Rows
=============================================================================
