---------------------------- MODULE OwnerClient ----------------------------
(***************************************************************************)
(* The circle owner's PWA: creating, saving, wrapping and committing epoch *)
(* keys (components/FamilyCircleDashboard.tsx, services/e2eeService.ts,    *)
(* services/identityStore.ts, hooks/useCircles.ts), against a server       *)
(* reduced to what commit_epoch and add_member compare.                    *)
(*                                                                         *)
(* Every await of handleActivateLocation is a step boundary: the same      *)
(* button may be pressed again, the page reloaded, or the request time out *)
(* while the server still works on it.  Keys are numbered as generated.    *)
(***************************************************************************)
EXTENDS Naturals

CONSTANTS
  Attempt,        \* activations that may run side by side
  LastEpoch,      \* bound: epochs explored
  MaxCircleKeys,  \* bound: keys generated
  LastRevision,   \* bound: membership changes
  MaxAbandoned    \* bound: requests whose answer the page never sees

\* What the constants must be.
OwnerParameters ==
  /\ LastEpoch \in Nat \ {0} /\ MaxCircleKeys \in Nat \ {0}
  /\ LastRevision \in Nat /\ MaxAbandoned \in Nat

Epoch == 1..LastEpoch
CircleKey == 1..MaxCircleKeys
NoKey == 0

VARIABLES
  server_epoch,   \* server: current epoch
  server_revision,\* server: membership_revision
  server_protocol,\* server: location_protocol_version
  rekey,        \* server: rekey_required
  committed,    \* server: per epoch, the key in the wraps and in the name
  invited,      \* server: per epoch, the keys wrapped into invitations
  view,         \* page: the circle as loaded and updated
  circle_keys,  \* browser: IndexedDB key per epoch (loadCircleKey)
  vault_keys,   \* browser: encrypted vault key per epoch (loadVaultCircleKey)
  act,          \* page: running activations
  invite,       \* page: running invitation, with the view it closed over
  requests,     \* epoch commits on the way to the server
  replies,      \* answers on the way to the page
  keys,         \* keys generated so far
  abandoned,    \* how often the page gave up on answers
  overlapped    \* history: two activations have run side by side

server == <<server_epoch, server_revision, server_protocol, rekey, committed, invited>>
stores == <<circle_keys, vault_keys, keys, overlapped>>
wire == <<requests, replies, abandoned>>
ownerVars == <<server, view, stores, act, invite, wire>>

View == [epoch : Epoch, rev : 0..LastRevision, protocol : {0, 1}, rekey : BOOLEAN]
ServerView == [epoch |-> server_epoch, rev |-> server_revision,
               protocol |-> server_protocol,
               rekey |-> rekey]
epochReady == view.protocol = 1 /\ ~view.rekey

Request == [next : 2..LastEpoch, rev : 0..LastRevision, name : CircleKey, wrap : CircleKey]
NoActivation == [pc |-> "idle", next |-> 0, rev |-> 0, name |-> NoKey, wrap |-> NoKey]
Created == [epoch |-> 1, rev |-> 0, protocol |-> 0, rekey |-> TRUE]
NoInvite == [pc |-> "idle", seen |-> Created, wrap |-> NoKey]

OwnerTypeOK ==
  /\ server_epoch \in Epoch
  /\ server_revision \in 0..LastRevision
  /\ server_protocol \in {0, 1} /\ rekey \in BOOLEAN
  /\ committed \in [Epoch -> [name : CircleKey \cup {NoKey}, wrap : CircleKey \cup {NoKey}]]
  /\ invited \in [Epoch -> SUBSET CircleKey]
  /\ view \in View /\ view.epoch <= server_epoch /\ view.rev <= server_revision
  /\ invite \in [pc : {"idle", "sent", "orphan", "ok", "refused"}, seen : View,
                 wrap : CircleKey \cup {NoKey}]
  /\ circle_keys \in [Epoch -> CircleKey \cup {NoKey}]
  /\ vault_keys \in [Epoch -> CircleKey \cup {NoKey}]
  /\ act \in [Attempt ->
       [pc : {"idle", "generated", "saved", "vaulted", "wrapped", "waiting"},
        next : 0..LastEpoch, rev : 0..server_revision,
        name : CircleKey \cup {NoKey}, wrap : CircleKey \cup {NoKey}]]
  /\ requests \subseteq Request
  /\ replies \subseteq [name : CircleKey, ok : BOOLEAN]
  /\ keys \in 0..MaxCircleKeys
  /\ abandoned \in 0..MaxAbandoned
  /\ overlapped \in BOOLEAN

\* handleCreate: the circle exists at epoch 1 and its first key is saved.
OwnerInit ==
  /\ server_epoch = 1 /\ server_revision = 0 /\ server_protocol = 0 /\ rekey = TRUE
  /\ committed = [e \in Epoch |-> IF e = 1 THEN [name |-> 1, wrap |-> 1]
                                  ELSE [name |-> NoKey, wrap |-> NoKey]]
  /\ invited = [e \in Epoch |-> {}]
  /\ view = ServerView
  /\ circle_keys = [e \in Epoch |-> IF e = 1 THEN 1 ELSE NoKey]
  /\ vault_keys = [e \in Epoch |-> IF e = 1 THEN 1 ELSE NoKey]
  /\ act = [a \in Attempt |-> NoActivation]
  /\ invite = NoInvite
  /\ requests = {} /\ replies = {}
  /\ keys = 1
  /\ abandoned = 0
  /\ overlapped = FALSE

-----------------------------------------------------------------------------
(* handleActivateLocation *)

\* The epoch and revision are those of the render the button belonged to.
Activate(a) ==
  /\ act[a].pc = "idle"
  /\ ~epochReady
  /\ view.epoch < LastEpoch /\ keys < MaxCircleKeys
  /\ keys' = keys + 1
  /\ act' = [act EXCEPT ![a] = [pc |-> "generated", next |-> view.epoch + 1,
                                rev |-> view.rev, name |-> keys + 1,
                                wrap |-> NoKey]]
  /\ overlapped' = (overlapped \/ \E b \in Attempt : act[b].pc # "idle")
  /\ UNCHANGED <<server, view, circle_keys, vault_keys, invite, wire>>

\* saveCircleKeyWithBackup: the live store first, ...
SaveLive(a) ==
  /\ act[a].pc = "generated"
  /\ circle_keys' = [circle_keys EXCEPT ![act[a].next] = act[a].name]
  /\ act' = [act EXCEPT ![a].pc = "saved"]
  /\ UNCHANGED <<server, view, vault_keys, keys, overlapped, invite, wire>>

\* ... then the vault (upsertCircleKey).
SaveVault(a) ==
  /\ act[a].pc = "saved"
  /\ vault_keys' = [vault_keys EXCEPT ![act[a].next] = act[a].name]
  /\ act' = [act EXCEPT ![a].pc = "vaulted"]
  /\ UNCHANGED <<server, view, circle_keys, keys, overlapped, invite, wire>>

WrapPrevious(e) == vault_keys[IF e = 1 THEN 1 ELSE e - 1]  \* mutant
\* createNip44CircleKeyEvent takes the key from the vault, not from its caller.
WrapKey(e) == vault_keys[e]

Wrap(a) ==
  /\ act[a].pc = "vaulted"
  /\ act' = [act EXCEPT ![a].pc = "wrapped", ![a].wrap = WrapKey(act[a].next)]
  /\ UNCHANGED <<server, view, stores, invite, wire>>

Post(a) ==
  /\ act[a].pc = "wrapped"
  /\ requests' = requests \cup
       {[next |-> act[a].next, rev |-> act[a].rev, name |-> act[a].name,
         wrap |-> act[a].wrap]}
  /\ act' = [act EXCEPT ![a].pc = "waiting"]
  /\ UNCHANGED <<server, view, stores, invite, replies, abandoned>>

\* circleEpochChanged sets epoch and rekey_required; the loaded circle keeps
\* its location_protocol_version.
EpochChanged(e, required) == [view EXCEPT !.epoch = e, !.rekey = required]

Answer(a, r) ==
  /\ act[a].pc = "waiting"
  /\ r.name = act[a].name
  /\ replies' = replies \ {r}
  /\ act' = [act EXCEPT ![a] = NoActivation]
  /\ view' = IF r.ok THEN EpochChanged(act[a].next, FALSE) ELSE view
  /\ UNCHANGED <<server, stores, invite, requests, abandoned>>

\* AbortSignal.timeout or a lost connection: the outcome stays unknown.
TimeOut(a) ==
  /\ act[a].pc = "waiting"
  /\ abandoned < MaxAbandoned
  /\ abandoned' = abandoned + 1
  /\ replies' = {r \in replies : r.name # act[a].name}
  /\ act' = [act EXCEPT ![a] = NoActivation]
  /\ UNCHANGED <<server, view, stores, invite, requests>>

-----------------------------------------------------------------------------
(* handleAddMember *)

\* Needs the epoch's key in both stores and wraps the vault's copy.
InviteSend ==
  /\ invite.pc = "idle"
  /\ circle_keys[view.epoch] # NoKey /\ vault_keys[view.epoch] # NoKey
  /\ invite' = [pc |-> "sent", seen |-> view, wrap |-> WrapKey(view.epoch)]
  /\ UNCHANGED <<server, view, stores, act, wire>>

\* add_member compares the wrap's epoch with the circle's.  An invitation
\* whose page was reloaded is served all the same, and nobody is told.
Served(outcome) ==
  IF invite.pc = "orphan" THEN NoInvite ELSE [invite EXCEPT !.pc = outcome]

ServeInvite ==
  /\ invite.pc \in {"sent", "orphan"}
  /\ IF invite.seen.epoch = server_epoch
     THEN /\ server_revision < LastRevision
          /\ server_revision' = server_revision + 1
          /\ invited' = [invited EXCEPT ![server_epoch] = @ \cup {invite.wrap}]
          /\ invite' = Served("ok")
     ELSE /\ invite' = Served("refused")
          /\ UNCHANGED <<server_revision, invited>>
  /\ UNCHANGED <<server_epoch, server_protocol, rekey, committed, view, stores, act, wire>>

\* On success circleLoaded puts back the circle the handler closed over.
InviteAnswer ==
  /\ invite.pc \in {"ok", "refused"}
  /\ view' = IF invite.pc = "ok" THEN invite.seen ELSE view
  /\ invite' = NoInvite
  /\ UNCHANGED <<server, stores, act, wire>>

-----------------------------------------------------------------------------
(* The server and the page around these handlers *)

CommitAnyEpoch(r) == r.rev = server_revision  \* mutant
\* commit_epoch's comparisons.
Acceptable(r) == r.rev = server_revision /\ r.next = server_epoch + 1

ServeCommit(r) ==
  /\ requests' = requests \ {r}
  /\ replies' = IF \E a \in Attempt : act[a].pc = "waiting" /\ act[a].name = r.name
                THEN replies \cup {[name |-> r.name, ok |-> Acceptable(r)]}
                ELSE replies
  /\ IF Acceptable(r)
     THEN /\ server_epoch' = r.next
          /\ server_protocol' = 1 /\ rekey' = FALSE
          /\ committed' = [committed EXCEPT ![r.next] =
                             [name |-> r.name, wrap |-> r.wrap]]
     ELSE UNCHANGED <<server_epoch, server_protocol, rekey, committed>>
  /\ UNCHANGED <<server_revision, invited, view, stores, act, invite, abandoned>>

\* An invitee accepts, or a member leaves.
MemberChange(leaves) ==
  /\ server_revision < LastRevision
  /\ server_revision' = server_revision + 1
  /\ rekey' = (rekey \/ leaves)
  /\ UNCHANGED <<server_epoch, server_protocol, committed, invited, view, stores, act,
                 invite, wire>>

\* CIRCLE_EPOCH_CHANGED arrives over the circle's socket.
HearEpoch ==
  /\ <<view.epoch, view.rekey>> # <<server_epoch, rekey>>
  /\ view' = EpochChanged(server_epoch, rekey)
  /\ UNCHANGED <<server, stores, act, invite, wire>>

\* The page is reloaded: running handlers are gone, the circle is fetched
\* again (useCircles); the key stores are left as they are.
Waiting == {a \in Attempt : act[a].pc = "waiting"}
ReloadPage ==
  /\ IF Waiting = {} THEN UNCHANGED abandoned
     ELSE abandoned < MaxAbandoned /\ abandoned' = abandoned + 1
  /\ view' = ServerView
  /\ act' = [a \in Attempt |-> NoActivation]
  /\ invite' = IF invite.pc \in {"sent", "orphan"}
               THEN [invite EXCEPT !.pc = "orphan"] ELSE NoInvite
  /\ replies' = {}
  /\ UNCHANGED <<server, stores, requests>>

ActivationStep ==
  \E a \in Attempt : \/ Activate(a)
                     \/ SaveLive(a)
                     \/ SaveVault(a)
                     \/ Wrap(a)
                     \/ Post(a)
                     \/ \E r \in replies : Answer(a, r)
                     \/ TimeOut(a)

OwnerNext ==
  \/ ActivationStep
  \/ InviteSend \/ ServeInvite \/ InviteAnswer
  \/ \E r \in requests : ServeCommit(r)
  \/ \E leaves \in BOOLEAN : MemberChange(leaves)
  \/ HearEpoch
  \/ ReloadPage

OwnerSpec == OwnerInit /\ [][OwnerNext]_ownerVars

-----------------------------------------------------------------------------
(* Properties *)

\* As long as activations run one at a time and every answer is seen, owner,
\* members and invitees hold one and the same key for the circle's
\* epoch: the owner's two copies, the key inside the committed wraps, the key
\* the name and labels are encrypted with and every invitation's key agree
\* (rotateCircleKey saves before it commits; handleAddMember wraps from the
\* vault).
OneKeyPerEpoch ==
  abandoned = 0 /\ ~overlapped =>
    LET k == committed[server_epoch].wrap IN
    /\ circle_keys[server_epoch] = k
    /\ vault_keys[server_epoch] = k
    /\ committed[server_epoch].name = k
    /\ invited[server_epoch] \subseteq {k}

\* What an epoch was committed with never changes: a request that was given up
\* on and arrives after its retry is refused (commit_epoch wants the next epoch
\* exactly).
CommittedKeyIsFinal ==
  [][\A e \in Epoch : committed[e].wrap # NoKey =>
                       committed'[e] = committed[e]]_ownerVars
=============================================================================
