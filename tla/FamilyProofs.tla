---------------------------- MODULE FamilyProofs ----------------------------
(*************************************************************************)
(* Proofs about the devices of a family: the page of the owner that      *)
(* rotates the key of a circle (OwnerClient), and the vault of a browser *)
(* with several tabs (Vault).                                            *)
(*************************************************************************)
EXTENDS OwnerClient, Vault, TLAPS

-----------------------------------------------------------------------------
(* The inductive invariant *)

Busy(a) == act[a].pc # "idle"

\* A key's number names one activation, its request and its reply.
Named ==
  /\ \A a \in Attempt : Busy(a) => act[a].name \in 1 .. keys /\ act[a].next >= 2
  /\ \A a, b \in Attempt : Busy(a) /\ Busy(b) /\ act[a].name = act[b].name => a = b
  /\ \A r \in requests :
       /\ r.name <= keys
       /\ \A a \in Attempt : Busy(a) /\ act[a].name = r.name
                               => act[a].pc = "waiting" /\ act[a].next = r.next
  /\ \A r \in replies :
       /\ r.name <= keys
       /\ \A a \in Attempt : Busy(a) /\ act[a].name = r.name
                               => act[a].pc = "waiting" /\ (r.ok => act[a].next <= server_epoch)

\* A key is in the vault before it is wrapped.
Wrapped ==
  /\ \A a \in Attempt : /\ act[a].pc = "vaulted" => vault_keys[act[a].next] # NoKey
                        /\ act[a].pc \in {"wrapped", "waiting"} => act[a].wrap # NoKey
  /\ invite.pc \in {"sent", "orphan"} => invite.wrap # NoKey

\* Nothing the page holds is ahead of the server, and once an invitation has
\* been served every activation of the page that sent it is out of date.
Behind ==
  /\ invite.seen.epoch <= server_epoch /\ invite.seen.rev <= server_revision
  /\ \A r \in requests : r.rev <= server_revision
  /\ invite.pc = "ok" =>
       /\ invite.seen.epoch = server_epoch /\ view.rev < server_revision
       /\ \A a \in Attempt : Busy(a) => act[a].rev < server_revision
       /\ \A r \in requests : r.rev < server_revision
  /\ \A e \in Epoch : e > server_epoch => committed[e].wrap = NoKey /\ invited[e] = {}

\* The copies of an activation's key that its steps so far have made.
Copies(x, l, v) ==
  /\ x.pc \in {"saved", "vaulted", "wrapped", "waiting"} => l[x.next] = x.name
  /\ x.pc \in {"vaulted", "wrapped", "waiting"} => v[x.next] = x.name
  /\ x.pc \in {"wrapped", "waiting"} => x.wrap = x.name

RequestOf(x) == [next |-> x.next, rev |-> x.rev, name |-> x.name, wrap |-> x.wrap]

Undisturbed == abandoned = 0 /\ ~overlapped

\* One activation at a time: the request and the reply on the wire are its own,
\* and it works on the epoch after the server's until the server has taken it.
Solo ==
  /\ \A a, b \in Attempt : Busy(a) /\ Busy(b) => a = b
  /\ \A r \in requests : \E a \in Attempt : act[a].pc = "waiting" /\ r = RequestOf(act[a])
  /\ \A r \in replies : \E a \in Attempt : act[a].pc = "waiting" /\ r.name = act[a].name
  /\ requests = {} \/ replies = {}
  /\ \A r, q \in replies : r = q
  /\ \A a \in Attempt : Busy(a) =>
       /\ Copies(act[a], circle_keys, vault_keys)
       /\ \/ act[a].next = server_epoch + 1
          \/ requests = {} /\ act[a].next = server_epoch /\ \E r \in replies : r.ok
  /\ view.epoch = server_epoch \/ \E r \in replies : r.ok
  /\ invite.pc \in {"sent", "orphan"} /\ invite.seen.epoch = server_epoch
       => invite.wrap = committed[server_epoch].wrap

\* OneKeyPerEpoch while nothing has disturbed it.
Agreed ==
  /\ circle_keys[server_epoch] = committed[server_epoch].wrap
  /\ vault_keys[server_epoch] = committed[server_epoch].wrap
  /\ committed[server_epoch].name = committed[server_epoch].wrap
  /\ invited[server_epoch] \subseteq {committed[server_epoch].wrap}

IInv == OwnerTypeOK /\ Named /\ Wrapped /\ Behind /\ (Undisturbed => Solo /\ Agreed)

-----------------------------------------------------------------------------
(* Facts *)

Act(rv) == [pc : {"idle", "generated", "saved", "vaulted", "wrapped", "waiting"},
            next : 0..LastEpoch, rev : 0..rv,
            name : CircleKey \cup {NoKey}, wrap : CircleKey \cup {NoKey}]

\* The numbers are numbers.
LEMMA Numbers ==
  ASSUME OwnerParameters, OwnerTypeOK
  PROVE  /\ LastEpoch \in Nat /\ MaxCircleKeys \in Nat /\ LastRevision \in Nat /\ MaxAbandoned \in Nat
         /\ server_epoch \in Nat /\ server_epoch >= 1 /\ server_epoch <= LastEpoch
         /\ server_revision \in Nat /\ server_revision <= LastRevision /\ keys \in Nat /\ keys <= MaxCircleKeys
         /\ abandoned \in Nat /\ NoKey = 0 /\ NoKey \notin CircleKey
         /\ act \in [Attempt -> Act(server_revision)]
BY DEF OwnerParameters, OwnerTypeOK, Epoch, CircleKey, NoKey, Act

\* What lies between zero and a number.
LEMMA UpTo ==
  ASSUME NEW m \in Nat, NEW n \in 0 .. m
  PROVE  n \in Nat /\ n <= m
OBVIOUS

\* The fields of an activation.
LEMMA Fields ==
  ASSUME OwnerParameters, OwnerTypeOK, NEW a \in Attempt
  PROVE  /\ act[a].pc \in {"idle", "generated", "saved", "vaulted", "wrapped", "waiting"}
         /\ act[a].next \in 0 .. LastEpoch /\ act[a].rev \in 0 .. server_revision
         /\ act[a].name \in CircleKey \cup {NoKey} /\ act[a].wrap \in CircleKey \cup {NoKey}
BY Zenon, Numbers DEF Act

At(x, p, w) == [pc |-> p, next |-> x.next, rev |-> x.rev, name |-> x.name, wrap |-> w]

\* One activation moves on by one statement.
LEMMA OneMoves ==
  ASSUME OwnerParameters, OwnerTypeOK, NEW a \in Attempt, NEW x \in Act(server_revision),
         act' = [act EXCEPT ![a] = x]
  PROVE  /\ act' \in [Attempt -> Act(server_revision)] /\ act'[a] = x
         /\ \A b \in Attempt : b # a => act'[b] = act[b]
BY Zenon, Numbers

\* The wrapped key and the place in the code are all that changes.
LEMMA AtFact ==
  ASSUME OwnerParameters, OwnerTypeOK, NEW a \in Attempt, NEW w \in CircleKey \cup {NoKey},
         NEW p \in {"idle", "generated", "saved", "vaulted", "wrapped", "waiting"}
  PROVE  /\ At(act[a], p, w) \in Act(server_revision) /\ At(act[a], p, w).pc = p
         /\ At(act[a], p, w).next = act[a].next /\ At(act[a], p, w).rev = act[a].rev
         /\ At(act[a], p, w).name = act[a].name /\ At(act[a], p, w).wrap = w
BY Zenon, Fields DEF At, Act

\* An update of the place in the code only.
LEMMA MovesTo ==
  ASSUME OwnerParameters, OwnerTypeOK, NEW a \in Attempt, NEW p, act' = [act EXCEPT ![a].pc = p]
  PROVE  act' = [act EXCEPT ![a] = At(act[a], p, act[a].wrap)]
<1>1. act[a] \in Act(server_revision)
  BY Zenon, Numbers
<1>2. [act[a] EXCEPT !.pc = p] = At(act[a], p, act[a].wrap)
  BY <1>1 DEF Act, At
<1> QED BY Zenon, <1>2

-----------------------------------------------------------------------------
(* The actions *)

\* The button is pressed: a key nobody has, for the epoch after the one shown.
LEMMA ActivateStep ==
  ASSUME OwnerParameters, IInv, NEW a \in Attempt, Activate(a)
  PROVE  IInv'
<1> DEFINE x == [pc |-> "generated", next |-> view.epoch + 1, rev |-> view.rev,
                 name |-> keys + 1, wrap |-> NoKey]
<1>1. /\ UNCHANGED <<server_epoch, server_revision, server_protocol, rekey, committed, invited, view, circle_keys, vault_keys,
                     invite, requests, replies, abandoned>>
      /\ act' = [act EXCEPT ![a] = x] /\ keys' = keys + 1 /\ keys < MaxCircleKeys
      /\ view.epoch < LastEpoch /\ act[a].pc = "idle"
      /\ overlapped' = (overlapped \/ \E b \in Attempt : act[b].pc # "idle")
  BY Zenon DEF Activate, server, wire
<1>2. OwnerTypeOK /\ Named /\ Wrapped /\ Behind
  BY Zenon DEF IInv
<1>3. /\ view.epoch \in Nat /\ view.epoch >= 1 /\ view.epoch <= LastEpoch
      /\ view.rev \in Nat /\ view.rev <= server_revision
  BY <1>2, Numbers DEF OwnerTypeOK, View, Epoch
<1>4. x \in Act(server_revision)
  BY <1>1, <1>2, <1>3, Numbers DEF Act, CircleKey
<1>5. x.pc = "generated" /\ x.next = view.epoch + 1 /\ x.rev = view.rev /\ x.name = keys + 1
  BY Zenon 
<1> HIDE DEF x
<1>6. /\ act' \in [Attempt -> Act(server_revision)] /\ act'[a] = x
      /\ \A b \in Attempt : b # a => act'[b] = act[b]
  BY Zenon, <1>1, <1>2, <1>4, OneMoves
<1>7. OwnerTypeOK'
  <2>1. keys' \in 0 .. MaxCircleKeys /\ overlapped' \in BOOLEAN
    BY <1>1, <1>2, Numbers DEF OwnerTypeOK
  <2> QED BY Zenon, <1>1, <1>2, <1>6, <2>1 DEF OwnerTypeOK, Act
<1>8. Named'
  <2>1. \A b \in Attempt : Busy(b)' => act'[b].name \in 1 .. keys' /\ act'[b].next >= 2
    BY <1>1, <1>2, <1>3, <1>5, <1>6, Numbers DEF Named, Busy
  <2>2. \A b, c \in Attempt : Busy(b)' /\ Busy(c)' /\ act'[b].name = act'[c].name => b = c
    BY <1>1, <1>2, <1>5, <1>6, Numbers DEF Named, Busy
  <2>3. \A r \in requests : r.name \in Nat /\ r.name <= keys
    BY <1>2, Numbers DEF Named, OwnerTypeOK, Request, CircleKey
  <2>4. \A r \in replies : r.name \in Nat /\ r.name <= keys
    BY <1>2, Numbers DEF Named, OwnerTypeOK, CircleKey
  <2>5. \A r \in requests' :
          /\ r.name <= keys'
          /\ \A b \in Attempt : Busy(b)' /\ act'[b].name = r.name
                                  => act'[b].pc = "waiting" /\ act'[b].next = r.next
    BY <1>1, <1>2, <1>5, <1>6, <2>3, Numbers DEF Named, Busy
  <2>6. \A r \in replies' :
          /\ r.name <= keys'
          /\ \A b \in Attempt : Busy(b)' /\ act'[b].name = r.name
                                  => act'[b].pc = "waiting" /\ (r.ok => act'[b].next <= server_epoch')
    BY <1>1, <1>2, <1>5, <1>6, <2>4, Numbers DEF Named, Busy
  <2> QED BY Zenon, <2>1, <2>2, <2>5, <2>6 DEF Named, Busy
<1>9. Wrapped'
  BY Zenon, <1>1, <1>2, <1>5, <1>6 DEF Wrapped
<1>10. Behind'
  BY Zenon, <1>1, <1>2, <1>5, <1>6 DEF Behind, Busy
<1>11. ASSUME Undisturbed' PROVE (Solo /\ Agreed)'
  <2>1. Undisturbed /\ \A b \in Attempt : ~Busy(b)
    BY Zenon, <1>1, <1>11 DEF Undisturbed, Busy
  <2>2. Solo /\ Agreed
    BY Zenon, <2>1 DEF IInv
  <2>3. requests = {} /\ replies = {} /\ view.epoch = server_epoch
    BY Zenon, <2>1, <2>2 DEF Solo, Busy
  <2>4. Agreed'
    BY Zenon, <1>1, <2>2 DEF Agreed
  <2>5. \A b \in Attempt : Busy(b)' => b = a
    BY Zenon, <1>6, <2>1 DEF Busy
  <2>6. Copies(act'[a], circle_keys', vault_keys') /\ act'[a].next = server_epoch' + 1
    BY Zenon, <1>1, <1>5, <1>6, <2>3 DEF Copies
  <2>7. /\ requests' = {} /\ replies' = {} /\ view'.epoch = server_epoch'
        /\ invite'.pc \in {"sent", "orphan"} /\ invite'.seen.epoch = server_epoch'
             => invite'.wrap = committed'[server_epoch'].wrap
    BY Zenon, <1>1, <2>2, <2>3 DEF Solo
  <2> QED BY Zenon, <2>4, <2>5, <2>6, <2>7 DEF Solo, Busy
<1> QED BY Zenon, <1>7, <1>8, <1>9, <1>10, <1>11 DEF IInv

\* A statement of an activation that has not posted: what it leaves alone, and
\* what is left to show.
LEMMA MoveStep ==
  ASSUME OwnerParameters, IInv, NEW a \in Attempt, act[a].pc \in {"generated", "saved", "vaulted"},
         NEW p \in {"saved", "vaulted", "wrapped"}, NEW w \in CircleKey \cup {NoKey},
         act' = [act EXCEPT ![a] = At(act[a], p, w)],
         UNCHANGED <<server_epoch, server_revision, server_protocol, rekey, committed, invited, view, keys,
                     overlapped, invite, requests, replies, abandoned>>,
         circle_keys' \in [Epoch -> CircleKey \cup {NoKey}], vault_keys' \in [Epoch -> CircleKey \cup {NoKey}],
         \A e \in Epoch : e # act[a].next => circle_keys'[e] = circle_keys[e] /\ vault_keys'[e] = vault_keys[e],
         \A e \in Epoch : vault_keys[e] # NoKey => vault_keys'[e] # NoKey,
         p = "vaulted" => vault_keys'[act[a].next] # NoKey,
         p = "wrapped" => w # NoKey,
         Undisturbed /\ Copies(act[a], circle_keys, vault_keys) => Copies(At(act[a], p, w), circle_keys', vault_keys')
  PROVE  IInv'
<1> DEFINE x == At(act[a], p, w)
<1>1. OwnerTypeOK /\ Named /\ Wrapped /\ Behind
  BY Zenon DEF IInv
<1>2. /\ x \in Act(server_revision) /\ x.pc = p /\ x.next = act[a].next /\ x.rev = act[a].rev
      /\ x.name = act[a].name /\ x.wrap = w
  <2>1. act[a] \in Act(server_revision) /\ p \in {"saved", "vaulted", "wrapped"}
    BY Zenon, <1>1, Numbers
  <2>2. x \in Act(server_revision)
    BY Zenon, <2>1 DEF At, Act
  <2> QED BY Zenon, <2>2 DEF At
<1> HIDE DEF x
<1>3. /\ act' \in [Attempt -> Act(server_revision)] /\ act'[a] = x
      /\ \A b \in Attempt : b # a => act'[b] = act[b]
  BY Zenon, <1>1, <1>2, OneMoves DEF x
<1>4. Busy(a) /\ \A b \in Attempt : Busy(b)' <=> Busy(b)
  BY Zenon, <1>2, <1>3 DEF Busy
<1>5. OwnerTypeOK'
  BY Zenon, <1>1, <1>3 DEF OwnerTypeOK, Act
<1>6. Named'
  <2>1. \A b \in Attempt : act'[b].name = act[b].name /\ act'[b].next = act[b].next
    BY Zenon, <1>2, <1>3
  <2>2. \A b \in Attempt : act[b].pc = "waiting" => act'[b].pc = "waiting"
    BY Zenon, <1>3
  <2> QED BY <1>1, <1>4, <2>1, <2>2 DEF Named, Busy
<1>7. Wrapped'
  <2>1. \A b \in Attempt : Busy(b) => act[b].next \in Epoch
    BY <1>1, Fields, Numbers DEF Named, Epoch
  <2>2. \A b \in Attempt : /\ act'[b].pc = "vaulted" => vault_keys'[act'[b].next] # NoKey
                           /\ act'[b].pc \in {"wrapped", "waiting"} => act'[b].wrap # NoKey
    BY Zenon, <1>1, <1>2, <1>3, <2>1 DEF Wrapped, Busy
  <2> QED BY Zenon, <1>1, <2>2 DEF Wrapped
<1>8. Behind'
  BY Zenon, <1>1, <1>2, <1>3, <1>4 DEF Behind, Busy
<1>9. ASSUME Undisturbed' PROVE (Solo /\ Agreed)'
  <2>1. Undisturbed /\ Solo /\ Agreed
    BY Zenon, <1>9 DEF Undisturbed, IInv
  <2>2. act[a].next = server_epoch + 1 /\ Copies(act[a], circle_keys, vault_keys)
    BY Zenon, <1>4, <2>1 DEF Solo, Busy, Copies
  <2>3. \A b \in Attempt : Busy(b) => b = a
    BY Zenon, <1>4, <2>1 DEF Solo
  <2>4. requests = {} /\ replies = {} /\ view.epoch = server_epoch
    <3>1. \A b \in Attempt : act[b].pc # "waiting"
      BY Zenon, <2>3 DEF Busy
    <3> QED BY <2>1, <3>1 DEF Solo
  <2>5. Agreed'
    <3>1. server_epoch \in Epoch /\ server_epoch # act[a].next
      BY <1>1, <2>2, Numbers DEF OwnerTypeOK
    <3> QED BY Zenon, <2>1, <3>1 DEF Agreed
  <2>6. Copies(act'[a], circle_keys', vault_keys') /\ act'[a].next = server_epoch' + 1
    BY Zenon, <1>2, <1>3, <2>1, <2>2 DEF x
  <2>7. /\ requests' = {} /\ replies' = {} /\ view'.epoch = server_epoch'
        /\ invite'.pc \in {"sent", "orphan"} /\ invite'.seen.epoch = server_epoch'
             => invite'.wrap = committed'[server_epoch'].wrap
    BY Zenon, <2>1, <2>4 DEF Solo
  <2>8. \A b \in Attempt : Busy(b)' => b = a
    BY Zenon, <1>4, <2>3
  <2> QED BY Zenon, <2>5, <2>6, <2>7, <2>8 DEF Solo, Busy
<1> QED BY Zenon, <1>5, <1>6, <1>7, <1>8, <1>9 DEF IInv

\* The next epoch of an activation is one of the circle's epochs, its key a key.
LEMMA BusyFields ==
  ASSUME OwnerParameters, IInv, NEW a \in Attempt, Busy(a)
  PROVE  act[a].next \in Epoch /\ act[a].next \in 2 .. LastEpoch /\ act[a].name \in CircleKey
<1>1. OwnerTypeOK /\ Named
  BY Zenon DEF IInv
<1>2. act[a].next \in 0 .. LastEpoch /\ act[a].next >= 2 /\ act[a].name \in 1 .. keys
  BY Zenon, <1>1, Fields DEF Named
<1> QED BY <1>1, <1>2, Numbers DEF Epoch, CircleKey

\* saveCircleKeyWithBackup, the live store.
LEMMA SaveLiveStep ==
  ASSUME OwnerParameters, IInv, NEW a \in Attempt, SaveLive(a)
  PROVE  IInv'
<1>1. /\ UNCHANGED <<server_epoch, server_revision, server_protocol, rekey, committed, invited, view, keys, vault_keys,
                     overlapped, invite, requests, replies, abandoned>>
      /\ act' = [act EXCEPT ![a].pc = "saved"] /\ act[a].pc = "generated"
      /\ circle_keys' = [circle_keys EXCEPT ![act[a].next] = act[a].name]
  BY Zenon DEF SaveLive, server, wire
<1>2. OwnerTypeOK /\ Busy(a)
  BY Zenon, <1>1 DEF IInv, Busy
<1>3. act' = [act EXCEPT ![a] = At(act[a], "saved", act[a].wrap)]
  BY Zenon, <1>1, <1>2, MovesTo
<1>4. act[a].next \in Epoch /\ act[a].name \in CircleKey /\ act[a].wrap \in CircleKey \cup {NoKey}
  BY Zenon, <1>2, BusyFields, Fields
<1>5. circle_keys \in [Epoch -> CircleKey \cup {NoKey}] /\ vault_keys' \in [Epoch -> CircleKey \cup {NoKey}]
  BY Zenon, <1>1, <1>2 DEF OwnerTypeOK
<1>6. /\ circle_keys' \in [Epoch -> CircleKey \cup {NoKey}] /\ circle_keys'[act[a].next] = act[a].name
      /\ \A e \in Epoch : e # act[a].next => circle_keys'[e] = circle_keys[e]
  BY Zenon, <1>1, <1>4, <1>5
<1>7. Copies(At(act[a], "saved", act[a].wrap), circle_keys', vault_keys')
  BY Zenon, <1>6 DEF Copies, At
<1> QED BY Zenon, <1>1, <1>3, <1>4, <1>5, <1>6, <1>7, MoveStep

\* saveCircleKeyWithBackup, the vault.
LEMMA SaveVaultStep ==
  ASSUME OwnerParameters, IInv, NEW a \in Attempt, SaveVault(a)
  PROVE  IInv'
<1>1. /\ UNCHANGED <<server_epoch, server_revision, server_protocol, rekey, committed, invited, view, keys, circle_keys,
                     overlapped, invite, requests, replies, abandoned>>
      /\ act' = [act EXCEPT ![a].pc = "vaulted"] /\ act[a].pc = "saved"
      /\ vault_keys' = [vault_keys EXCEPT ![act[a].next] = act[a].name]
  BY Zenon DEF SaveVault, server, wire
<1>2. OwnerTypeOK /\ Busy(a)
  BY Zenon, <1>1 DEF IInv, Busy
<1>3. act' = [act EXCEPT ![a] = At(act[a], "vaulted", act[a].wrap)]
  BY Zenon, <1>1, <1>2, MovesTo
<1>4. /\ act[a].next \in Epoch /\ act[a].name \in CircleKey /\ act[a].wrap \in CircleKey \cup {NoKey}
      /\ act[a].name # NoKey
  BY Zenon, <1>2, BusyFields, Fields, Numbers
<1>5. vault_keys \in [Epoch -> CircleKey \cup {NoKey}] /\ circle_keys' \in [Epoch -> CircleKey \cup {NoKey}]
  BY Zenon, <1>1, <1>2 DEF OwnerTypeOK
<1>6. /\ vault_keys' \in [Epoch -> CircleKey \cup {NoKey}] /\ vault_keys'[act[a].next] = act[a].name
      /\ \A e \in Epoch : e # act[a].next => vault_keys'[e] = vault_keys[e]
  BY Zenon, <1>1, <1>4, <1>5
<1>7. ASSUME Copies(act[a], circle_keys, vault_keys)
      PROVE  Copies(At(act[a], "vaulted", act[a].wrap), circle_keys', vault_keys')
  BY Zenon, <1>1, <1>6, <1>7 DEF Copies, At
<1>8. \A e \in Epoch : vault_keys[e] # NoKey => vault_keys'[e] # NoKey
  BY Zenon, <1>4, <1>6
<1> QED BY Zenon, <1>1, <1>3, <1>4, <1>5, <1>6, <1>7, <1>8, MoveStep

\* createNip44CircleKeyEvent.
LEMMA WrapStep ==
  ASSUME OwnerParameters, IInv, NEW a \in Attempt, Wrap(a)
  PROVE  IInv'
<1> DEFINE w == vault_keys[act[a].next]
<1>1. /\ UNCHANGED <<server_epoch, server_revision, server_protocol, rekey, committed, invited, view, keys, circle_keys,
                     vault_keys, overlapped, invite, requests, replies, abandoned>>
      /\ act' = [act EXCEPT ![a].pc = "wrapped", ![a].wrap = w] /\ act[a].pc = "vaulted"
  BY Zenon DEF Wrap, WrapKey, server, wire, stores
<1>2. OwnerTypeOK /\ Wrapped /\ Busy(a)
  BY Zenon, <1>1 DEF IInv, Busy
<1> HIDE DEF w
<1>3. act' = [act EXCEPT ![a] = At(act[a], "wrapped", w)]
  <2>1. act[a] \in Act(server_revision) /\ act \in [Attempt -> Act(server_revision)]
    BY Zenon, <1>2, Numbers
  <2>2. [act[a] EXCEPT !.pc = "wrapped"] = At(act[a], "wrapped", act[a].wrap)
    BY <2>1 DEF Act, At
  <2>3. [At(act[a], "wrapped", act[a].wrap) EXCEPT !.wrap = w] = At(act[a], "wrapped", w)
    BY DEF At
  <2>4. act' = [[act EXCEPT ![a] = At(act[a], "wrapped", act[a].wrap)]
                  EXCEPT ![a] = [At(act[a], "wrapped", act[a].wrap) EXCEPT !.wrap = w]]
    BY Zenon, <1>1, <2>1, <2>2
  <2> QED BY Zenon, <2>1, <2>3, <2>4
<1>4. act[a].next \in Epoch
  BY Zenon, <1>2, BusyFields
<1>5. circle_keys' \in [Epoch -> CircleKey \cup {NoKey}] /\ vault_keys' \in [Epoch -> CircleKey \cup {NoKey}]
  BY Zenon, <1>1, <1>2 DEF OwnerTypeOK
<1>6. w \in CircleKey \cup {NoKey} /\ w # NoKey
  BY Zenon, <1>1, <1>2, <1>4 DEF OwnerTypeOK, Wrapped, w
<1>7. ASSUME Copies(act[a], circle_keys, vault_keys)
      PROVE  Copies(At(act[a], "wrapped", w), circle_keys', vault_keys')
  BY Zenon, <1>1, <1>7 DEF Copies, At, w
<1> QED BY Zenon, <1>1, <1>3, <1>5, <1>6, <1>7, MoveStep

\* The commit is posted.
LEMMA PostStep ==
  ASSUME OwnerParameters, IInv, NEW a \in Attempt, Post(a)
  PROVE  IInv'
<1> DEFINE x == At(act[a], "waiting", act[a].wrap)
           q == RequestOf(act[a])
<1>1. /\ UNCHANGED <<server_epoch, server_revision, server_protocol, rekey, committed, invited, view, keys, circle_keys,
                     vault_keys, overlapped, invite, replies, abandoned>>
      /\ act' = [act EXCEPT ![a].pc = "waiting"] /\ act[a].pc = "wrapped"
      /\ requests' = requests \cup {q}
  BY Zenon DEF Post, server, stores, RequestOf
<1>2. OwnerTypeOK /\ Named /\ Wrapped /\ Behind /\ Busy(a)
  BY Zenon, <1>1 DEF IInv, Busy
<1>3. act' = [act EXCEPT ![a] = x]
  BY Zenon, <1>1, <1>2, MovesTo
<1>4. act[a].wrap \in CircleKey /\ act[a].name \in CircleKey /\ act[a].next \in 2 .. LastEpoch
  BY Zenon, <1>1, <1>2, BusyFields, Fields DEF Wrapped
<1>5. /\ x \in Act(server_revision) /\ x.pc = "waiting" /\ x.next = act[a].next /\ x.rev = act[a].rev
      /\ x.name = act[a].name /\ x.wrap = act[a].wrap
  BY <1>2, <1>4, AtFact
<1>6. /\ q.next = act[a].next /\ q.rev = act[a].rev /\ q.name = act[a].name
      /\ q.wrap = act[a].wrap
  BY Zenon DEF RequestOf
<1>7. act[a].rev \in Nat /\ act[a].rev <= server_revision
  BY <1>2, Fields, Numbers
<1>8. q \in Request
  BY <1>2, <1>4, <1>7, Numbers DEF RequestOf, Request
<1> HIDE DEF x, q
<1>9. /\ act' \in [Attempt -> Act(server_revision)] /\ act'[a] = x
      /\ \A b \in Attempt : b # a => act'[b] = act[b]
  BY Zenon, <1>2, <1>3, <1>5, OneMoves
<1>10. /\ \A b \in Attempt : Busy(b)' <=> Busy(b)
       /\ \A b \in Attempt : /\ act'[b].name = act[b].name /\ act'[b].next = act[b].next
                             /\ act'[b].rev = act[b].rev /\ act'[b].wrap = act[b].wrap
                             /\ act[b].pc = "waiting" => act'[b].pc = "waiting"
  BY Zenon, <1>2, <1>5, <1>9 DEF Busy
<1>11. OwnerTypeOK'
  BY Zenon, <1>1, <1>2, <1>8, <1>9 DEF OwnerTypeOK, Act
<1>12. Named'
  <2>1. \A b \in Attempt : Busy(b)' => act'[b].name \in 1 .. keys' /\ act'[b].next >= 2
    BY Zenon, <1>1, <1>2, <1>10 DEF Named
  <2>2. \A b, c \in Attempt : Busy(b)' /\ Busy(c)' /\ act'[b].name = act'[c].name => b = c
    BY Zenon, <1>2, <1>10 DEF Named
  <2>3. ASSUME NEW r \in requests'
        PROVE  /\ r.name <= keys'
               /\ \A b \in Attempt : Busy(b)' /\ act'[b].name = r.name
                                       => act'[b].pc = "waiting" /\ act'[b].next = r.next
    <3>1. CASE r = q
      <4>1. q.name <= keys'
        BY <1>1, <1>2, <1>6, Numbers DEF Named
      <4>2. \A b \in Attempt : Busy(b)' /\ act'[b].name = q.name => b = a
        BY Zenon, <1>2, <1>6, <1>10 DEF Named
      <4> QED BY Zenon, <1>5, <1>6, <1>9, <3>1, <4>1, <4>2
    <3>2. CASE r \in requests
      BY <1>1, <1>2, <1>10, <3>2 DEF Named
    <3> QED BY Zenon, <1>1, <3>1, <3>2
  <2>4. \A r \in replies' :
          /\ r.name <= keys'
          /\ \A b \in Attempt : Busy(b)' /\ act'[b].name = r.name
                                  => act'[b].pc = "waiting" /\ (r.ok => act'[b].next <= server_epoch')
    BY <1>1, <1>2, <1>10 DEF Named
  <2> QED BY Zenon, <2>1, <2>2, <2>3, <2>4 DEF Named, Busy
<1>13. Wrapped'
  <2>1. \A b \in Attempt : /\ act'[b].pc = "vaulted" => vault_keys'[act'[b].next] # NoKey
                           /\ act'[b].pc \in {"wrapped", "waiting"} => act'[b].wrap # NoKey
    BY Zenon, <1>1, <1>2, <1>5, <1>9 DEF Wrapped
  <2> QED BY Zenon, <1>1, <1>2, <2>1 DEF Wrapped
<1>14. Behind'
  BY <1>1, <1>2, <1>6, <1>7, <1>10 DEF Behind, Busy
<1>15. ASSUME Undisturbed' PROVE (Solo /\ Agreed)'
  <2>1. Undisturbed /\ Solo /\ Agreed
    BY Zenon, <1>1, <1>15 DEF Undisturbed, IInv
  <2>2. \A b \in Attempt : Busy(b) => b = a
    BY Zenon, <1>2, <2>1 DEF Solo
  <2>3. requests = {} /\ replies = {} /\ view.epoch = server_epoch
    <3>1. \A b \in Attempt : act[b].pc # "waiting"
      BY Zenon, <1>1, <2>2 DEF Busy
    <3> QED BY Zenon, <2>1, <3>1 DEF Solo
  <2>4. act[a].next = server_epoch + 1 /\ Copies(act[a], circle_keys, vault_keys)
    BY Zenon, <1>2, <2>1, <2>3 DEF Solo
  <2>5. Agreed'
    BY Zenon, <1>1, <2>1 DEF Agreed
  <2>6. Copies(act'[a], circle_keys', vault_keys') /\ act'[a].next = server_epoch' + 1
    BY Zenon, <1>1, <1>5, <1>9, <2>4 DEF Copies
  <2>7. /\ requests' = {q} /\ replies' = {} /\ view'.epoch = server_epoch'
        /\ invite'.pc \in {"sent", "orphan"} /\ invite'.seen.epoch = server_epoch'
             => invite'.wrap = committed'[server_epoch'].wrap
    BY Zenon, <1>1, <2>1, <2>3 DEF Solo
  <2>8. q = RequestOf(act'[a]) /\ act'[a].pc = "waiting"
    BY Zenon, <1>5, <1>9 DEF q, RequestOf
  <2>9. \A b \in Attempt : Busy(b)' => b = a
    BY Zenon, <1>10, <2>2
  <2> QED BY Zenon, <2>5, <2>6, <2>7, <2>8, <2>9 DEF Solo, Busy
<1> QED BY Zenon, <1>11, <1>12, <1>13, <1>14, <1>15 DEF IInv

\* circleEpochChanged leaves the revision of the loaded circle alone.
LEMMA ViewFact ==
  ASSUME OwnerTypeOK, NEW e \in Epoch, NEW b \in BOOLEAN
  PROVE  /\ EpochChanged(e, b) \in View /\ EpochChanged(e, b).epoch = e
         /\ EpochChanged(e, b).rev = view.rev
<1>1. view \in View
  BY Zenon DEF OwnerTypeOK
<1> DEFINE v == [epoch |-> e, rev |-> view.rev, protocol |-> view.protocol, rekey |-> b]
<1> DEFINE u == [epoch |-> e, rev |-> view.rev, protocol |-> view.protocol,
                 rekey |-> view.rekey]
<1>2. EpochChanged(e, b) = v
  <2>1. [view EXCEPT !.epoch = e] = u
    BY <1>1 DEF View
  <2>2. [u EXCEPT !.rekey = b] = v
    OBVIOUS
  <2> HIDE DEF u, v
  <2> QED BY Zenon, <2>1, <2>2 DEF EpochChanged
<1>3. v \in View /\ v.epoch = e /\ v.rev = view.rev
  BY Zenon, <1>1 DEF View
<1> QED BY Zenon, <1>2, <1>3

\* An activation that has ended has nothing left to keep.
LEMMA EndFact ==
  ASSUME OwnerParameters, OwnerTypeOK, Named, Wrapped, NEW a \in Attempt, act' = [act EXCEPT ![a] = NoActivation],
         UNCHANGED <<server_epoch, server_revision, keys, vault_keys, invite, requests>>, replies' \subseteq replies
  PROVE  /\ act' \in [Attempt -> Act(server_revision)]
         /\ \A b \in Attempt : Busy(b)' <=> Busy(b) /\ b # a
         /\ \A b \in Attempt : Busy(b)' => act'[b] = act[b]
         /\ Named' /\ Wrapped'
<1>1. NoActivation \in Act(server_revision) /\ NoActivation.pc = "idle"
  BY Numbers DEF NoActivation, Act
<1>2. /\ act' \in [Attempt -> Act(server_revision)] /\ act'[a] = NoActivation
      /\ \A b \in Attempt : b # a => act'[b] = act[b]
  BY Zenon, <1>1, OneMoves
<1>3. /\ \A b \in Attempt : Busy(b)' <=> Busy(b) /\ b # a
      /\ \A b \in Attempt : Busy(b)' => act'[b] = act[b] /\ Busy(b)
  BY Zenon, <1>1, <1>2 DEF Busy
<1>4. Named'
  <2>1. \A b \in Attempt : Busy(b)' => act'[b].name \in 1 .. keys' /\ act'[b].next >= 2
    BY Zenon, <1>3 DEF Named
  <2>2. \A b, c \in Attempt : Busy(b)' /\ Busy(c)' /\ act'[b].name = act'[c].name => b = c
    BY Zenon, <1>3 DEF Named
  <2>3. \A r \in requests' :
          /\ r.name <= keys'
          /\ \A b \in Attempt : Busy(b)' /\ act'[b].name = r.name
                                  => act'[b].pc = "waiting" /\ act'[b].next = r.next
    BY <1>3 DEF Named
  <2>4. \A r \in replies' :
          /\ r.name <= keys'
          /\ \A b \in Attempt : Busy(b)' /\ act'[b].name = r.name
                                  => act'[b].pc = "waiting" /\ (r.ok => act'[b].next <= server_epoch')
    BY <1>3 DEF Named
  <2> QED BY Zenon, <2>1, <2>2, <2>3, <2>4 DEF Named, Busy
<1>5. Wrapped'
  BY Zenon, <1>1, <1>2 DEF Wrapped
<1> QED BY Zenon, <1>2, <1>3, <1>4, <1>5

\* The answer to the commit: the page moves to the epoch that was committed.
LEMMA AnswerStep ==
  ASSUME OwnerParameters, IInv, NEW a \in Attempt, NEW r \in replies, Answer(a, r)
  PROVE  IInv'
<1>1. /\ UNCHANGED <<server_epoch, server_revision, server_protocol, rekey, committed, invited, keys, circle_keys,
                     vault_keys, overlapped, invite, requests, abandoned>>
      /\ act' = [act EXCEPT ![a] = NoActivation] /\ act[a].pc = "waiting" /\ r.name = act[a].name
      /\ replies' = replies \ {r}
      /\ view' = IF r.ok THEN EpochChanged(act[a].next, FALSE) ELSE view
  BY Zenon DEF Answer, server, stores
<1>2. OwnerTypeOK /\ Named /\ Wrapped /\ Behind /\ Busy(a)
  BY Zenon, <1>1 DEF IInv, Busy
<1>3. /\ act' \in [Attempt -> Act(server_revision)]
      /\ \A b \in Attempt : Busy(b)' <=> Busy(b) /\ b # a
      /\ \A b \in Attempt : Busy(b)' => act'[b] = act[b]
      /\ Named' /\ Wrapped'
  BY Zenon, <1>1, <1>2, EndFact
<1>4. r.ok => act[a].next \in Epoch /\ act[a].next <= server_epoch
  BY Zenon, <1>1, <1>2, BusyFields DEF Named
<1>5. /\ view' \in View /\ view'.rev = view.rev /\ view'.epoch <= server_epoch
      /\ view'.epoch = IF r.ok THEN act[a].next ELSE view.epoch
  <2>1. CASE r.ok
    BY Zenon, <1>1, <1>2, <1>4, <2>1, ViewFact
  <2>2. CASE ~r.ok
    BY Zenon, <1>1, <1>2, <2>2 DEF OwnerTypeOK
  <2> QED BY Zenon, <2>1, <2>2
<1>6. OwnerTypeOK'
  BY Zenon, <1>1, <1>2, <1>3, <1>5 DEF OwnerTypeOK, Act
<1>7. Behind'
  BY Zenon, <1>1, <1>2, <1>3, <1>5 DEF Behind
<1>8. ASSUME Undisturbed' PROVE (Solo /\ Agreed)'
  <2>1. Undisturbed /\ Solo /\ Agreed
    BY Zenon, <1>1, <1>8 DEF Undisturbed, IInv
  <2>2. \A b \in Attempt : ~Busy(b)'
    BY Zenon, <1>2, <1>3, <2>1 DEF Solo
  <2>3. requests' = {} /\ replies' = {} /\ \A q \in replies : q = r
    BY Zenon, <1>1, <2>1 DEF Solo
  <2>4. view'.epoch = server_epoch'
    <3>1. CASE r.ok
      <4>1. act[a].next = server_epoch + 1 \/ act[a].next = server_epoch
        BY Zenon, <1>2, <2>1 DEF Solo
      <4>2. act[a].next = server_epoch
        BY <1>2, <1>4, <3>1, <4>1, Numbers
      <4> QED BY Zenon, <1>1, <1>5, <3>1, <4>2
    <3>2. CASE ~r.ok
      BY Zenon, <1>1, <1>5, <2>1, <2>3, <3>2 DEF Solo
    <3> QED BY Zenon, <3>1, <3>2
  <2>5. Agreed'
    BY Zenon, <1>1, <2>1 DEF Agreed
  <2>6. invite'.pc \in {"sent", "orphan"} /\ invite'.seen.epoch = server_epoch'
             => invite'.wrap = committed'[server_epoch'].wrap
    BY Zenon, <1>1, <2>1 DEF Solo
  <2> QED BY Zenon, <2>2, <2>3, <2>4, <2>5, <2>6 DEF Solo, Busy
<1> QED BY Zenon, <1>3, <1>6, <1>7, <1>8 DEF IInv

\* The answer is given up on.
LEMMA TimeOutStep ==
  ASSUME OwnerParameters, IInv, NEW a \in Attempt, TimeOut(a)
  PROVE  IInv'
<1>1. /\ UNCHANGED <<server_epoch, server_revision, server_protocol, rekey, committed, invited, view, keys, circle_keys,
                     vault_keys, overlapped, invite, requests>>
      /\ act' = [act EXCEPT ![a] = NoActivation]
      /\ replies' = {r \in replies : r.name # act[a].name}
      /\ abandoned < MaxAbandoned /\ abandoned' = abandoned + 1
  BY Zenon DEF TimeOut, server, stores
<1>2. OwnerTypeOK /\ Named /\ Wrapped /\ Behind
  BY Zenon DEF IInv
<1>3. replies' \subseteq replies
  BY Zenon, <1>1
<1>4. /\ act' \in [Attempt -> Act(server_revision)]
      /\ \A b \in Attempt : Busy(b)' => Busy(b) /\ act'[b] = act[b]
      /\ Named' /\ Wrapped'
  BY Zenon, <1>1, <1>2, <1>3, EndFact
<1>5. abandoned' \in 0 .. MaxAbandoned /\ abandoned' # 0
  BY <1>1, <1>2, Numbers
<1>6. OwnerTypeOK'
  BY Zenon, <1>1, <1>2, <1>3, <1>4, <1>5 DEF OwnerTypeOK, Act
<1>7. Behind'
  BY Zenon, <1>1, <1>2, <1>4 DEF Behind
<1> QED BY Zenon, <1>4, <1>5, <1>6, <1>7 DEF IInv, Undisturbed

\* A step that changes neither the activations nor the stores nor the wire.
LEMMA AsideStep ==
  ASSUME OwnerParameters, IInv, UNCHANGED <<server_epoch, committed, circle_keys, vault_keys, keys, overlapped, act,
                                       requests, replies, abandoned, server_protocol>>,
         OwnerTypeOK', Behind', invite'.pc \in {"sent", "orphan"} => invite'.wrap # NoKey,
         Undisturbed /\ Solo /\ Agreed =>
           /\ view'.epoch = server_epoch \/ \E r \in replies : r.ok
           /\ invite'.pc \in {"sent", "orphan"} /\ invite'.seen.epoch = server_epoch
                => invite'.wrap = committed[server_epoch].wrap
           /\ invited'[server_epoch] \subseteq {committed[server_epoch].wrap}
  PROVE  IInv'
<1>1. Named'
  BY DEF IInv, Named, Busy
<1>2. Wrapped'
  BY Zenon DEF IInv, Wrapped
<1>3. ASSUME Undisturbed' PROVE (Solo /\ Agreed)'
  <2>1. Undisturbed /\ Solo /\ Agreed
    BY Zenon, <1>3 DEF Undisturbed, IInv
  <2>2. Agreed'
    BY Zenon, <2>1 DEF Agreed
  <2>3. Solo'
    BY Zenon, <2>1 DEF Solo, Busy
  <2> QED BY Zenon, <2>2, <2>3
<1> QED BY Zenon, <1>1, <1>2, <1>3 DEF IInv

\* What an invitation is made of.
LEMMA InviteFields ==
  ASSUME OwnerTypeOK
  PROVE  /\ invite.pc \in {"idle", "sent", "orphan", "ok", "refused"}
         /\ invite.seen \in View /\ invite.wrap \in CircleKey \cup {NoKey}
BY Zenon DEF OwnerTypeOK

Invite == [pc : {"idle", "sent", "orphan", "ok", "refused"}, seen : View,
           wrap : CircleKey \cup {NoKey}]

\* No invitation under way.
LEMMA NoInviteFact ==
  ASSUME OwnerParameters
  PROVE  /\ NoInvite \in Invite /\ NoInvite.pc = "idle" /\ NoInvite.seen.epoch = 1
         /\ NoInvite.seen.rev = 0
<1>1. Created \in View /\ Created.epoch = 1 /\ Created.rev = 0
  BY DEF OwnerParameters, Created, View, Epoch
<1> QED BY Zenon, <1>1 DEF NoInvite, Invite

\* handleAddMember wraps the vault's key of the epoch shown.
LEMMA InviteSendStep ==
  ASSUME OwnerParameters, IInv, InviteSend
  PROVE  IInv'
<1> DEFINE i == [pc |-> "sent", seen |-> view, wrap |-> vault_keys[view.epoch]]
<1>1. /\ UNCHANGED <<server_epoch, server_revision, server_protocol, rekey, committed, invited, view, circle_keys, vault_keys,
                     keys, overlapped, act, requests, replies, abandoned>>
      /\ invite' = i /\ vault_keys[view.epoch] # NoKey
  BY Zenon DEF InviteSend, WrapKey, server, stores, wire
<1>2. OwnerTypeOK /\ Behind
  BY Zenon DEF IInv
<1>3. view \in View /\ view.epoch \in Epoch /\ view.epoch <= server_epoch /\ view.rev <= server_revision
  BY Zenon, <1>2 DEF OwnerTypeOK, View
<1>4. vault_keys[view.epoch] \in CircleKey \cup {NoKey}
  BY Zenon, <1>2, <1>3 DEF OwnerTypeOK
<1>5. /\ i \in Invite /\ i.pc = "sent" /\ i.seen = view /\ i.wrap = vault_keys[view.epoch]
  BY Zenon, <1>3, <1>4 DEF Invite
<1> HIDE DEF i
<1>6. OwnerTypeOK'
  BY Zenon, <1>1, <1>2, <1>5 DEF OwnerTypeOK, Invite
<1>7. Behind'
  BY Zenon, <1>1, <1>2, <1>3, <1>5 DEF Behind, Busy
<1>8. ASSUME Solo, Agreed
      PROVE  /\ view'.epoch = server_epoch \/ \E r \in replies : r.ok
             /\ invite'.seen.epoch = server_epoch => invite'.wrap = committed[server_epoch].wrap
             /\ invited'[server_epoch] \subseteq {committed[server_epoch].wrap}
  BY Zenon, <1>1, <1>5, <1>8 DEF Solo, Agreed
<1> QED BY Zenon, <1>1, <1>5, <1>6, <1>7, <1>8, AsideStep

\* add_member: a change of the membership revision, which outdates every
\* activation that is under way.
LEMMA ServeInviteStep ==
  ASSUME OwnerParameters, IInv, ServeInvite
  PROVE  IInv'
<1>1. /\ UNCHANGED <<server_epoch, server_protocol, rekey, committed, view, circle_keys, vault_keys,
                     keys, overlapped, act, requests, replies, abandoned>>
      /\ invite.pc \in {"sent", "orphan"}
  BY Zenon DEF ServeInvite, stores, wire
<1>2. OwnerTypeOK /\ Behind /\ Wrapped
  BY Zenon DEF IInv
<1>3. /\ invite \in Invite /\ invite.wrap \in CircleKey /\ server_epoch \in Epoch
  BY Zenon, <1>1, <1>2, Numbers DEF OwnerTypeOK, Wrapped, Invite
<1>4. ASSUME NEW o \in {"ok", "refused"}
      PROVE  /\ Served(o) \in Invite /\ Served(o).pc \in {"idle", o}
             /\ Served(o).seen.epoch <= server_epoch /\ Served(o).seen.rev <= server_revision
             /\ Served(o).pc = "ok" => Served(o).seen = invite.seen
  <2>1. CASE invite.pc = "orphan"
    <3>1. Served(o) = NoInvite
      BY Zenon, <2>1 DEF Served
    <3> QED BY <1>2, <3>1, NoInviteFact, Numbers
  <2>2. CASE invite.pc # "orphan"
    <3>1. Served(o) = [pc |-> o, seen |-> invite.seen, wrap |-> invite.wrap]
      BY Zenon, <1>3, <2>2 DEF Served, Invite
    <3>2. Served(o) \in Invite /\ Served(o).pc = o /\ Served(o).seen = invite.seen
      BY <1>3, <3>1 DEF Invite
    <3> QED BY Zenon, <1>2, <3>2 DEF Behind
  <2> QED BY Zenon, <2>1, <2>2
<1>5. CASE invite.seen.epoch = server_epoch
  <2>1. /\ server_revision < LastRevision /\ server_revision' = server_revision + 1
        /\ invited' = [invited EXCEPT ![server_epoch] = @ \cup {invite.wrap}]
        /\ invite' = Served("ok")
    BY Zenon, <1>5 DEF ServeInvite
  <2>2. server_revision' \in 0 .. LastRevision
    BY <1>2, <2>1, Numbers
  <2>3. invited \in [Epoch -> SUBSET CircleKey]
    BY Zenon, <1>2 DEF OwnerTypeOK
  <2>4. invited' \in [Epoch -> SUBSET CircleKey]
    BY Zenon, <1>3, <2>1, <2>3
  <2>5. act' \in [Attempt -> Act(server_revision')]
    <3>1. Act(server_revision) \subseteq Act(server_revision')
      BY <1>2, <2>1, Numbers DEF Act
    <3> QED BY Zenon, <1>1, <1>2, <3>1, Numbers
  <2>6. view.rev \in Nat /\ view.rev <= server_revision /\ view.rev <= server_revision' /\ view.rev < server_revision'
    BY <1>2, <2>1, Numbers DEF OwnerTypeOK, View
  <2>7. OwnerTypeOK'
    BY Zenon, <1>1, <1>2, <1>4, <2>1, <2>2, <2>4, <2>5, <2>6 DEF OwnerTypeOK, Invite, Act
  <2>8. Behind'
    <3>1. \A r \in requests : r.rev \in Nat /\ r.rev <= server_revision
      BY <1>2, Numbers DEF OwnerTypeOK, Request, Behind
    <3>2. \A a \in Attempt : act[a].rev \in Nat /\ act[a].rev <= server_revision
      <4>1. \A a \in Attempt : act[a].rev \in 0 .. server_revision
        BY Zenon, <1>2, Fields
      <4>2. server_revision \in Nat
        BY Zenon, <1>2, Numbers
      <4> QED BY Zenon, <4>1, <4>2, UpTo
    <3>3. \A e \in Epoch : e > server_epoch => committed[e].wrap = NoKey /\ invited'[e] = {}
      BY <1>2, <1>3, <2>1, <2>3, Numbers DEF Behind, Epoch
    <3>4. invite'.seen.epoch <= server_epoch /\ invite'.seen.rev <= server_revision'
      <4>1. Served("ok").seen.rev \in Nat
        BY <1>2, <1>4, Numbers DEF Invite, View
      <4> QED BY <1>2, <1>4, <2>1, <4>1, Numbers
    <3>5. invite'.pc = "ok" => invite'.seen.epoch = server_epoch
      BY Zenon, <1>4, <1>5, <2>1
    <3> QED BY <1>1, <1>2, <2>1, <2>6, <3>1, <3>2, <3>3, <3>4, <3>5, Numbers DEF Behind, Busy
  <2>9. ASSUME Solo, Agreed
        PROVE  /\ view'.epoch = server_epoch \/ \E r \in replies : r.ok
               /\ invited'[server_epoch] \subseteq {committed[server_epoch].wrap}
    BY Zenon, <1>1, <1>3, <1>5, <2>1, <2>3, <2>9 DEF Solo, Agreed
  <2> QED BY Zenon, <1>1, <1>4, <2>1, <2>7, <2>8, <2>9, AsideStep
<1>6. CASE invite.seen.epoch # server_epoch
  <2>1. server_revision' = server_revision /\ invited' = invited /\ invite' = Served("refused")
    BY Zenon, <1>6 DEF ServeInvite
  <2>2. OwnerTypeOK'
    BY Zenon, <1>1, <1>2, <1>4, <2>1 DEF OwnerTypeOK, Invite
  <2>3. Behind'
    BY Zenon, <1>1, <1>2, <1>4, <2>1 DEF Behind, Busy
  <2>4. ASSUME Solo, Agreed
        PROVE  /\ view'.epoch = server_epoch \/ \E r \in replies : r.ok
               /\ invited'[server_epoch] \subseteq {committed[server_epoch].wrap}
    BY Zenon, <1>1, <2>1, <2>4 DEF Solo, Agreed
  <2> QED BY Zenon, <1>1, <1>4, <2>1, <2>2, <2>3, <2>4, AsideStep
<1> QED BY Zenon, <1>5, <1>6

\* circleLoaded puts the circle of the invitation back: nothing has been
\* committed since.
LEMMA InviteAnswerStep ==
  ASSUME OwnerParameters, IInv, InviteAnswer
  PROVE  IInv'
<1>1. /\ UNCHANGED <<server_epoch, server_revision, server_protocol, rekey, committed, invited, circle_keys, vault_keys,
                     keys, overlapped, act, requests, replies, abandoned>>
      /\ view' = (IF invite.pc = "ok" THEN invite.seen ELSE view) /\ invite' = NoInvite
  BY Zenon DEF InviteAnswer, server, stores, wire
<1>2. OwnerTypeOK /\ Behind
  BY Zenon DEF IInv
<1>3. view' \in View /\ view'.epoch <= server_epoch /\ view'.rev <= server_revision
  BY Zenon, <1>1, <1>2, InviteFields DEF OwnerTypeOK, Behind
<1>4. OwnerTypeOK'
  BY Zenon, <1>1, <1>2, <1>3, NoInviteFact DEF OwnerTypeOK, Invite
<1>5. Behind'
  <2>1. invite'.seen.epoch <= server_epoch /\ invite'.seen.rev <= server_revision /\ invite'.pc = "idle"
    BY <1>1, <1>2, NoInviteFact, Numbers
  <2> QED BY Zenon, <1>1, <1>2, <2>1 DEF Behind
<1>6. ASSUME Solo, Agreed
      PROVE  /\ view'.epoch = server_epoch \/ \E r \in replies : r.ok
             /\ invited'[server_epoch] \subseteq {committed[server_epoch].wrap}
  BY Zenon, <1>1, <1>2, <1>6 DEF Solo, Agreed, Behind
<1> QED BY Zenon, <1>1, <1>4, <1>5, <1>6, NoInviteFact, AsideStep

\* CIRCLE_EPOCH_CHANGED.
LEMMA HearEpochStep ==
  ASSUME OwnerParameters, IInv, HearEpoch
  PROVE  IInv'
<1>1. /\ UNCHANGED <<server_epoch, server_revision, server_protocol, rekey, committed, invited, circle_keys, vault_keys,
                     keys, overlapped, act, invite, requests, replies, abandoned>>
      /\ view' = EpochChanged(server_epoch, rekey)
  BY Zenon DEF HearEpoch, server, stores, wire
<1>2. OwnerTypeOK /\ Behind /\ Wrapped
  BY Zenon DEF IInv
<1>3. server_epoch \in Epoch /\ rekey \in BOOLEAN
  BY Zenon, <1>2 DEF OwnerTypeOK
<1>4. view' \in View /\ view'.epoch = server_epoch /\ view'.rev = view.rev
  BY Zenon, <1>1, <1>2, <1>3, ViewFact
<1>5. OwnerTypeOK'
  BY <1>1, <1>2, <1>4, Numbers DEF OwnerTypeOK
<1>6. Behind'
  BY Zenon, <1>1, <1>2, <1>4 DEF Behind, Busy
<1>7. ASSUME Solo, Agreed
      PROVE  /\ invite.pc \in {"sent", "orphan"} /\ invite.seen.epoch = server_epoch
                  => invite.wrap = committed[server_epoch].wrap
             /\ invited'[server_epoch] \subseteq {committed[server_epoch].wrap}
  BY Zenon, <1>1, <1>7 DEF Solo, Agreed
<1> QED BY Zenon, <1>1, <1>2, <1>4, <1>5, <1>6, <1>7, AsideStep DEF Wrapped

\* A membership change by anyone else.
LEMMA MemberChangeStep ==
  ASSUME OwnerParameters, IInv, NEW leaves \in BOOLEAN, MemberChange(leaves)
  PROVE  IInv'
<1>1. /\ UNCHANGED <<server_epoch, server_protocol, committed, invited, view, circle_keys, vault_keys,
                     keys, overlapped, act, invite, requests, replies, abandoned>>
      /\ server_revision < LastRevision /\ server_revision' = server_revision + 1 /\ rekey' = (rekey \/ leaves)
  BY Zenon DEF MemberChange, stores, wire
<1>2. OwnerTypeOK /\ Behind /\ Wrapped
  BY Zenon DEF IInv
<1>3. server_revision' \in 0 .. LastRevision /\ rekey' \in BOOLEAN
  BY <1>1, <1>2, Numbers DEF OwnerTypeOK
<1>4. act' \in [Attempt -> Act(server_revision')]
  <2>1. Act(server_revision) \subseteq Act(server_revision')
    BY <1>1, <1>2, Numbers DEF Act
  <2> QED BY Zenon, <1>1, <1>2, <2>1, Numbers
<1>5. view.rev \in Nat /\ view.rev <= server_revision
  BY <1>2, Numbers DEF OwnerTypeOK, View
<1>6. OwnerTypeOK'
  <2>1. view.rev <= server_revision'
    BY <1>1, <1>2, <1>5, Numbers
  <2> QED BY Zenon, <1>1, <1>2, <1>3, <1>4, <2>1 DEF OwnerTypeOK, Act
<1>7. Behind'
  <2>1. \A r \in requests : r.rev \in Nat /\ r.rev <= server_revision
    BY <1>2, Numbers DEF OwnerTypeOK, Request, Behind
  <2>2. \A a \in Attempt : act[a].rev \in Nat /\ act[a].rev <= server_revision
    <3>1. \A a \in Attempt : act[a].rev \in 0 .. server_revision
      BY Zenon, <1>2, Fields
    <3>2. server_revision \in Nat
      BY Zenon, <1>2, Numbers
    <3> QED BY Zenon, <3>1, <3>2, UpTo
  <2>3. invite.seen.rev \in Nat
    BY <1>2, InviteFields DEF View
  <2> QED BY <1>1, <1>2, <1>5, <2>1, <2>2, <2>3, Numbers DEF Behind, Busy
<1>8. ASSUME Solo, Agreed
      PROVE  /\ view.epoch = server_epoch \/ \E r \in replies : r.ok
             /\ invite.pc \in {"sent", "orphan"} /\ invite.seen.epoch = server_epoch
                  => invite.wrap = committed[server_epoch].wrap
             /\ invited'[server_epoch] \subseteq {committed[server_epoch].wrap}
  BY Zenon, <1>1, <1>8 DEF Solo, Agreed
<1> QED BY Zenon, <1>1, <1>2, <1>6, <1>7, <1>8, AsideStep DEF Wrapped

\* commit_epoch refuses: an old epoch or an old revision.
LEMMA RefuseStep ==
  ASSUME OwnerParameters, IInv, NEW r \in requests, ServeCommit(r), ~Acceptable(r)
  PROVE  IInv'
<1> DEFINE w == [name |-> r.name, ok |-> Acceptable(r)]
<1>1. /\ UNCHANGED <<server_epoch, server_revision, server_protocol, rekey, committed, invited, view, circle_keys, vault_keys,
                     keys, overlapped, act, invite, abandoned>>
      /\ requests' = requests \ {r}
      /\ replies' = replies \/ replies' = replies \cup {w}
  BY Zenon DEF ServeCommit, stores
<1>2. OwnerTypeOK /\ Named /\ Wrapped /\ Behind
  BY Zenon DEF IInv
<1>3. r.name \in CircleKey
  BY Zenon, <1>2 DEF OwnerTypeOK, Request
<1>4. w \in [name : CircleKey, ok : BOOLEAN] /\ w.name = r.name /\ ~w.ok
  BY Zenon, <1>3 DEF Acceptable
<1> HIDE DEF w
<1>5. OwnerTypeOK'
  BY Zenon, <1>1, <1>2, <1>4 DEF OwnerTypeOK
<1>6. Named'
  <2>1. \A q \in replies' : \/ q \in replies
                            \/ ~q.ok /\ q.name = r.name
    BY Zenon, <1>1, <1>4
  <2>2. \A q \in replies' :
          /\ q.name <= keys'
          /\ \A b \in Attempt : Busy(b)' /\ act'[b].name = q.name
                                  => act'[b].pc = "waiting" /\ (q.ok => act'[b].next <= server_epoch')
    BY <1>1, <1>2, <2>1 DEF Named, Busy
  <2> QED BY <1>1, <1>2, <2>2 DEF Named, Busy
<1>7. Wrapped'
  BY Zenon, <1>1, <1>2 DEF Wrapped
<1>8. Behind'
  BY Zenon, <1>1, <1>2 DEF Behind, Busy
<1>9. ASSUME Undisturbed' PROVE (Solo /\ Agreed)'
  <2>1. Undisturbed /\ Solo /\ Agreed
    BY Zenon, <1>1, <1>9 DEF Undisturbed, IInv
  <2>2. PICK a \in Attempt : act[a].pc = "waiting" /\ r = RequestOf(act[a])
    BY Zenon, <2>1 DEF Solo
  <2>3. Busy(a) /\ \A b \in Attempt : Busy(b) => b = a
    BY Zenon, <2>1, <2>2 DEF Solo, Busy
  <2>4. requests' = {} /\ replies = {}
    <3>1. \A q \in requests : q = r
      BY Zenon, <2>1, <2>2, <2>3 DEF Solo, Busy
    <3> QED BY Zenon, <1>1, <2>1, <3>1 DEF Solo
  <2>5. act[a].next = server_epoch + 1 /\ Copies(act[a], circle_keys, vault_keys) /\ view.epoch = server_epoch
    BY Zenon, <2>1, <2>3, <2>4 DEF Solo
  <2>6. r.name = act[a].name
    BY Zenon, <2>2 DEF RequestOf
  <2>7. \A q \in replies' : q = w
    BY Zenon, <1>1, <2>4
  <2>8. Agreed'
    BY Zenon, <1>1, <2>1 DEF Agreed
  <2>9. Solo'
    BY Zenon, <1>1, <1>4, <2>1, <2>2, <2>3, <2>4, <2>5, <2>6, <2>7 DEF Solo, Busy
  <2> QED BY Zenon, <2>8, <2>9
<1> QED BY Zenon, <1>5, <1>6, <1>7, <1>8, <1>9 DEF IInv

\* commit_epoch accepts: the request is the one of the activation that waits,
\* and no invitation has been served since it was made.
LEMMA AcceptStep ==
  ASSUME OwnerParameters, IInv, NEW r \in requests, ServeCommit(r), Acceptable(r)
  PROVE  IInv'
<1> DEFINE w == [name |-> r.name, ok |-> Acceptable(r)]
           c == [name |-> r.name, wrap |-> r.wrap]
<1>1. /\ UNCHANGED <<server_revision, invited, view, circle_keys, vault_keys,
                     keys, overlapped, act, invite, abandoned>>
      /\ requests' = requests \ {r}
      /\ replies' = IF \E a \in Attempt : act[a].pc = "waiting" /\ act[a].name = r.name
                    THEN replies \cup {w} ELSE replies
      /\ server_epoch' = r.next /\ server_protocol' = 1 /\ rekey' = FALSE
      /\ committed' = [committed EXCEPT ![r.next] = c]
  BY Zenon DEF ServeCommit, stores
<1>2. OwnerTypeOK /\ Named /\ Wrapped /\ Behind
  BY Zenon DEF IInv
<1>3. /\ r.name \in CircleKey /\ r.wrap \in CircleKey /\ r.next \in Epoch /\ r.next = server_epoch + 1
      /\ r.rev = server_revision
  BY <1>2, Numbers DEF OwnerTypeOK, Request, Acceptable, Epoch
<1>4. w \in [name : CircleKey, ok : BOOLEAN] /\ w.name = r.name /\ w.ok
  BY Zenon, <1>3 DEF Acceptable
<1>5. c \in [name : CircleKey \cup {NoKey}, wrap : CircleKey \cup {NoKey}] /\ c.name = r.name /\ c.wrap = r.wrap
  BY Zenon, <1>3
<1> HIDE DEF w, c
<1>6. committed \in [Epoch -> [name : CircleKey \cup {NoKey}, wrap : CircleKey \cup {NoKey}]]
  BY Zenon, <1>2 DEF OwnerTypeOK
<1>7. /\ committed' \in [Epoch -> [name : CircleKey \cup {NoKey}, wrap : CircleKey \cup {NoKey}]]
      /\ committed'[r.next] = c /\ \A e \in Epoch : e # r.next => committed'[e] = committed[e]
  BY Zenon, <1>1, <1>3, <1>5, <1>6
<1>8. replies' \subseteq replies \cup {w}
  BY Zenon, <1>1
<1>9. server_epoch' \in Epoch /\ server_epoch' = server_epoch + 1 /\ server_epoch' > server_epoch
  BY <1>1, <1>2, <1>3, Numbers
<1>10. OwnerTypeOK'
  <2>1. view.epoch <= server_epoch'
    BY <1>2, <1>9, Numbers DEF OwnerTypeOK, View, Epoch
  <2>2. replies' \subseteq [name : CircleKey, ok : BOOLEAN] /\ requests' \subseteq Request
    BY Zenon, <1>1, <1>2, <1>4, <1>8 DEF OwnerTypeOK
  <2> QED BY Zenon, <1>1, <1>2, <1>7, <1>9, <2>1, <2>2 DEF OwnerTypeOK
<1>11. Named'
  <2>1. ASSUME NEW q \in replies', NEW b \in Attempt, Busy(b), act[b].name = q.name
        PROVE  act[b].pc = "waiting" /\ (q.ok => act[b].next <= server_epoch')
    <3>1. CASE q \in replies
      <4>1. act[b].next \in Nat
        BY <1>2, Fields, Numbers
      <4> QED BY <1>2, <1>9, <2>1, <3>1, <4>1, Numbers DEF Named
    <3>2. CASE q = w
      BY <1>1, <1>2, <1>3, <1>4, <1>9, <2>1, <3>2, Numbers DEF Named
    <3> QED BY Zenon, <1>8, <3>1, <3>2
  <2>2. \A q \in replies' : q.name <= keys
    BY Zenon, <1>2, <1>4, <1>8 DEF Named
  <2> QED BY <1>1, <1>2, <2>1, <2>2 DEF Named, Busy
<1>12. Wrapped'
  BY Zenon, <1>1, <1>2 DEF Wrapped
<1>13. Behind'
  <2>1. invite.pc # "ok"
    BY <1>2, <1>3, Numbers DEF Behind
  <2>2. invite.seen.epoch <= server_epoch'
    BY <1>2, <1>9, Numbers, InviteFields DEF Behind, View, Epoch
  <2>3. \A e \in Epoch : e > server_epoch' => e > server_epoch /\ e # r.next
    BY <1>1, <1>2, <1>9, Numbers DEF Epoch
  <2> QED BY Zenon, <1>1, <1>2, <1>7, <2>1, <2>2, <2>3 DEF Behind
<1>14. ASSUME Undisturbed' PROVE (Solo /\ Agreed)'
  <2>1. Undisturbed /\ Solo /\ Agreed
    BY Zenon, <1>1, <1>14 DEF Undisturbed, IInv
  <2>2. PICK a \in Attempt : act[a].pc = "waiting" /\ r = RequestOf(act[a])
    BY Zenon, <2>1 DEF Solo
  <2>3. Busy(a) /\ \A b \in Attempt : Busy(b) => b = a
    BY Zenon, <2>1, <2>2 DEF Solo, Busy
  <2>4. requests' = {} /\ replies = {}
    <3>1. \A q \in requests : q = r
      BY Zenon, <2>1, <2>2, <2>3 DEF Solo, Busy
    <3> QED BY Zenon, <1>1, <2>1, <3>1 DEF Solo
  <2>5. r.name = act[a].name /\ r.wrap = act[a].wrap /\ r.next = act[a].next
    BY Zenon, <2>2 DEF RequestOf
  <2>6. replies' = {w}
    BY Zenon, <1>1, <2>2, <2>4, <2>5
  <2>7. Copies(act[a], circle_keys, vault_keys)
    BY Zenon, <2>1, <2>3 DEF Solo
  <2>8. circle_keys[r.next] = r.name /\ vault_keys[r.next] = r.name /\ r.wrap = r.name
    BY Zenon, <2>2, <2>5, <2>7 DEF Copies
  <2>9. Agreed'
    <3>1. invited[r.next] = {}
      BY Zenon, <1>1, <1>2, <1>3, <1>9 DEF Behind
    <3> QED BY Zenon, <1>1, <1>5, <1>7, <2>8, <3>1 DEF Agreed
  <2>10. invite.seen.epoch # server_epoch'
    BY <1>2, <1>9, Numbers, InviteFields DEF Behind, View, Epoch
  <2>11. Solo'
    <3>1. \A b \in Attempt : Busy(b)' => b = a
      BY Zenon, <1>1, <2>3 DEF Busy
    <3>2. /\ Copies(act'[a], circle_keys', vault_keys') /\ act'[a].next = server_epoch' /\ \E q \in replies' : q.ok
          /\ act'[a].pc = "waiting"
      BY Zenon, <1>1, <1>4, <2>2, <2>5, <2>6, <2>7
    <3>3. \A q \in replies' : q.name = act'[a].name /\ q = w
      BY Zenon, <1>1, <1>4, <2>5, <2>6
    <3> QED BY Zenon, <1>1, <2>4, <2>10, <3>1, <3>2, <3>3 DEF Solo, Busy
  <2> QED BY Zenon, <2>9, <2>11
<1> QED BY Zenon, <1>10, <1>11, <1>12, <1>13, <1>14 DEF IInv

\* A reload gives up on the answers that are due; with none due, nothing is on
\* the wire.
LEMMA ReloadStep ==
  ASSUME OwnerParameters, IInv, ReloadPage
  PROVE  IInv'
<1>1. /\ UNCHANGED <<server_epoch, server_revision, server_protocol, rekey, committed, invited, circle_keys, vault_keys,
                     keys, overlapped, requests>>
      /\ IF Waiting = {} THEN abandoned' = abandoned
         ELSE abandoned < MaxAbandoned /\ abandoned' = abandoned + 1
      /\ view' = ServerView /\ act' = [a \in Attempt |-> NoActivation] /\ replies' = {}
      /\ invite' = IF invite.pc \in {"sent", "orphan"}
                   THEN [invite EXCEPT !.pc = "orphan"] ELSE NoInvite
  BY Zenon DEF ReloadPage, server, stores
<1>2. OwnerTypeOK /\ Named /\ Wrapped /\ Behind
  BY Zenon DEF IInv
<1>4. abandoned' \in 0 .. MaxAbandoned /\ (abandoned' = 0 => abandoned = 0 /\ Waiting = {})
  BY <1>1, <1>2, Numbers DEF OwnerTypeOK
<1>5. view' \in View /\ view'.epoch = server_epoch /\ view'.rev = server_revision
  BY Zenon, <1>1, <1>2 DEF OwnerTypeOK, View, ServerView
<1>6. NoActivation \in Act(server_revision) /\ NoActivation.pc = "idle"
  BY <1>2, Numbers DEF NoActivation, Act
<1>7. act' \in [Attempt -> Act(server_revision)] /\ \A b \in Attempt : act'[b].pc = "idle" /\ ~Busy(b)'
  BY Zenon, <1>1, <1>6 DEF Busy
<1>8. /\ invite' \in Invite /\ invite'.seen.epoch <= server_epoch /\ invite'.seen.rev <= server_revision
      /\ invite'.pc \in {"idle", "orphan"}
      /\ invite'.pc = "orphan" => /\ invite.pc \in {"sent", "orphan"}
                                  /\ invite'.seen = invite.seen /\ invite'.wrap = invite.wrap
  <2>1. CASE invite.pc \in {"sent", "orphan"}
    <3>1. invite' = [pc |-> "orphan", seen |-> invite.seen, wrap |-> invite.wrap]
      BY Zenon, <1>1, <1>2, <2>1 DEF OwnerTypeOK
    <3>2. /\ invite' \in Invite /\ invite'.pc = "orphan" /\ invite'.seen = invite.seen
          /\ invite'.wrap = invite.wrap
      BY Zenon, <1>2, <3>1, InviteFields DEF Invite
    <3> QED BY Zenon, <1>2, <2>1, <3>2 DEF Behind
  <2>2. CASE invite.pc \notin {"sent", "orphan"}
    <3>1. invite' = NoInvite
      BY Zenon, <1>1, <2>2
    <3> QED BY <1>2, <3>1, NoInviteFact, Numbers
  <2> QED BY Zenon, <2>1, <2>2
<1>9. OwnerTypeOK'
  <2>1. view'.epoch <= server_epoch' /\ view'.rev <= server_revision'
    BY <1>1, <1>2, <1>5, Numbers
  <2> QED BY Zenon, <1>1, <1>2, <1>4, <1>5, <1>7, <1>8, <2>1 DEF OwnerTypeOK, Invite, Act
<1>10. Named'
  BY Zenon, <1>1, <1>2, <1>7 DEF Named, Busy
<1>11. Wrapped'
  BY Zenon, <1>2, <1>7, <1>8 DEF Wrapped
<1>12. Behind'
  BY Zenon, <1>1, <1>2, <1>8 DEF Behind
<1>13. ASSUME Undisturbed' PROVE (Solo /\ Agreed)'
  <2>1. Undisturbed /\ Solo /\ Agreed /\ Waiting = {}
    BY Zenon, <1>1, <1>4, <1>13 DEF Undisturbed, IInv
  <2>2. requests = {}
    BY Zenon, <2>1 DEF Solo, Waiting
  <2>3. Agreed'
    BY Zenon, <1>1, <2>1 DEF Agreed
  <2>4. invite'.pc \in {"sent", "orphan"} /\ invite'.seen.epoch = server_epoch'
             => invite'.wrap = committed'[server_epoch'].wrap
    BY Zenon, <1>1, <1>8, <2>1 DEF Solo
  <2> QED BY Zenon, <1>1, <1>5, <1>7, <2>2, <2>3, <2>4 DEF Solo, Busy
<1> QED BY Zenon, <1>9, <1>10, <1>11, <1>12, <1>13 DEF IInv

-----------------------------------------------------------------------------
(* The theorems *)

\* handleCreate.
LEMMA InitIsSafe ==
  ASSUME OwnerParameters, OwnerInit
  PROVE  IInv
<1>1. 1 \in Epoch /\ 1 \in CircleKey /\ 0 \in 0 .. LastRevision /\ 0 \in 0 .. MaxAbandoned
  BY DEF OwnerParameters, Epoch, CircleKey
<1>2. NoActivation \in Act(0) /\ NoActivation.pc = "idle"
  BY <1>1 DEF OwnerParameters, NoActivation, Act
<1>3. \A a \in Attempt : act[a] = NoActivation /\ ~Busy(a)
  BY Zenon, <1>2 DEF OwnerInit, Busy
<1>4. /\ invite = NoInvite /\ server_epoch = 1 /\ server_revision = 0 /\ requests = {} /\ replies = {}
      /\ keys = 1 /\ view = ServerView
  BY Zenon DEF OwnerInit
<1>5. /\ invite \in Invite /\ invite.pc = "idle" /\ invite.seen.epoch = 1 /\ invite.seen.rev = 0
  BY Zenon, <1>4, NoInviteFact
<1>6. view \in View /\ view.epoch = 1 /\ view.rev = 0
  BY Zenon, <1>1 DEF OwnerInit, View, ServerView
<1>7. OwnerTypeOK
  <2>1. act \in [Attempt -> Act(server_revision)]
    BY Zenon, <1>2, <1>4 DEF OwnerInit
  <2>2. committed \in [Epoch -> [name : CircleKey \cup {NoKey}, wrap : CircleKey \cup {NoKey}]]
    BY Zenon, <1>1 DEF OwnerInit
  <2>3. /\ circle_keys \in [Epoch -> CircleKey \cup {NoKey}] /\ vault_keys \in [Epoch -> CircleKey \cup {NoKey}]
        /\ invited \in [Epoch -> SUBSET CircleKey]
    BY Zenon, <1>1 DEF OwnerInit
  <2>4. keys \in 0 .. MaxCircleKeys
    BY <1>4 DEF OwnerParameters
  <2>5. /\ server_epoch \in Epoch /\ server_revision \in 0 .. LastRevision /\ server_protocol \in {0, 1}
        /\ rekey \in BOOLEAN /\ abandoned \in 0 .. MaxAbandoned /\ overlapped \in BOOLEAN
    BY Zenon, <1>1 DEF OwnerInit
  <2>6. view \in View /\ view.epoch <= server_epoch /\ view.rev <= server_revision
    BY <1>4, <1>6
  <2>7. requests \subseteq Request /\ replies \subseteq [name : CircleKey, ok : BOOLEAN]
    BY Zenon, <1>4
  <2> QED BY Zenon, <1>5, <2>1, <2>2, <2>3, <2>4, <2>5, <2>6, <2>7 DEF OwnerTypeOK, Act, Invite
<1>8. Named
  BY Zenon, <1>3, <1>4 DEF Named
<1>9. Wrapped
  BY Zenon, <1>2, <1>3, <1>5 DEF Wrapped
<1>10. Behind
  <2>1. \A e \in Epoch : e > server_epoch => committed[e].wrap = NoKey /\ invited[e] = {}
    BY <1>4 DEF OwnerInit
  <2> QED BY <1>4, <1>5, <2>1 DEF Behind
<1>11. Solo
  BY Zenon, <1>3, <1>4, <1>5, <1>6 DEF Solo
<1>12. Agreed
  BY Zenon, <1>1 DEF OwnerInit, Agreed
<1> QED BY Zenon, <1>7, <1>8, <1>9, <1>10, <1>11, <1>12 DEF IInv

\* Every step of the page, of the server and of the network.
LEMMA StepIsSafe ==
  ASSUME OwnerParameters, IInv, [OwnerNext]_ownerVars
  PROVE  IInv'
<1>1. ASSUME NEW a \in Attempt,
             Activate(a) \/ SaveLive(a) \/ SaveVault(a) \/ Wrap(a) \/ Post(a) \/ TimeOut(a)
      PROVE  IInv'
  BY Zenon, <1>1, ActivateStep, SaveLiveStep, SaveVaultStep, WrapStep, PostStep, TimeOutStep
<1>2. ASSUME NEW a \in Attempt, NEW r \in replies, Answer(a, r) PROVE IInv'
  BY Zenon, <1>2, AnswerStep
<1>3. CASE InviteSend \/ ServeInvite \/ InviteAnswer
  BY Zenon, <1>3, InviteSendStep, ServeInviteStep, InviteAnswerStep
<1>4. ASSUME NEW r \in requests, ServeCommit(r) PROVE IInv'
  BY Zenon, <1>4, AcceptStep, RefuseStep
<1>5. ASSUME NEW leaves \in BOOLEAN, MemberChange(leaves) PROVE IInv'
  BY Zenon, <1>5, MemberChangeStep
<1>6. CASE HearEpoch \/ ReloadPage
  BY Zenon, <1>6, HearEpochStep, ReloadStep
<1>7. CASE UNCHANGED ownerVars
  <2>1. UNCHANGED <<server_epoch, server_revision, server_protocol, rekey, committed, invited, view, circle_keys,
                    vault_keys, keys, overlapped, act, invite, requests, replies, abandoned>>
    BY Zenon, <1>7 DEF ownerVars, server, stores, wire
  <2>2. OwnerTypeOK' /\ Named' BY <2>1 DEF IInv, OwnerTypeOK, Named, Busy
  <2>3. Wrapped' /\ Behind' BY <2>1 DEF IInv, Wrapped, Behind, Busy
  <2>4. Undisturbed' => Solo' /\ Agreed' BY <2>1 DEF IInv, Undisturbed, Solo, Agreed, Busy
  <2> QED BY Zenon, <2>2, <2>3, <2>4 DEF IInv
<1> QED BY Zenon, <1>1, <1>2, <1>3, <1>4, <1>5, <1>6, <1>7 DEF OwnerNext, ActivationStep

\* The invariant of the owner's page and the server it talks to.
LEMMA OwnerInvariant ==
  ASSUME OwnerParameters
  PROVE  OwnerSpec => []IInv
<1>1. OwnerInit => IInv
  BY Zenon, InitIsSafe
<1>2. IInv /\ [OwnerNext]_ownerVars => IInv'
  BY Zenon, StepIsSafe
<1> QED BY <1>1, <1>2, PTL DEF OwnerSpec

\* The page never runs ahead of the server (view.epoch, view.rev), and what the
\* stores, handlers and messages hold keeps its type.
THEOREM OwnerTypeCorrect ==
  ASSUME OwnerParameters
  PROVE  OwnerSpec => []OwnerTypeOK
<1>1. IInv => OwnerTypeOK
  BY Zenon DEF IInv
<1> QED BY <1>1, OwnerInvariant, PTL

\* Owner, members and invitees share one key for the circle's epoch, however
\* often membership changes, invitations are served late and the page is
\* reloaded, while activations do not overlap and every answer is seen.
THEOREM OneKeyForAll ==
  ASSUME OwnerParameters
  PROVE  OwnerSpec => []OneKeyPerEpoch
<1>1. IInv => OneKeyPerEpoch
  BY Zenon DEF IInv, Undisturbed, Agreed, OneKeyPerEpoch
<1> QED BY <1>1, OwnerInvariant, PTL

\* commit_epoch never replaces the key of an epoch, whatever requests arrive
\* late, twice or after their activation was given up.
THEOREM EpochKeysAreFinal ==
  ASSUME OwnerParameters
  PROVE  OwnerSpec => CommittedKeyIsFinal
<1>1. ASSUME IInv, [OwnerNext]_ownerVars, NEW e \in Epoch, committed[e].wrap # NoKey
      PROVE  committed'[e] = committed[e]
  <2>1. OwnerTypeOK /\ Behind
    BY Zenon, <1>1 DEF IInv
  <2>2. ASSUME NEW r \in requests, ServeCommit(r), Acceptable(r)
        PROVE  committed'[e] = committed[e]
    <3>0. ~(e > server_epoch)
      BY Zenon, <1>1, <2>1 DEF Behind
    <3>1. e <= server_epoch
      BY SMT, <1>1, <2>1, <3>0, Numbers DEF Epoch
    <3>2. r.next = server_epoch + 1 /\ e # r.next
      BY <2>1, <2>2, <3>1, Numbers DEF Acceptable, Epoch
    <3>3. committed' = [committed EXCEPT ![r.next] = [name |-> r.name, wrap |-> r.wrap]]
      BY Zenon, <2>2 DEF ServeCommit
    <3> QED BY Zenon, <2>1, <3>2, <3>3 DEF OwnerTypeOK
  <2>3. ASSUME NEW r \in requests, ServeCommit(r), ~Acceptable(r)
        PROVE  committed' = committed
    BY Zenon, <2>3 DEF ServeCommit
  <2>4. ASSUME ActivationStep PROVE committed' = committed
    BY Zenon, <2>4 DEF ActivationStep, Activate, SaveLive, SaveVault, Wrap, Post, Answer, TimeOut, server
  <2>5. ASSUME InviteSend \/ ServeInvite \/ InviteAnswer \/ HearEpoch \/ ReloadPage
        PROVE  committed' = committed
    BY Zenon, <2>5 DEF InviteSend, ServeInvite, InviteAnswer, HearEpoch, ReloadPage, server
  <2>6. ASSUME NEW leaves \in BOOLEAN, MemberChange(leaves) PROVE committed' = committed
    BY Zenon, <2>6 DEF MemberChange
  <2>7. ASSUME UNCHANGED ownerVars PROVE committed' = committed
    BY Zenon, <2>7 DEF ownerVars, server
  <2> QED BY Zenon, <1>1, <2>2, <2>3, <2>4, <2>5, <2>6, <2>7 DEF OwnerNext
<1>2. IInv /\ [OwnerNext]_ownerVars =>
        [\A e \in Epoch : committed[e].wrap # NoKey => committed'[e] = committed[e]]_ownerVars
  BY Zenon, <1>1
<1> QED BY <1>2, OwnerInvariant, PTL DEF OwnerSpec, CommittedKeyIsFinal

-----------------------------------------------------------------------------
Readable == VaultParameters /\ ReadsFail = FALSE

-----------------------------------------------------------------------------
(* The inductive invariant *)

\* What a call holds, by what it does and how far it is.
WellFormed(c) ==
  /\ c.op = "identity" => c.sk \in Key
  /\ c.op \in {"circle", "migrate"} /\ c.ph \in {"wait", "has"} => c.entry \in Entry
  /\ c.op = "picked" => c.ph = "done" /\ c.seen \in Payload
  /\ c.ph = "kdf" => c.seen \in Payload
CallsFormed == \A p \in Proc : WellFormed(task[p])

\* The lock is held by the one call that is between its load and its save.
Holder == \A p \in Proc : lock = p <=> task[p].ph = "has"

\* ... and the vault is still what that call has loaded.
Current == \A p \in Proc : task[p].ph = "has" => task[p].seen = loadVault

Stored == vault # None => vault.sk \in was
Kept == saved # {} => vault # None /\ saved \subseteq loadVault.circles
NotBefore == vault = None => was = {}
CreatedOnce == \E k \in Key : was \ chosen \subseteq {k}

\* The lock and the calls, with what they have seen of the vault.
LockInv == task \in [Proc -> Call] /\ CallsFormed /\ Holder /\ Current
\* What the vault holds and has held.
VaultInv == Stored /\ Kept /\ NotBefore /\ CreatedOnce

VaultIInv == VaultTypeOK /\ LockInv /\ VaultInv /\ BootedOnStoredKey

-----------------------------------------------------------------------------
(* Facts about the operators *)

\* What loadVault answers, by whether there is a record.
LEMMA LoadVaultFact ==
  ASSUME Readable, vault \in Record \cup {None}
  PROVE  /\ vault = None => loadVault = None
         /\ vault # None => /\ loadVault \in Payload /\ loadVault # None
                            /\ loadVault.sk = vault.sk
                            /\ loadVault.circles \subseteq vault.circles
BY DEF Readable, VaultParameters, loadVault, Payload, Record

\* After saveVaultUnlocked the vault is read as the payload that was saved.
LEMMA SavedFact ==
  ASSUME Readable, NEW payload \in Payload, saveVaultUnlocked(payload)
  PROVE  /\ vault' \in Record /\ vault' # None
         /\ vault'.sk = payload.sk /\ loadVault' = payload
BY DEF Readable, VaultParameters, saveVaultUnlocked, loadVault, Payload, Record

\* Without a failing read a call is told what the vault holds.
LEMMA LoadedFact ==
  ASSUME Readable
  PROVE  Loaded = {loadVault}
BY Zenon DEF Readable, Loaded

\* saveSecretKeyUnlocked replaces the key and keeps the circles.
LEMMA WithSecretKeyFact ==
  ASSUME Readable, NEW seen \in Payload \cup {None}, NEW k \in Key
  PROVE  /\ withSecretKey(seen, k) \in Payload
         /\ withSecretKey(seen, k).sk = k
         /\ seen # None => withSecretKey(seen, k).circles = seen.circles
         /\ seen = None => withSecretKey(seen, k).circles = {}
BY Zenon DEF Readable, VaultParameters, withSecretKey, Payload

\* upsertCircleKey keeps the identity and adds the entry; with one key per
\* circle and epoch its filter removes nothing else.
LEMMA WithCircleFact ==
  ASSUME Readable, NEW seen \in Payload, NEW e \in Entry
  PROVE  /\ withCircle(seen, e) \in Payload
         /\ withCircle(seen, e).sk = seen.sk
         /\ withCircle(seen, e).circles = seen.circles \cup {e}
<1> DEFINE kept == {c \in seen.circles : ~(c.id = e.id /\ c.epoch = e.epoch)} \cup {e}
<1>1. seen.circles \in SUBSET Entry /\ seen.sk \in Key
  BY Zenon DEF Payload
<1>2. withCircle(seen, e) = [sk |-> seen.sk, circles |-> kept]
  BY DEF withCircle, Payload
<1>3. kept = seen.circles \cup {e}
  <2>1. ASSUME NEW c \in seen.circles, c # e
        PROVE  ~(c.id = e.id /\ c.epoch = e.epoch)
    BY Zenon, <2>1, <1>1 DEF Readable, VaultParameters
  <2> QED BY Zenon, <2>1
<1>4. kept \in SUBSET Entry
  BY Zenon, <1>1
<1> HIDE DEF kept
<1> QED BY <1>1, <1>2, <1>3, <1>4 DEF Payload

\* The calls the user starts, and those they go on as, are well formed.
LEMMA CallFact ==
  ASSUME Readable
  PROVE  /\ Idle \in Call /\ WellFormed(Idle) /\ Idle.ph = "done"
         /\ Boot \in Call /\ WellFormed(Boot) /\ Boot.ph = "wait"
         /\ \A k \in Key : /\ generateNewIdentity(k) \in Call
                           /\ WellFormed(generateNewIdentity(k))
                           /\ generateNewIdentity(k).ph = "wait"
                           /\ importFromNsec(k) = generateNewIdentity(k)
         /\ \A f \in Payload : /\ restoreIdentityFromSecretKey(f) \in Call
                               /\ WellFormed(restoreIdentityFromSecretKey(f))
                               /\ restoreIdentityFromSecretKey(f).ph = "wait"
         /\ \A todo \in SUBSET Entry : /\ applyRestore(todo) \in Call
                                       /\ WellFormed(applyRestore(todo))
                                       /\ applyRestore(todo).ph # "has"
<1>1. Idle \in Call /\ WellFormed(Idle) /\ Idle.ph = "done"
  BY Zenon DEF Idle, Call, WellFormed
<1>2. Boot \in Call /\ WellFormed(Boot) /\ Boot.ph = "wait"
  BY Zenon DEF Idle, Boot, Call, WellFormed
<1>3. ASSUME NEW k \in Key
      PROVE  /\ generateNewIdentity(k) \in Call
             /\ WellFormed(generateNewIdentity(k))
             /\ generateNewIdentity(k).ph = "wait"
             /\ importFromNsec(k) = generateNewIdentity(k)
  BY Zenon DEF Idle, generateNewIdentity, importFromNsec, Call, WellFormed
<1>4. ASSUME NEW f \in Payload
      PROVE  /\ restoreIdentityFromSecretKey(f) \in Call
             /\ WellFormed(restoreIdentityFromSecretKey(f))
             /\ restoreIdentityFromSecretKey(f).ph = "wait"
  <2>1. f.sk \in Key /\ f.circles \in SUBSET Entry
    BY Zenon DEF Payload
  <2> QED BY Zenon, <2>1 DEF Idle, restoreIdentityFromSecretKey, Call, WellFormed
<1>5. ASSUME NEW todo \in SUBSET Entry
      PROVE  /\ applyRestore(todo) \in Call
             /\ WellFormed(applyRestore(todo))
             /\ applyRestore(todo).ph # "has"
  BY Zenon, <1>1 DEF Idle, applyRestore, Call, WellFormed
<1> QED BY Zenon, <1>1, <1>2, <1>3, <1>4, <1>5

-----------------------------------------------------------------------------
(* Steps that several actions share *)

\* A step that leaves the vault and its history alone keeps what is said of them.
LEMMA VaultUnchanged ==
  ASSUME VaultInv, UNCHANGED <<vault, was, chosen, saved>>
  PROVE  VaultInv'
BY Zenon DEF VaultInv, Stored, Kept, NotBefore, CreatedOnce, loadVault

\* A user's call starts, goes on or ends without the lock.
LEMMA CallStep ==
  ASSUME LockInv, NEW p \in Proc, NEW call \in Call, WellFormed(call), call.ph # "has",
         task[p].ph # "has", task' = [task EXCEPT ![p] = call], UNCHANGED <<vault, lock>>
  PROVE  LockInv'
<1>1. task' \in [Proc -> Call]
  BY Zenon DEF LockInv
<1>2. \A q \in Proc : task'[q] = IF q = p THEN call ELSE task[q]
  BY Zenon DEF LockInv
<1>3. CallsFormed'
  BY Zenon, <1>2 DEF LockInv, CallsFormed
<1>4. Holder'
  BY Zenon, <1>2 DEF LockInv, Holder
<1>5. Current'
  <2>1. loadVault' = loadVault
    BY Zenon DEF loadVault
  <2> QED BY Zenon, <1>2, <2>1 DEF LockInv, Current
<1> QED BY Zenon, <1>1, <1>3, <1>4, <1>5 DEF LockInv

\* The holder of the lock releases it: nobody has a view of the vault any more.
LEMMA ReleaseStep ==
  ASSUME Readable, LockInv, NEW p \in Proc, NEW next \in Call, WellFormed(next),
         next.ph # "has", task[p].ph = "has", release(p, next)
  PROVE  LockInv' /\ lock' = None
<1>1. lock = p /\ lock' = None
  BY Zenon DEF LockInv, Holder, release
<1>2. task' = [task EXCEPT ![p] = next]
  BY Zenon DEF release
<1>3. task' \in [Proc -> Call]
  BY Zenon, <1>2 DEF LockInv
<1>4. \A q \in Proc : task'[q] = IF q = p THEN next ELSE task[q]
  BY Zenon, <1>2 DEF LockInv
<1>5. CallsFormed'
  BY Zenon, <1>4 DEF LockInv, CallsFormed
<1>6. \A q \in Proc : task'[q].ph # "has"
  BY Zenon, <1>1, <1>4 DEF LockInv, Holder
<1>7. \A q \in Proc : lock' # q
  BY Zenon, <1>1 DEF Readable, VaultParameters
<1>8. Holder' /\ Current'
  BY Zenon, <1>6, <1>7 DEF Holder, Current
<1> QED BY Zenon, <1>1, <1>3, <1>5, <1>8 DEF LockInv

\* A step of a user's call leaves the boots alone.
LEMMA BootsUnchanged ==
  ASSUME BootedOnStoredKey, task \in [Proc -> Call], NEW t \in Tab, NEW call,
         task' = [task EXCEPT ![<<t, "ui">>] = call],
         UNCHANGED <<kp, degraded>>, was \subseteq was'
  PROVE  BootedOnStoredKey'
<1>1. ASSUME NEW u \in Tab PROVE task'[<<u, "boot">>] = task[<<u, "boot">>]
  <2>1. <<u, "boot">> \in Proc /\ <<u, "boot">> # <<t, "ui">>
    BY Zenon DEF Proc
  <2> QED BY Zenon, <2>1
<1> QED BY Zenon, <1>1 DEF BootedOnStoredKey

\* A step of a user's call that neither takes nor holds the lock.
LEMMA UserStep ==
  ASSUME Readable, VaultIInv, NEW t \in Tab, NEW call \in Call, WellFormed(call),
         call.ph # "has", task[<<t, "ui">>].ph # "has",
         task' = [task EXCEPT ![<<t, "ui">>] = call],
         UNCHANGED <<vault, lock, kp, was, chosen, saved, degraded>>,
         live' \in SUBSET Entry, legacy' \in {"none", "idb", "local"},
         minted' \in 0 .. MaxKeys, calls' \in 0 .. MaxCalls, faults' \in 0 .. MaxFaults,
         files' \in SUBSET Payload
  PROVE  VaultIInv'
<1>1. <<t, "ui">> \in Proc
  BY Zenon DEF Proc
<1>2. LockInv'
  BY Zenon, <1>1, CallStep DEF VaultIInv
<1>3. VaultInv'
  BY Zenon, VaultUnchanged DEF VaultIInv
<1>4. BootedOnStoredKey'
  BY Zenon, BootsUnchanged DEF VaultIInv, LockInv
<1>5. VaultTypeOK'
  BY Zenon, <1>2 DEF VaultIInv, VaultTypeOK, LockInv
<1> QED BY Zenon, <1>2, <1>3, <1>4, <1>5 DEF VaultIInv

\* The user's call holds the lock and releases it, the vault being as it was.
LEMMA GiveUpStep ==
  ASSUME Readable, VaultIInv, NEW t \in Tab, NEW next \in Call, WellFormed(next),
         next.ph # "has", task[<<t, "ui">>].ph = "has", release(<<t, "ui">>, next),
         UNCHANGED <<vault, kp, was, chosen, saved, degraded, live, legacy, minted, calls, files>>,
         faults' \in 0 .. MaxFaults
  PROVE  VaultIInv'
<1>1. <<t, "ui">> \in Proc
  BY Zenon DEF Proc
<1>2. LockInv' /\ lock' = None
  BY Zenon, <1>1, ReleaseStep DEF VaultIInv
<1>3. VaultInv'
  BY Zenon, VaultUnchanged DEF VaultIInv
<1>4. BootedOnStoredKey'
  BY Zenon, BootsUnchanged DEF VaultIInv, LockInv, release
<1>5. VaultTypeOK'
  BY Zenon, <1>2 DEF VaultIInv, VaultTypeOK, LockInv
<1> QED BY Zenon, <1>2, <1>3, <1>4, <1>5 DEF VaultIInv

-----------------------------------------------------------------------------
(* The actions *)

\* Starting a call of the user keeps the invariant.
LEMMA StartStep ==
  ASSUME Readable, VaultIInv, NEW t \in Tab, NEW call \in Call, WellFormed(call),
         call.ph # "has", Start(t, call),
         minted' \in 0 .. MaxKeys, UNCHANGED <<store, lock, kp, faults, history>>
  PROVE  VaultIInv'
<1>1. task[<<t, "ui">>].ph # "has" /\ task' = [task EXCEPT ![<<t, "ui">>] = call]
  BY Zenon, CallFact DEF Start
<1>2. calls' \in 0 .. MaxCalls
  BY DEF Start, VaultIInv, VaultTypeOK, Readable, VaultParameters
<1>3. UNCHANGED <<vault, live, legacy, was, chosen, saved, files, degraded>>
  BY Zenon DEF store, history
<1>4. /\ live' \in SUBSET Entry /\ legacy' \in {"none", "idb", "local"}
      /\ faults' \in 0 .. MaxFaults /\ files' \in SUBSET Payload
  BY Zenon, <1>3 DEF VaultIInv, VaultTypeOK
<1> QED BY Zenon, <1>1, <1>2, <1>3, <1>4, UserStep

\* The handlers of the Settings page and the callers of the key store that
\* begin a call (handleGenerate, handleImport, handleFilePicked,
\* rotateCircleKey, loadCircleKey, exportBackup) keep the invariant.
LEMMA HandlersStart ==
  ASSUME Readable, VaultIInv, NEW t \in Tab,
         \/ handleGenerate(t) \/ handleImport(t) \/ handleFilePicked(t)
         \/ rotateCircleKey(t) \/ loadCircleKey(t) \/ exportBackup(t)
  PROVE  VaultIInv'
<1>0. minted \in 0 .. MaxKeys /\ MaxKeys \in Nat /\ vault \in Record \cup {None}
  BY Zenon DEF VaultIInv, VaultTypeOK, Readable, VaultParameters
<1>1. ASSUME handleGenerate(t) PROVE VaultIInv'
  <2>1. PICK k \in Key : Fresh(k) /\ Start(t, generateNewIdentity(k))
    BY Zenon, <1>1 DEF handleGenerate
  <2>2. minted' \in 0 .. MaxKeys
    BY <2>1, <1>0 DEF Fresh, Key
  <2>3. generateNewIdentity(k) \in Call /\ WellFormed(generateNewIdentity(k))
        /\ generateNewIdentity(k).ph # "has"
    BY Zenon, CallFact
  <2> QED BY Zenon, <1>1, <2>1, <2>2, <2>3, StartStep DEF handleGenerate
<1>2. ASSUME handleImport(t) PROVE VaultIInv'
  <2>1. PICK k \in 1 .. minted : Start(t, importFromNsec(k))
    BY Zenon, <1>2 DEF handleImport
  <2>2. k \in Key
    BY <1>0 DEF Key
  <2>3. importFromNsec(k) \in Call /\ WellFormed(importFromNsec(k))
        /\ importFromNsec(k).ph # "has"
    BY Zenon, <2>2, CallFact
  <2> QED BY Zenon, <1>0, <1>2, <2>1, <2>3, StartStep DEF handleImport
<1>3. ASSUME handleFilePicked(t) PROVE VaultIInv'
  <2>1. PICK f \in files : Start(t, [Idle EXCEPT !.op = "picked", !.seen = f])
    BY Zenon, <1>3 DEF handleFilePicked, decryptBackup
  <2>2. f \in Payload
    BY Zenon DEF VaultIInv, VaultTypeOK
  <2> DEFINE c == [Idle EXCEPT !.op = "picked", !.seen = f]
  <2>3. c \in Call /\ WellFormed(c) /\ c.ph # "has"
    BY Zenon, <2>2 DEF Idle, Call, WellFormed
  <2> QED BY Zenon, <1>0, <1>3, <2>1, <2>3, StartStep DEF handleFilePicked
<1>4. ASSUME rotateCircleKey(t) PROVE VaultIInv'
  <2>1. PICK e \in Entry : Start(t, [Idle EXCEPT !.op = "circle", !.ph = "put", !.todo = {e}])
    BY Zenon, <1>4 DEF rotateCircleKey
  <2> DEFINE c == [Idle EXCEPT !.op = "circle", !.ph = "put", !.todo = {e}]
  <2>3. c \in Call /\ WellFormed(c) /\ c.ph # "has"
    BY Zenon DEF Idle, Call, WellFormed
  <2> QED BY Zenon, <1>0, <1>4, <2>1, <2>3, StartStep DEF rotateCircleKey
<1>5. ASSUME loadCircleKey(t) PROVE VaultIInv'
  <2> DEFINE c == [Idle EXCEPT !.op = "migrate", !.ph = "put", !.todo = {Legacy}]
  <2>3. c \in Call /\ WellFormed(c) /\ c.ph # "has"
    BY Zenon DEF Idle, Call, WellFormed, Readable, VaultParameters
  <2> QED BY Zenon, <1>0, <1>5, <2>3, StartStep DEF loadCircleKey
<1>6. ASSUME exportBackup(t) PROVE VaultIInv'
  <2> DEFINE c == [Idle EXCEPT !.op = "export", !.ph = "kdf", !.seen = loadVault]
  <2>1. loadVault \in Payload
    BY Zenon, <1>0, <1>6, LoadVaultFact DEF exportBackup
  <2>3. c \in Call /\ WellFormed(c) /\ c.ph # "has"
    BY Zenon, <2>1 DEF Idle, Call, WellFormed
  <2> QED BY Zenon, <1>0, <1>6, <2>3, StartStep DEF exportBackup
<1> QED BY Zenon, <1>1, <1>2, <1>3, <1>4, <1>5, <1>6

\* A restore that is confirmed goes on as the write of its identity.
LEMMA ConfirmStep ==
  ASSUME Readable, VaultIInv, NEW t \in Tab, handleConfirmRestore(t)
  PROVE  VaultIInv'
<1> DEFINE p == <<t, "ui">>
<1>1. p \in Proc
  BY Zenon DEF Proc
<1>2. task[p].seen \in Payload /\ task[p].ph # "has"
  BY Zenon, <1>1 DEF handleConfirmRestore, VaultIInv, LockInv, CallsFormed, WellFormed
<1> DEFINE c == restoreIdentityFromSecretKey(task[p].seen)
<1>3. c \in Call /\ WellFormed(c) /\ c.ph # "has"
  BY Zenon, <1>2, CallFact
<1>4. task' = [task EXCEPT ![p] = c]
  BY Zenon DEF handleConfirmRestore
<1> HIDE DEF c
<1>5. UNCHANGED <<vault, lock, kp, was, chosen, saved, degraded, live, legacy, minted, calls,
                  faults, files>>
  BY Zenon DEF handleConfirmRestore, store, history
<1>6. /\ live' \in SUBSET Entry /\ legacy' \in {"none", "idb", "local"}
      /\ minted' \in 0 .. MaxKeys /\ calls' \in 0 .. MaxCalls /\ faults' \in 0 .. MaxFaults
      /\ files' \in SUBSET Payload
  BY Zenon, <1>5 DEF VaultIInv, VaultTypeOK
<1> QED BY Zenon, <1>2, <1>3, <1>4, <1>5, <1>6, UserStep

\* The write to the live key store comes before the lock is asked for.
LEMMA PutStep ==
  ASSUME Readable, VaultIInv, NEW t \in Tab, saveCircleKeyWithBackup(t) \/ migrateLegacy(t)
  PROVE  VaultIInv'
<1> DEFINE p == <<t, "ui">>
<1>1. p \in Proc /\ task[p] \in Call /\ task[p].ph # "has"
  BY Zenon DEF Proc, VaultIInv, LockInv, saveCircleKeyWithBackup, migrateLegacy
<1>2. UNCHANGED <<vault, lock, kp, was, chosen, saved, degraded, minted, calls, faults, files>>
  BY Zenon DEF saveCircleKeyWithBackup, migrateLegacy, history
<1>3. /\ minted' \in 0 .. MaxKeys /\ calls' \in 0 .. MaxCalls /\ faults' \in 0 .. MaxFaults
      /\ files' \in SUBSET Payload
  BY Zenon, <1>2 DEF VaultIInv, VaultTypeOK
<1>4. ASSUME NEW e \in Entry, NEW ph \in {"wait", "drop"}, NEW todo \in SUBSET Entry,
             task[p].op \in {"circle", "migrate"},
             task' = [task EXCEPT ![p].ph = ph, ![p].entry = e, ![p].todo = todo],
             idbPut(e), legacy' \in {"none", "idb", "local"}
      PROVE  VaultIInv'
  <2> DEFINE c == [task[p] EXCEPT !.ph = ph, !.entry = e, !.todo = todo]
  <2>1. c \in Call /\ c.ph # "has" /\ WellFormed(c)
    BY Zenon, <1>1, <1>4 DEF Call, WellFormed
  <2>2. task' = [task EXCEPT ![p] = c]
    BY Zenon, <1>1, <1>4 DEF VaultIInv, LockInv
  <2>3. live' \in SUBSET Entry
    BY Zenon, <1>4 DEF idbPut, VaultIInv, VaultTypeOK
  <2> HIDE DEF c
  <2> QED BY Zenon, <1>1, <1>2, <1>3, <1>4, <2>1, <2>2, <2>3, UserStep
<1>5. CASE saveCircleKeyWithBackup(t)
  <2>1. PICK e \in task[p].todo :
          /\ idbPut(e)
          /\ legacy' = IF legacy = "local" /\ e.id = Legacy.id THEN "none" ELSE legacy
          /\ task' = [task EXCEPT ![p].ph = "wait", ![p].entry = e, ![p].todo = @ \ {e}]
    BY Zenon, <1>5 DEF saveCircleKeyWithBackup
  <2>2. task[p].todo \in SUBSET Entry
    BY Zenon, <1>1 DEF Call
  <2>3. e \in Entry /\ task[p].todo \ {e} \in SUBSET Entry
    BY Zenon, <2>2
  <2>4. legacy' \in {"none", "idb", "local"}
    BY Zenon, <2>1 DEF VaultIInv, VaultTypeOK
  <2>5. task' = [task EXCEPT ![p].ph = "wait", ![p].entry = e, ![p].todo = task[p].todo \ {e}]
    BY Zenon, <2>1, <1>1 DEF VaultIInv, LockInv, Call
  <2>6. task[p].op = "circle"
    BY Zenon, <1>5 DEF saveCircleKeyWithBackup
  <2> QED BY Zenon, <1>4, <2>1, <2>3, <2>4, <2>5, <2>6
<1>6. CASE migrateLegacy(t)
  <2>1. PICK ph \in {"wait", "drop"} :
          task' = [task EXCEPT ![p].ph = ph, ![p].entry = Legacy, ![p].todo = {}]
    BY Zenon, <1>6 DEF migrateLegacy
  <2>2. Legacy \in Entry
    BY Zenon DEF Readable, VaultParameters
  <2>3. legacy' \in {"none", "idb", "local"} /\ task[p].op = "migrate" /\ idbPut(Legacy)
    BY Zenon, <1>6 DEF migrateLegacy, VaultIInv, VaultTypeOK
  <2>4. {} \in SUBSET Entry /\ task[p].op \in {"circle", "migrate"}
    BY Zenon, <2>3
  <2> QED BY Zenon, <1>4, <2>1, <2>2, <2>3, <2>4
<1> QED BY Zenon, <1>5, <1>6

\* The last step of a migration and of an export.
LEMMA EndStep ==
  ASSUME Readable, VaultIInv, NEW t \in Tab, dropLegacy(t) \/ saveVaultMeta(t)
  PROVE  VaultIInv'
<1> DEFINE p == <<t, "ui">>
<1>1. p \in Proc
  BY Zenon DEF Proc
<1>2. task[p].ph # "has" /\ task' = [task EXCEPT ![p] = Idle]
  BY Zenon DEF dropLegacy, saveVaultMeta
<1>3. UNCHANGED <<vault, lock, kp, was, chosen, saved, degraded, live, minted, calls, faults>>
  BY Zenon DEF dropLegacy, saveVaultMeta, history
<1>4. legacy' \in {"none", "idb", "local"}
  BY Zenon DEF dropLegacy, saveVaultMeta, VaultIInv, VaultTypeOK
<1>5. files' \in SUBSET Payload
  <2>1. CASE dropLegacy(t)
    BY Zenon, <2>1 DEF dropLegacy, history, VaultIInv, VaultTypeOK
  <2>2. CASE saveVaultMeta(t)
    <3>1. task[p].seen \in Payload
      BY Zenon, <2>2, <1>1 DEF saveVaultMeta, VaultIInv, LockInv, CallsFormed, WellFormed
    <3> QED BY Zenon, <2>2, <3>1 DEF saveVaultMeta, VaultIInv, VaultTypeOK
  <2> QED BY Zenon, <2>1, <2>2
<1>6. /\ live' \in SUBSET Entry /\ minted' \in 0 .. MaxKeys /\ calls' \in 0 .. MaxCalls
      /\ faults' \in 0 .. MaxFaults
  BY Zenon, <1>3 DEF VaultIInv, VaultTypeOK
<1>7. Idle \in Call /\ WellFormed(Idle) /\ Idle.ph # "has"
  BY Zenon, CallFact
<1> QED BY Zenon, <1>2, <1>3, <1>4, <1>5, <1>6, <1>7, UserStep

\* A storage call that rejects ends the user's call, or the circle it was at.
LEMMA FailStep ==
  ASSUME Readable, VaultIInv, NEW t \in Tab, callFails(t)
  PROVE  VaultIInv'
<1> DEFINE p == <<t, "ui">>
<1>1. p \in Proc /\ task[p] \in Call
  BY Zenon DEF Proc, VaultIInv, LockInv
<1>2. PICK next \in Call : WellFormed(next) /\ next.ph # "has" /\ release(p, next)
  <2>1. task[p].todo \in SUBSET Entry
    BY Zenon, <1>1 DEF Call
  <2>2. \A e \in task[p].todo : task[p].todo \ {e} \in SUBSET Entry
    BY Zenon, <2>1
  <2>3. \/ release(p, Idle) \/ release(p, applyRestore(task[p].todo))
        \/ \E e \in task[p].todo : release(p, applyRestore(task[p].todo \ {e}))
    BY Zenon DEF callFails
  <2>4. Idle \in Call /\ WellFormed(Idle) /\ Idle.ph # "has"
    BY Zenon, CallFact
  <2>5. \A todo \in SUBSET Entry : /\ applyRestore(todo) \in Call
                                   /\ WellFormed(applyRestore(todo))
                                   /\ applyRestore(todo).ph # "has"
    BY Zenon, CallFact
  <2> QED BY Zenon, <2>1, <2>2, <2>3, <2>4, <2>5
<1>3. UNCHANGED <<vault, kp, was, chosen, saved, degraded, live, legacy, minted, calls, files>>
  BY Zenon DEF callFails, store, history
<1>4. faults' \in 0 .. MaxFaults
  BY DEF callFails, VaultIInv, VaultTypeOK, Readable, VaultParameters
<1>5. CASE task[p].ph = "has"
  BY Zenon, <1>2, <1>3, <1>4, <1>5, GiveUpStep
<1>6. CASE task[p].ph # "has"
  <2>1. lock' = lock /\ task' = [task EXCEPT ![p] = next]
    BY Zenon, <1>1, <1>2, <1>6 DEF release, VaultIInv, LockInv, Holder
  <2>2. /\ live' \in SUBSET Entry /\ legacy' \in {"none", "idb", "local"}
        /\ minted' \in 0 .. MaxKeys /\ calls' \in 0 .. MaxCalls /\ files' \in SUBSET Payload
    BY Zenon, <1>3 DEF VaultIInv, VaultTypeOK
  <2> QED BY Zenon, <1>2, <1>3, <1>4, <1>6, <2>1, <2>2, UserStep
<1> QED BY Zenon, <1>5, <1>6

\* withInitLock: the call that takes the lock loads the vault as it is.
LEMMA LockStep ==
  ASSUME Readable, VaultIInv, NEW p \in Proc, withInitLock(p)
  PROVE  VaultIInv'
<1> DEFINE c == [task[p] EXCEPT !.ph = "has", !.seen = loadVault]
<1>0. vault \in Record \cup {None} /\ task \in [Proc -> Call] /\ task[p] \in Call
  BY Zenon DEF VaultIInv, VaultTypeOK, LockInv
<1>1. task' = [task EXCEPT ![p] = c] /\ faults' = faults
  BY Zenon, <1>0, LoadedFact DEF withInitLock
<1>2. UNCHANGED <<vault, live, legacy, kp, minted, was, chosen, saved, files, degraded, calls>>
  BY Zenon DEF withInitLock, store, history
<1>3. loadVault \in Payload \cup {None} /\ loadVault' = loadVault
  BY Zenon, <1>0, <1>2, LoadVaultFact DEF loadVault
<1>4. c \in Call /\ c.ph = "has" /\ c.seen = loadVault /\ WellFormed(c)
  <2>1. c \in Call /\ c.ph = "has" /\ c.seen = loadVault
    BY Zenon, <1>0, <1>3 DEF Call
  <2>2. WellFormed(task[p]) /\ task[p].ph = "wait"
    BY Zenon DEF withInitLock, VaultIInv, LockInv, CallsFormed
  <2> QED BY Zenon, <1>0, <2>1, <2>2 DEF WellFormed, Call
<1> HIDE DEF c
<1>5. \A q \in Proc : task'[q] = IF q = p THEN c ELSE task[q]
  BY Zenon, <1>0, <1>1
<1>6. \A q \in Proc : task[q].ph # "has"
  BY Zenon DEF withInitLock, VaultIInv, LockInv, Holder, Readable, VaultParameters
<1>7. LockInv'
  <2>1. task' \in [Proc -> Call] /\ CallsFormed'
    BY Zenon, <1>0, <1>1, <1>4, <1>5 DEF CallsFormed, VaultIInv, LockInv
  <2>2. Holder'
    BY Zenon, <1>4, <1>5, <1>6 DEF Holder, withInitLock
  <2>3. Current'
    BY Zenon, <1>3, <1>4, <1>5, <1>6 DEF Current
  <2> QED BY Zenon, <2>1, <2>2, <2>3 DEF LockInv
<1>8. VaultInv'
  BY Zenon, <1>2, VaultUnchanged DEF VaultIInv
<1>9. BootedOnStoredKey'
  <2>1. c # Idle
    BY Zenon, <1>4, CallFact
  <2>2. \A t \in Tab : <<t, "boot">> \in Proc
    BY Zenon DEF Proc
  <2> QED BY Zenon, <1>2, <1>5, <2>1, <2>2 DEF BootedOnStoredKey, VaultIInv
<1>10. VaultTypeOK'
  BY Zenon, <1>1, <1>2, <1>7 DEF VaultIInv, VaultTypeOK, LockInv, withInitLock
<1> QED BY Zenon, <1>7, <1>8, <1>9, <1>10 DEF VaultIInv

\* getCachedKeypair mints its throw-away key only while the boot is in flight.
LEMMA CachedStep ==
  ASSUME Readable, VaultIInv, NEW t \in Tab, getCachedKeypair(t)
  PROVE  VaultIInv'
<1>1. UNCHANGED <<vault, live, legacy, lock, task, minted, faults, was, chosen, saved, files,
                  degraded, calls>>
  BY Zenon DEF getCachedKeypair, store, history
<1>2. kp \in [Tab -> Key \cup {None, Temp}] /\ kp' = [kp EXCEPT ![t] = Temp] /\ kp[t] = None
  BY Zenon DEF getCachedKeypair, VaultIInv, VaultTypeOK
<1>3. LockInv'
  BY Zenon, <1>1 DEF VaultIInv, LockInv, CallsFormed, Holder, Current, loadVault
<1>4. VaultInv'
  BY Zenon, <1>1, VaultUnchanged DEF VaultIInv
<1>5. BootedOnStoredKey'
  <2>1. None \notin was
    BY Zenon DEF VaultIInv, VaultTypeOK, Readable, VaultParameters
  <2> QED BY Zenon, <1>1, <1>2, <2>1 DEF BootedOnStoredKey, VaultIInv
<1>6. VaultTypeOK'
  BY Zenon, <1>1, <1>2 DEF VaultIInv, VaultTypeOK
<1> QED BY Zenon, <1>3, <1>4, <1>5, <1>6 DEF VaultIInv

\* A boot without storage: the tab is counted as degraded.
LEMMA DegradeStep ==
  ASSUME Readable, VaultIInv, NEW t \in Tab, loadIdentityDegrades(t)
  PROVE  VaultIInv'
<1> DEFINE p == <<t, "boot">>
<1>1. UNCHANGED <<vault, live, legacy, minted, was, chosen, saved, files, calls>>
  BY Zenon DEF loadIdentityDegrades, store
<1>2. p \in Proc /\ task \in [Proc -> Call]
  BY Zenon DEF Proc, VaultIInv, LockInv
<1>3. LockInv' /\ lock' = None /\ task' = [task EXCEPT ![p] = Idle]
  BY Zenon, <1>2, CallFact, ReleaseStep DEF VaultIInv, loadIdentityDegrades, release
<1>4. VaultInv'
  BY Zenon, <1>1, VaultUnchanged DEF VaultIInv
<1>5. kp' = [kp EXCEPT ![t] = Temp] /\ kp \in [Tab -> Key \cup {None, Temp}]
      /\ degraded' = degraded \cup {t}
  BY Zenon DEF loadIdentityDegrades, VaultIInv, VaultTypeOK
<1>6. BootedOnStoredKey'
  <2>1. ASSUME NEW u \in Tab, u # t
        PROVE  task'[<<u, "boot">>] = task[<<u, "boot">>] /\ kp'[u] = kp[u]
    <3>1. <<u, "boot">> \in Proc /\ <<u, "boot">> # p
      BY Zenon, <2>1 DEF Proc
    <3> QED BY Zenon, <1>2, <1>3, <1>5, <2>1, <3>1
  <2> QED BY Zenon, <1>1, <1>5, <2>1 DEF BootedOnStoredKey, VaultIInv
<1>7. VaultTypeOK'
  <2>1. faults' \in 0 .. MaxFaults
    BY DEF loadIdentityDegrades, VaultIInv, VaultTypeOK, Readable, VaultParameters
  <2>2. kp' \in [Tab -> Key \cup {None, Temp}] /\ degraded' \in SUBSET Tab
    BY Zenon, <1>5 DEF VaultIInv, VaultTypeOK
  <2> QED BY Zenon, <1>1, <1>3, <2>1, <2>2 DEF VaultIInv, VaultTypeOK, LockInv
<1> QED BY Zenon, <1>3, <1>4, <1>6, <1>7 DEF VaultIInv

\* A reload ends the calls of its tab and nothing else.
LEMMA TabReloadStep ==
  ASSUME Readable, VaultIInv, NEW t \in Tab, Reload(t)
  PROVE  VaultIInv'
<1>1. UNCHANGED <<vault, live, legacy, minted, was, chosen, saved, files, calls>>
  BY Zenon DEF Reload, store
<1>2. task \in [Proc -> Call] /\ kp \in [Tab -> Key \cup {None, Temp}]
  BY Zenon DEF VaultIInv, VaultTypeOK, LockInv
<1>3. /\ Idle \in Call /\ WellFormed(Idle) /\ Idle.ph # "has"
      /\ Boot \in Call /\ WellFormed(Boot) /\ Boot.ph # "has"
  BY Zenon, CallFact
<1>4. \A q \in Proc : q = <<q[1], q[2]>> /\ q[1] \in Tab /\ q[2] \in {"boot", "ui"}
  BY DEF Proc
<1>5. task' = [task EXCEPT ![<<t, "boot">>] = Boot, ![<<t, "ui">>] = Idle]
  BY Zenon DEF Reload
<1>6. task' \in [Proc -> Call]
  BY Zenon, <1>2, <1>3, <1>5
<1>7. \A q \in Proc : IF q[1] = t THEN task'[q] \in {Idle, Boot} ELSE task'[q] = task[q]
  BY <1>2, <1>4, <1>5
<1>8. LockInv'
  <2>1. CallsFormed'
    BY Zenon, <1>3, <1>7 DEF CallsFormed, VaultIInv, LockInv
  <2>2. Holder'
    <3>1. ASSUME NEW q \in Proc PROVE lock' = q <=> lock = q /\ q[1] # t
      BY Zenon, <3>1 DEF Reload, Readable, VaultParameters
    <3> QED BY Zenon, <1>3, <1>7, <3>1 DEF Holder, VaultIInv, LockInv
  <2>3. Current'
    BY Zenon, <1>1, <1>3, <1>7 DEF Current, VaultIInv, LockInv, loadVault
  <2> QED BY Zenon, <1>6, <2>1, <2>2, <2>3 DEF LockInv
<1>9. VaultInv'
  BY Zenon, <1>1, VaultUnchanged DEF VaultIInv
<1>10. BootedOnStoredKey'
  <2>1. ASSUME NEW u \in Tab, u # t
        PROVE  /\ task'[<<u, "boot">>] = task[<<u, "boot">>] /\ kp'[u] = kp[u]
               /\ u \in degraded' <=> u \in degraded
    <3>1. <<u, "boot">> \in Proc
      BY Zenon DEF Proc
    <3> QED BY Zenon, <1>2, <1>7, <2>1, <3>1 DEF Reload
  <2>2. task'[<<t, "boot">>] # Idle
    <3>1. <<t, "boot">> \in Proc /\ <<t, "boot">> # <<t, "ui">>
      BY Zenon DEF Proc
    <3>2. Boot # Idle
      BY Zenon, CallFact
    <3> QED BY Zenon, <1>2, <1>5, <3>1, <3>2
  <2> QED BY Zenon, <1>1, <2>1, <2>2 DEF BootedOnStoredKey, VaultIInv
<1>11. VaultTypeOK'
  <2>1. faults' \in 0 .. MaxFaults
    BY DEF Reload, VaultIInv, VaultTypeOK, Readable, VaultParameters
  <2>2. kp' \in [Tab -> Key \cup {None, Temp}] /\ degraded' \in SUBSET Tab
    BY Zenon, <1>2 DEF Reload, VaultIInv, VaultTypeOK
  <2>3. lock' \in Proc \cup {None}
    BY Zenon DEF Reload, VaultIInv, VaultTypeOK
  <2> QED BY Zenon, <1>1, <1>6, <2>1, <2>2, <2>3 DEF VaultIInv, VaultTypeOK
<1> QED BY Zenon, <1>8, <1>9, <1>10, <1>11 DEF VaultIInv

-----------------------------------------------------------------------------
(* The saves *)

\* What the holder of the lock has seen is what the vault holds.
LEMMA HolderSees ==
  ASSUME Readable, VaultIInv, NEW p \in Proc, task[p].ph = "has"
  PROVE  /\ task[p].seen = loadVault /\ task[p] \in Call /\ WellFormed(task[p])
         /\ loadVault \in Payload \cup {None} /\ vault \in Record \cup {None}
         /\ vault = None <=> loadVault = None
<1>1. vault \in Record \cup {None} /\ task[p] \in Call /\ WellFormed(task[p])
      /\ task[p].seen = loadVault
  BY Zenon DEF VaultIInv, VaultTypeOK, LockInv, Current, CallsFormed
<1> QED BY Zenon, <1>1, LoadVaultFact

\* A boot uses the stored key, or creates one and stores it in an empty vault.
LEMMA CreateStep ==
  ASSUME Readable, VaultIInv, NEW t \in Tab, loadOrCreateSecretKey(t)
  PROVE  VaultIInv'
<1> DEFINE p == <<t, "boot">>
<1>1. p \in Proc /\ task[p].ph = "has"
  BY Zenon DEF Proc, loadOrCreateSecretKey
<1>2. UNCHANGED <<live, legacy, faults, chosen, saved, files, degraded, calls>>
  BY Zenon DEF loadOrCreateSecretKey
<1>3. LockInv' /\ lock' = None /\ task' = [task EXCEPT ![p] = Idle]
  BY Zenon, <1>1, CallFact, ReleaseStep DEF VaultIInv, loadOrCreateSecretKey, release
<1>4. PICK k \in Key : /\ kp' = [kp EXCEPT ![t] = k] /\ k \in was' /\ was \subseteq was'
                       /\ was' \in SUBSET Key /\ minted' \in 0 .. MaxKeys
                       /\ vault' \in Record \cup {None} /\ VaultInv'
  <2>0. was \in SUBSET Key /\ minted \in 0 .. MaxKeys /\ vault \in Record \cup {None} /\ VaultInv
    BY Zenon DEF VaultIInv, VaultTypeOK
  <2>1. CASE task[p].seen # None
    <3>1. /\ kp' = [kp EXCEPT ![t] = task[p].seen.sk]
          /\ vault' = vault /\ was' = was /\ minted' = minted
      BY Zenon, <2>1 DEF loadOrCreateSecretKey
    <3>2. vault # None /\ task[p].seen.sk = vault.sk
      BY Zenon, <1>1, <2>0, <2>1, HolderSees, LoadVaultFact
    <3>3. vault.sk \in was /\ vault.sk \in Key
      BY Zenon, <2>0, <3>2 DEF VaultInv, Stored
    <3>4. VaultInv'
      BY Zenon, <1>2, <2>0, <3>1, VaultUnchanged
    <3> QED BY Zenon, <2>0, <3>1, <3>2, <3>3, <3>4
  <2>2. CASE task[p].seen = None
    <3>1. PICK k \in Key : /\ Fresh(k) /\ saveVaultUnlocked(withSecretKey(None, k))
                           /\ was' = was \cup {k} /\ kp' = [kp EXCEPT ![t] = k]
      BY Zenon, <2>2 DEF loadOrCreateSecretKey
    <3>2. vault = None
      BY Zenon, <1>1, <2>2, HolderSees
    <3>3. was = {} /\ saved = {}
      BY Zenon, <2>0, <3>2 DEF VaultInv, NotBefore, Kept
    <3>4. withSecretKey(None, k) \in Payload /\ withSecretKey(None, k).sk = k
      BY Zenon, WithSecretKeyFact
    <3>5. vault' \in Record /\ vault' # None /\ vault'.sk = k
      BY Zenon, <3>1, <3>4, SavedFact
    <3>6. VaultInv'
      BY Zenon, <1>2, <3>1, <3>3, <3>5 DEF VaultInv, Stored, Kept, NotBefore, CreatedOnce
    <3>7. minted' \in 0 .. MaxKeys
      BY <3>1 DEF Fresh, Key, Readable, VaultParameters
    <3> QED BY Zenon, <2>0, <3>1, <3>5, <3>6, <3>7
  <2> QED BY Zenon, <2>1, <2>2
<1>5. kp' \in [Tab -> Key \cup {None, Temp}]
  BY Zenon, <1>4 DEF VaultIInv, VaultTypeOK
<1>6. BootedOnStoredKey'
  <2>1. ASSUME NEW u \in Tab, u # t
        PROVE  task'[<<u, "boot">>] = task[<<u, "boot">>] /\ kp'[u] = kp[u]
    <3>1. <<u, "boot">> \in Proc /\ <<u, "boot">> # p
      BY Zenon, <2>1 DEF Proc
    <3> QED BY Zenon, <1>3, <1>4, <2>1, <3>1 DEF VaultIInv, VaultTypeOK
  <2>2. kp'[t] \in was'
    BY Zenon, <1>4 DEF VaultIInv, VaultTypeOK
  <2> QED BY Zenon, <1>2, <1>4, <2>1, <2>2 DEF BootedOnStoredKey, VaultIInv
<1>7. VaultTypeOK'
  BY Zenon, <1>2, <1>3, <1>4, <1>5 DEF VaultIInv, VaultTypeOK, LockInv
<1> QED BY Zenon, <1>3, <1>4, <1>6, <1>7 DEF VaultIInv

\* Setting the identity keeps the circles of the vault as it is now.
LEMMA IdentityStep ==
  ASSUME Readable, VaultIInv, NEW t \in Tab, saveSecretKey(t)
  PROVE  VaultIInv'
<1> DEFINE p == <<t, "ui">>  k == task[p].sk  next == applyRestore(task[p].todo)
           payload == withSecretKey(loadVault, k)
<1>1. p \in Proc /\ task[p].ph = "has" /\ task[p].op = "identity"
  BY Zenon DEF Proc, saveSecretKey
<1>2. UNCHANGED <<live, legacy, minted, faults, saved, files, degraded, calls>>
  BY Zenon DEF saveSecretKey
<1>3. task[p] \in Call /\ k \in Key /\ loadVault \in Payload \cup {None}
      /\ task[p].seen = loadVault /\ vault \in Record \cup {None}
  BY Zenon, <1>1, HolderSees DEF WellFormed
<1>4. next \in Call /\ WellFormed(next) /\ next.ph # "has"
  <2>1. task[p].todo \in SUBSET Entry
    BY Zenon, <1>3 DEF Call
  <2> QED BY Zenon, <2>1, CallFact
<1>5. release(p, next)
  BY Zenon DEF saveSecretKey
<1> HIDE DEF next
<1>6. LockInv' /\ lock' = None /\ task' = [task EXCEPT ![p] = next]
  BY Zenon, <1>1, <1>4, <1>5, ReleaseStep DEF VaultIInv, release
<1>7. /\ payload \in Payload /\ payload.sk = k
      /\ loadVault # None => payload.circles = loadVault.circles
  BY <1>3, WithSecretKeyFact
<1>8. saveVaultUnlocked(payload)
  BY Zenon, <1>3 DEF saveSecretKey
<1>9. kp' = [kp EXCEPT ![t] = k] /\ was' = was \cup {k} /\ chosen' = chosen \cup {k}
  BY Zenon DEF saveSecretKey
<1> HIDE DEF payload, k
<1>10. vault' \in Record /\ vault' # None /\ vault'.sk = k /\ loadVault' = payload
  BY Zenon, <1>7, <1>8, SavedFact
<1>11. VaultInv'
  <2>1. Stored' /\ NotBefore'
    BY Zenon, <1>9, <1>10 DEF Stored, NotBefore
  <2>2. Kept'
    BY Zenon, <1>2, <1>3, <1>7, <1>10, LoadVaultFact DEF Kept, VaultIInv, VaultInv
  <2>3. CreatedOnce'
    BY Zenon, <1>9 DEF CreatedOnce, VaultIInv, VaultInv
  <2> QED BY Zenon, <2>1, <2>2, <2>3 DEF VaultInv
<1>12. BootedOnStoredKey'
  <2>1. ASSUME NEW u \in Tab PROVE task'[<<u, "boot">>] = task[<<u, "boot">>]
    <3>1. <<u, "boot">> \in Proc /\ <<u, "boot">> # p
      BY Zenon DEF Proc
    <3> QED BY Zenon, <1>6, <3>1 DEF VaultIInv, VaultTypeOK
  <2>2. kp'[t] = k /\ \A u \in Tab : u # t => kp'[u] = kp[u]
    BY Zenon, <1>9 DEF VaultIInv, VaultTypeOK
  <2>3. ASSUME NEW u \in Tab, task'[<<u, "boot">>] = Idle, u \notin degraded' PROVE kp'[u] \in was'
    <3>1. CASE u = t
      <4>1. k \in was' BY Zenon, <1>9
      <4> QED BY Zenon, <2>2, <3>1, <4>1
    <3>2. CASE u # t
      <4>1. kp[u] \in was BY Zenon, <1>2, <2>1, <2>3 DEF BootedOnStoredKey, VaultIInv
      <4>2. kp'[u] = kp[u] BY Zenon, <2>2, <3>2
      <4>3. kp[u] \in was' BY Zenon, <1>9, <4>1
      <4> QED BY Zenon, <4>2, <4>3
    <3> QED BY Zenon, <3>1, <3>2
  <2> QED BY Zenon, <2>3 DEF BootedOnStoredKey
<1>13. VaultTypeOK'
  <2>1. was' \in SUBSET Key /\ chosen' \in SUBSET Key /\ kp' \in [Tab -> Key \cup {None, Temp}]
    BY Zenon, <1>3, <1>9 DEF VaultIInv, VaultTypeOK
  <2> QED BY Zenon, <1>2, <1>6, <1>10, <2>1 DEF VaultIInv, VaultTypeOK, LockInv
<1> QED BY Zenon, <1>6, <1>11, <1>12, <1>13 DEF VaultIInv

\* Adding a circle key keeps the identity and the circles of the vault as it is
\* now; without a vault nothing is written.
LEMMA UpsertStep ==
  ASSUME Readable, VaultIInv, NEW t \in Tab, upsertCircleKey(t)
  PROVE  VaultIInv'
<1> DEFINE p == <<t, "ui">>  e == task[p].entry
<1>1. p \in Proc /\ task[p].ph = "has" /\ task[p].op \in {"circle", "migrate"}
  BY Zenon DEF Proc, upsertCircleKey
<1>2. UNCHANGED <<live, legacy, kp, minted, faults, was, chosen, files, degraded, calls>>
  BY Zenon DEF upsertCircleKey
<1>3. /\ task[p] \in Call /\ WellFormed(task[p]) /\ e \in Entry
      /\ loadVault \in Payload \cup {None} /\ task[p].seen = loadVault
      /\ vault \in Record \cup {None} /\ (vault = None <=> loadVault = None)
  BY Zenon, <1>1, HolderSees DEF WellFormed
<1>4. PICK next \in Call : WellFormed(next) /\ next.ph # "has" /\ release(p, next)
  <2> DEFINE c == [task[p] EXCEPT !.ph = "drop"]
  <2>1. release(p, c) \/ release(p, applyRestore(task[p].todo))
    BY Zenon DEF upsertCircleKey
  <2>2. c \in Call /\ c.ph # "has" /\ WellFormed(c)
    BY Zenon, <1>1, <1>3 DEF Call, WellFormed
  <2>3. task[p].todo \in SUBSET Entry
    BY Zenon, <1>3 DEF Call
  <2> HIDE DEF c
  <2>4. applyRestore(task[p].todo) \in Call /\ WellFormed(applyRestore(task[p].todo))
        /\ applyRestore(task[p].todo).ph # "has"
    BY Zenon, <2>3, CallFact
  <2> QED BY Zenon, <2>1, <2>2, <2>4
<1>5. LockInv' /\ lock' = None /\ task' = [task EXCEPT ![p] = next]
  BY Zenon, <1>1, <1>4, ReleaseStep DEF VaultIInv, release
<1>6. VaultInv' /\ vault' \in Record \cup {None} /\ saved' \in SUBSET Entry
  <2>1. CASE loadVault = None
    BY Zenon, <1>2, <1>3, <2>1, VaultUnchanged DEF upsertCircleKey, VaultIInv, VaultTypeOK
  <2>2. CASE loadVault # None
    <3> DEFINE payload == withCircle(loadVault, e)
    <3>1. saveVaultUnlocked(payload) /\ saved' = saved \cup {e}
      BY Zenon, <1>3, <2>2 DEF upsertCircleKey
    <3>2. payload \in Payload /\ payload.sk = loadVault.sk
          /\ payload.circles = loadVault.circles \cup {e}
      BY Zenon, <1>3, <2>2, WithCircleFact
    <3> HIDE DEF payload
    <3>3. vault' \in Record /\ vault' # None /\ vault'.sk = loadVault.sk /\ loadVault' = payload
      BY Zenon, <3>1, <3>2, SavedFact
    <3>4. vault # None /\ loadVault.sk = vault.sk
      BY Zenon, <1>3, <2>2, LoadVaultFact
    <3>5. Stored' /\ NotBefore'
      BY Zenon, <1>2, <3>3, <3>4 DEF VaultIInv, VaultInv, Stored, NotBefore
    <3>6. Kept'
      BY Zenon, <3>1, <3>2, <3>3 DEF VaultIInv, VaultInv, Kept
    <3>7. CreatedOnce'
      BY Zenon, <1>2 DEF VaultIInv, VaultInv, CreatedOnce
    <3>8. saved' \in SUBSET Entry
      BY Zenon, <1>3, <3>1 DEF VaultIInv, VaultTypeOK
    <3> QED BY Zenon, <3>3, <3>5, <3>6, <3>7, <3>8 DEF VaultInv
  <2> QED BY Zenon, <2>1, <2>2
<1>7. BootedOnStoredKey'
  BY Zenon, <1>2, <1>5, BootsUnchanged DEF VaultIInv, LockInv
<1>8. VaultTypeOK'
  BY Zenon, <1>2, <1>5, <1>6 DEF VaultIInv, VaultTypeOK, LockInv
<1> QED BY Zenon, <1>5, <1>6, <1>7, <1>8 DEF VaultIInv

-----------------------------------------------------------------------------
(* Invariance *)

\* The state in which the tabs are opened.
LEMMA InitIInv ==
  ASSUME Readable, VaultInit
  PROVE  VaultIInv
<1>1. /\ Idle \in Call /\ WellFormed(Idle) /\ Idle.ph # "has"
      /\ Boot \in Call /\ WellFormed(Boot) /\ Boot.ph # "has"
  BY Zenon, CallFact
<1>2. 1 \in Key /\ 0 \in 0 .. MaxKeys /\ 1 \in 0 .. MaxKeys
      /\ 0 \in 0 .. MaxCalls /\ 0 \in 0 .. MaxFaults
  BY DEF Key, Readable, VaultParameters
<1>3. task \in [Proc -> Call] /\ \A p \in Proc : task[p] \in {Idle, Boot}
  BY Zenon, <1>1 DEF VaultInit
<1>4. LockInv
  BY Zenon, <1>1, <1>3 DEF LockInv, CallsFormed, Holder, Current, VaultInit, Readable, VaultParameters
<1>5. vault \in Record \cup {None} /\ was \in SUBSET Key /\ minted \in 0 .. MaxKeys
  BY <1>2 DEF VaultInit, Record
<1>6. VaultInv
  <2>1. [version |-> 1, sk |-> 1, circles |-> {}] \in Record
    BY Zenon, <1>2 DEF Record
  <2>2. \/ vault = None /\ was = {}
        \/ vault # None /\ vault.sk = 1 /\ was = {1}
    <3> DEFINE r == [version |-> 1, sk |-> 1, circles |-> {}]
    <3>1. r # None /\ r.sk = 1
      BY Zenon, <2>1 DEF Readable, VaultParameters
    <3>2. (vault = None /\ was = {}) \/ (vault = r /\ was = {1})
      BY Zenon DEF VaultInit
    <3> HIDE DEF r
    <3> QED BY Zenon, <3>1, <3>2
  <2>3. Stored /\ Kept /\ NotBefore
    BY Zenon, <2>2 DEF VaultInit, Stored, Kept, NotBefore
  <2>4. CreatedOnce
    BY Zenon, <1>2, <2>2 DEF CreatedOnce
  <2> QED BY Zenon, <2>3, <2>4 DEF VaultInv
<1>7. BootedOnStoredKey
  <2>1. \A t \in Tab : task[<<t, "boot">>] = Boot
    BY Zenon DEF VaultInit, Proc
  <2>2. Boot # Idle
    BY Zenon, CallFact
  <2> QED BY Zenon, <2>1, <2>2 DEF BootedOnStoredKey
<1>8. VaultTypeOK
  <2>1. kp \in [Tab -> Key \cup {None, Temp}]
    BY Zenon DEF VaultInit
  <2> QED BY Zenon, <1>2, <1>3, <1>5, <2>1 DEF VaultTypeOK, VaultInit
<1> QED BY Zenon, <1>4, <1>6, <1>7, <1>8 DEF VaultIInv

\* Every step keeps the invariant.
LEMMA NextIInv ==
  ASSUME Readable, VaultIInv, [VaultNext]_vaultVars
  PROVE  VaultIInv'
<1>1. CASE UNCHANGED vaultVars
  <2>1. UNCHANGED <<vault, live, legacy, lock, kp, task, minted, calls, faults, was, chosen,
                    saved, files, degraded>>
    BY Zenon, <1>1 DEF vaultVars, store, history
  <2>2. LockInv'
    BY Zenon, <2>1 DEF VaultIInv, LockInv, CallsFormed, Holder, Current, loadVault
  <2>3. VaultInv'
    BY Zenon, <2>1, VaultUnchanged DEF VaultIInv
  <2>4. BootedOnStoredKey' /\ VaultTypeOK'
    BY Zenon, <2>1 DEF VaultIInv, BootedOnStoredKey, VaultTypeOK
  <2> QED BY Zenon, <2>2, <2>3, <2>4 DEF VaultIInv
<1>2. ASSUME NEW p \in Proc, withInitLock(p) PROVE VaultIInv'
  BY Zenon, <1>2, LockStep
<1>3. ASSUME NEW t \in Tab,
             \/ getCachedKeypair(t) \/ loadOrCreateSecretKey(t) \/ loadIdentityDegrades(t)
             \/ saveSecretKey(t) \/ upsertCircleKey(t) \/ callFails(t) \/ Reload(t)
      PROVE  VaultIInv'
  BY Zenon, <1>3, CachedStep, CreateStep, DegradeStep, IdentityStep, UpsertStep, FailStep, TabReloadStep
<1>4. ASSUME NEW t \in Tab,
             \/ handleGenerate(t) \/ handleImport(t) \/ handleFilePicked(t)
             \/ rotateCircleKey(t) \/ loadCircleKey(t) \/ exportBackup(t)
      PROVE  VaultIInv'
  BY Zenon, <1>4, HandlersStart
<1>5. ASSUME NEW t \in Tab,
             \/ handleConfirmRestore(t) \/ saveCircleKeyWithBackup(t) \/ migrateLegacy(t)
             \/ dropLegacy(t) \/ saveVaultMeta(t)
      PROVE  VaultIInv'
  BY Zenon, <1>5, ConfirmStep, PutStep, EndStep
<1> QED BY Zenon, <1>1, <1>2, <1>3, <1>4, <1>5 DEF VaultNext

\* The invariant holds in every state.
LEMMA VaultInvariant ==
  ASSUME Readable
  PROVE  TabsSpec => []VaultIInv
<1>1. VaultInit => VaultIInv
  BY Zenon, InitIInv
<1>2. VaultIInv /\ [VaultNext]_vaultVars => VaultIInv'
  BY Zenon, NextIInv
<1> QED BY <1>1, <1>2, PTL DEF TabsSpec

-----------------------------------------------------------------------------
(* The theorems *)

\* Every variable of the vault model keeps its type.
THEOREM VaultTypeCorrect ==
  ASSUME Readable
  PROVE  TabsSpec => []VaultTypeOK
BY VaultInvariant, PTL DEF VaultIInv

\* Whoever holds the Web Lock is between its load and its save: the lock is
\* never left behind by a call that has ended (withInitLock).
THEOREM LockHolderIsSaving ==
  ASSUME Readable
  PROVE  TabsSpec => []HolderIsSaving
<1>1. VaultIInv => HolderIsSaving
  BY Zenon DEF VaultIInv, VaultTypeOK, LockInv, Holder, HolderIsSaving
<1> QED BY <1>1, VaultInvariant, PTL

\* A circle key whose vault write completed is never lost to another save of
\* the vault (saveSecretKey, upsertCircleKey), in whatever tab.
THEOREM CircleKeysStay ==
  ASSUME Readable
  PROVE  TabsSpec => []NoCircleKeyLost
<1>1. VaultIInv => NoCircleKeyLost
  BY Zenon, LoadVaultFact DEF VaultIInv, VaultTypeOK, VaultInv, Kept, NoCircleKeyLost
<1> QED BY <1>1, VaultInvariant, PTL

\* A tab whose boot is over signs with a key that is or was in the vault
\* (loadIdentity), however getCachedKeypair and other tabs interleave.
THEOREM TabsRunOnStoredKeys ==
  ASSUME Readable
  PROVE  TabsSpec => []BootedOnStoredKey
BY VaultInvariant, PTL DEF VaultIInv

\* However many tabs boot at once on an empty vault, one identity is created
\* (loadOrCreateSecretKey).
THEOREM SingleCreatedIdentity ==
  ASSUME Readable
  PROVE  TabsSpec => []OneCreatedIdentity
<1>1. ASSUME VaultIInv PROVE OneCreatedIdentity
  <2>1. PICK k \in Key : was \ chosen \subseteq {k}
    BY Zenon, <1>1 DEF VaultIInv, VaultInv, CreatedOnce
  <2> QED BY Zenon, <2>1 DEF OneCreatedIdentity
<1> QED BY <1>1, VaultInvariant, PTL

\* The four things a step may do to the vault: nothing, create an identity in an
\* empty one, set the identity the user chose, add a circle key.
LEMMA VaultSteps ==
  ASSUME Readable, VaultIInv, [VaultNext]_vaultVars
  PROVE  \/ vault' = vault
         \/ /\ vault = None
            /\ \E k \in Key : vault' # None /\ loadVault' = [sk |-> k, circles |-> {}]
         \/ \E t \in Tab : /\ task[<<t, "ui">>].op = "identity"
                           /\ task[<<t, "ui">>].sk \in Key
                           /\ vault'.sk = task[<<t, "ui">>].sk
                           /\ loadVault' = withSecretKey(loadVault, task[<<t, "ui">>].sk)
         \/ \E e \in Entry : /\ vault # None /\ vault'.sk = vault.sk
                             /\ loadVault' = [sk |-> loadVault.sk,
                                              circles |-> loadVault.circles \cup {e}]
<1>1. ASSUME NEW t \in Tab, loadOrCreateSecretKey(t), vault' # vault
      PROVE  /\ vault = None
             /\ \E k \in Key : vault' # None /\ loadVault' = [sk |-> k, circles |-> {}]
  <2>1. <<t, "boot">> \in Proc /\ task[<<t, "boot">>].ph = "has"
        /\ task[<<t, "boot">>].seen = None
    BY Zenon, <1>1 DEF Proc, loadOrCreateSecretKey
  <2>2. vault = None
    BY Zenon, <2>1, HolderSees
  <2>3. PICK k \in Key : saveVaultUnlocked(withSecretKey(None, k))
    BY Zenon, <1>1, <2>1 DEF loadOrCreateSecretKey
  <2>4. withSecretKey(None, k) \in Payload /\ withSecretKey(None, k) = [sk |-> k, circles |-> {}]
    BY Zenon, WithSecretKeyFact DEF withSecretKey
  <2> QED BY Zenon, <2>2, <2>3, <2>4, SavedFact
<1>2. ASSUME NEW t \in Tab, saveSecretKey(t)
      PROVE  /\ task[<<t, "ui">>].op = "identity" /\ task[<<t, "ui">>].sk \in Key
             /\ vault'.sk = task[<<t, "ui">>].sk
             /\ loadVault' = withSecretKey(loadVault, task[<<t, "ui">>].sk)
  <2> DEFINE p == <<t, "ui">>
  <2>1. p \in Proc /\ task[p].ph = "has" /\ task[p].op = "identity"
    BY Zenon, <1>2 DEF Proc, saveSecretKey
  <2>2. task[p].seen = loadVault /\ task[p].sk \in Key /\ loadVault \in Payload \cup {None}
    BY Zenon, <2>1, HolderSees DEF WellFormed
  <2>3. saveVaultUnlocked(withSecretKey(loadVault, task[p].sk))
    BY Zenon, <1>2, <2>2 DEF saveSecretKey
  <2>4. withSecretKey(loadVault, task[p].sk) \in Payload
        /\ withSecretKey(loadVault, task[p].sk).sk = task[p].sk
    BY <2>2, WithSecretKeyFact
  <2> QED BY Zenon, <2>1, <2>2, <2>3, <2>4, SavedFact
<1>3. ASSUME NEW t \in Tab, upsertCircleKey(t), vault' # vault
      PROVE  \E e \in Entry : /\ vault # None /\ vault'.sk = vault.sk
                              /\ loadVault' = [sk |-> loadVault.sk,
                                               circles |-> loadVault.circles \cup {e}]
  <2> DEFINE p == <<t, "ui">>  e == task[p].entry
  <2>1. p \in Proc /\ task[p].ph = "has" /\ task[p].op \in {"circle", "migrate"}
    BY Zenon, <1>3 DEF Proc, upsertCircleKey
  <2>2. /\ task[p].seen = loadVault /\ e \in Entry /\ loadVault \in Payload \cup {None}
        /\ vault \in Record \cup {None} /\ (vault = None <=> loadVault = None)
    BY Zenon, <2>1, HolderSees DEF WellFormed
  <2>3. loadVault # None /\ saveVaultUnlocked(withCircle(loadVault, e))
    BY Zenon, <1>3, <2>2 DEF upsertCircleKey
  <2>4. /\ withCircle(loadVault, e) \in Payload /\ withCircle(loadVault, e).sk = loadVault.sk
        /\ withCircle(loadVault, e).circles = loadVault.circles \cup {e}
    BY Zenon, <2>2, <2>3, WithCircleFact
  <2>5. withCircle(loadVault, e) = [sk |-> loadVault.sk, circles |-> loadVault.circles \cup {e}]
    BY Zenon, <2>4 DEF Payload
  <2>6. vault'.sk = loadVault.sk /\ loadVault' = withCircle(loadVault, e)
    BY Zenon, <2>3, <2>4, SavedFact
  <2>7. vault # None /\ loadVault.sk = vault.sk
    BY Zenon, <2>2, <2>3, LoadVaultFact
  <2> QED BY Zenon, <2>2, <2>5, <2>6, <2>7
<1>4. \/ vault' = vault
      \/ \E t \in Tab : loadOrCreateSecretKey(t) \/ saveSecretKey(t) \/ upsertCircleKey(t)
  BY DEF VaultNext, vaultVars, store, withInitLock, getCachedKeypair, loadIdentityDegrades,
         handleGenerate, handleImport, handleFilePicked, handleConfirmRestore,
         rotateCircleKey, loadCircleKey, exportBackup, saveCircleKeyWithBackup, migrateLegacy,
         dropLegacy, saveVaultMeta, callFails, Reload
<1> QED BY Zenon, <1>1, <1>2, <1>3, <1>4

\* Only a choice of the user replaces the identity in the vault: a circle key
\* saved by a tab that has not seen the change never reverts it.
THEOREM IdentityChangesByChoice ==
  ASSUME Readable
  PROVE  TabsSpec => IdentityOnlyByChoice
<1>1. VaultIInv /\ [VaultNext]_vaultVars =>
        [vault # None /\ vault'.sk # vault.sk => \E t \in Tab :
           task[<<t, "ui">>].op = "identity" /\ vault'.sk = task[<<t, "ui">>].sk]_vaultVars
  BY Zenon, VaultSteps
<1> QED BY <1>1, VaultInvariant, PTL DEF TabsSpec, IdentityOnlyByChoice

\* Read through loadVault, the vault that several tabs load and save under the
\* lock behaves as the one of VaultSpec, on which every call is a single step.
THEOREM VaultRefinesSpec ==
  ASSUME Readable
  PROVE  TabsSpec => ImplementsVaultSpec
<1>1. VaultInit => Atomic!Init
  <2>1. 1 \in Key
    BY DEF Key, Readable, VaultParameters
  <2> DEFINE r == [version |-> 1, sk |-> 1, circles |-> {}]
  <2>2. r \in Record
    BY Zenon, <2>1 DEF Record
  <2>3. r # None
    BY Zenon, <2>2 DEF Readable, VaultParameters
  <2> SUFFICES ASSUME VaultInit PROVE Atomic!Init
    BY Zenon 
  <2>4. vault = None \/ vault = r
    BY Zenon DEF VaultInit
  <2>5. CASE vault = None
    BY Zenon, <2>5 DEF loadVault, Atomic!Init
  <2>6. CASE vault = r
    <3>1. loadVault = [sk |-> 1, circles |-> {}]
      BY Zenon, <2>3, <2>6 DEF loadVault
    <3> QED BY Zenon, <2>1, <3>1 DEF Atomic!Init
  <2> QED BY Zenon, <2>4, <2>5, <2>6
<1>2. VaultIInv /\ [VaultNext]_vaultVars => [Atomic!Next]_loadVault
  <2> SUFFICES ASSUME VaultIInv, [VaultNext]_vaultVars PROVE Atomic!Next \/ loadVault' = loadVault
    BY Zenon 
  <2>0. vault \in Record \cup {None}
    BY Zenon DEF VaultIInv, VaultTypeOK
  <2>1. CASE vault' = vault
    BY Zenon, <2>1 DEF loadVault
  <2>2. CASE vault = None /\ \E k \in Key : vault' # None /\ loadVault' = [sk |-> k, circles |-> {}]
    BY Zenon, <2>0, <2>2, LoadVaultFact DEF Atomic!Next, Atomic!CreateIdentity
  <2>3. CASE \E t \in Tab : /\ task[<<t, "ui">>].sk \in Key
                            /\ loadVault' = withSecretKey(loadVault, task[<<t, "ui">>].sk)
    BY Zenon, <2>3 DEF withSecretKey, Atomic!Next, Atomic!SetIdentity
  <2>4. CASE \E e \in Entry : /\ vault # None
                              /\ loadVault' = [sk |-> loadVault.sk,
                                               circles |-> loadVault.circles \cup {e}]
    BY Zenon, <2>0, <2>4, LoadVaultFact DEF Atomic!Next, Atomic!AddCircle
  <2> QED BY Zenon, <2>1, <2>2, <2>3, <2>4, VaultSteps
<1> QED BY <1>1, <1>2, VaultInvariant, PTL DEF TabsSpec, ImplementsVaultSpec, Atomic!Spec
=============================================================================
