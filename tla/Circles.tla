------------------------------ MODULE Circles ------------------------------
(***************************************************************************)
(* One family circle as the gateway stores it: membership lifecycle, key   *)
(* epochs, and location envelopes (routes/circles.rs,                      *)
(* routes/location_blobs.rs, migrations 009 and 010).                      *)
(*                                                                         *)
(* A handler that opens a transaction and takes the circle row FOR UPDATE  *)
(* is one action.  A handler that touches the database outside such a      *)
(* transaction is cut at every statement: push_envelope reads the circle,  *)
(* asks Redis for its rate slot and only then inserts; get_circle reads    *)
(* the circle row and then the member rows.  What a handler broadcasts     *)
(* after its commit waits in unsent, because other handlers may run        *)
(* between the commit and the broadcast.                                   *)
(*                                                                         *)
(* Circles share no row, so one circle is modelled.  Ciphertexts (name,    *)
(* labels, wraps, coordinates) are opaque to the server and are abstracted *)
(* to the key epoch they belong to; set_encryption changes nothing else.   *)
(***************************************************************************)
EXTENDS Naturals, FiniteSets

CONSTANTS
  Member,               \* tokens of the people the owner may invite
  Owner,                \* owner_token
  MAX_CIRCLE_MEMBERS,   \* circles.rs: 25
  MaxRevision,          \* bound: membership changes explored
  MaxEpoch,             \* bound: key epochs explored
  MaxRequests,          \* bound: commit_epoch requests in flight
  MaxPushes,            \* bound: publications between check and insert
  MaxUnsent             \* bound: handlers between commit and broadcast

ASSUME OwnerAssumption == Owner \notin Member
ASSUME BoundAssumption ==
  /\ MAX_CIRCLE_MEMBERS \in Nat /\ MaxRevision \in Nat
  /\ MaxEpoch \in Nat /\ MaxRequests \in Nat
  /\ MaxPushes \in Nat /\ MaxUnsent \in Nat

Sender == Member \cup {Owner}

\* What a finished handler hands to CircleHub::broadcast.  CIRCLE_EPOCH_CHANGED
\* has two forms: rekey_required true ("REKEY") and false ("EPOCH").  rev tells
\* apart two removals at one epoch; token is the removed member or the sender.
MessageType == {"MEMBER_REMOVED", "REKEY", "EPOCH", "ENVELOPE"}
Message == [type : MessageType, epoch : Nat, token : Sender, rev : Nat]

Notice(type, epoch, token, rev) ==
  [type |-> type, epoch |-> epoch, token |-> token, rev |-> rev]

VARIABLES
  exists,          \* the circles row has not been deleted
  key_epoch,       \* circles.key_epoch
  protocol,        \* circles.location_protocol_version
  rekey_required,  \* circles.rekey_required
  revision,        \* circles.membership_revision
  mstate,          \* membership_state per member, "NONE" without a row
  wrap,            \* key_wrap_epoch per member, 0 without a row
  blob,            \* key_epoch of the stored envelope per sender, 0 for none
  pushes,          \* push_envelope past its checks: body.key_epoch, 0 if idle
  reads,           \* owner's get_circle calls between their two SELECTs
  commits,         \* commit_epoch requests on their way to the server
  unsent,          \* broadcasts owed by handlers that have committed
  granted          \* history: epochs a wrap for this member was ever stored at

circleRow == <<exists, key_epoch, protocol, rekey_required, revision>>
memberRows == <<mstate, wrap, granted>>
ownerSide == <<reads, commits>>
vars == <<circleRow, memberRows, blob, pushes, ownerSide, unsent>>

Rows == {m \in Member : mstate[m] # "NONE"}
Active == {m \in Member : mstate[m] = "ACTIVE"}

\* Types; no row, request or envelope names an epoch or a revision that the
\* circle has not reached (key_epoch and membership_revision only grow).
TypeOK ==
  /\ exists \in BOOLEAN
  /\ key_epoch \in Nat \ {0}
  /\ protocol \in {0, 1}
  /\ rekey_required \in BOOLEAN
  /\ revision \in Nat
  /\ mstate \in [Member -> {"NONE", "PENDING", "ACTIVE"}]
  /\ wrap \in [Member -> 0..key_epoch]
  /\ blob \in [Sender -> 0..key_epoch]
  /\ pushes \in [Sender -> 0..key_epoch]
  /\ reads \subseteq [rev : 0..revision, epoch : 1..key_epoch]
  /\ commits \subseteq
       [rev : 0..revision, next : 2..(key_epoch + 1), members : SUBSET Member]
  /\ unsent \subseteq Message
  /\ granted \in [Member -> SUBSET (1..key_epoch)]

\* create_circle and the column defaults of migrations 009 and 010.
Init ==
  /\ exists = TRUE
  /\ key_epoch = 1
  /\ protocol = 0
  /\ rekey_required = TRUE
  /\ revision = 0
  /\ mstate = [m \in Member |-> "NONE"]
  /\ wrap = [m \in Member |-> 0]
  /\ blob = [s \in Sender |-> 0]
  /\ pushes = [s \in Sender |-> 0]
  /\ reads = {}
  /\ commits = {}
  /\ unsent = {}
  /\ granted = [m \in Member |-> {}]

CanBroadcast == Cardinality(unsent) < MaxUnsent

-----------------------------------------------------------------------------
(* Membership lifecycle *)

BumpRevision == revision < MaxRevision /\ revision' = revision + 1

\* add_member: the owner's wrap must be for the current epoch and for m.  The
\* row is (re)written as PENDING, whatever it was, and no broadcast follows.
AddMember(m, e) ==
  /\ exists
  /\ e = key_epoch
  /\ Cardinality(Rows) < MAX_CIRCLE_MEMBERS
  /\ BumpRevision
  /\ mstate' = [mstate EXCEPT ![m] = "PENDING"]
  /\ wrap' = [wrap EXCEPT ![m] = e]
  /\ granted' = [granted EXCEPT ![m] = @ \cup {e}]
  /\ UNCHANGED <<exists, key_epoch, protocol, rekey_required, blob, pushes,
                 ownerSide, unsent>>

\* accept_member: only a pending row whose wrap is for the current epoch.
AcceptMember(m) ==
  /\ exists
  /\ mstate[m] = "PENDING"
  /\ wrap[m] = key_epoch
  /\ BumpRevision
  /\ mstate' = [mstate EXCEPT ![m] = "ACTIVE"]
  /\ UNCHANGED <<exists, key_epoch, protocol, rekey_required, wrap, granted,
                 blob, pushes, ownerSide, unsent>>

KeepEpochReady == UNCHANGED rekey_required  \* mutant
RequireRekey == rekey_required' = TRUE

\* remove_member, by the owner or by m itself: row and envelope go, a rekey is
\* required; CIRCLE_MEMBER_REMOVED is broadcast after the commit.
RemoveMember(m) ==
  /\ exists
  /\ mstate[m] # "NONE"
  /\ CanBroadcast
  /\ BumpRevision
  /\ mstate' = [mstate EXCEPT ![m] = "NONE"]
  /\ wrap' = [wrap EXCEPT ![m] = 0]
  /\ blob' = [blob EXCEPT ![m] = 0]
  /\ RequireRekey
  /\ unsent' = unsent \cup
       {Notice("MEMBER_REMOVED", key_epoch, m, revision + 1)}
  /\ UNCHANGED <<exists, key_epoch, protocol, granted, pushes, ownerSide>>

\* delete_circle: member and envelope rows follow by ON DELETE CASCADE.
DeleteCircle ==
  /\ exists
  /\ exists' = FALSE
  /\ mstate' = [m \in Member |-> "NONE"]
  /\ wrap' = [m \in Member |-> 0]
  /\ blob' = [s \in Sender |-> 0]
  /\ UNCHANGED <<key_epoch, protocol, rekey_required, revision, granted,
                 pushes, ownerSide, unsent>>

-----------------------------------------------------------------------------
(* Epoch commits: the owner's client reads the circle, prepares a wrap for
   every active member it saw, and posts the set with the revision it saw. *)

\* get_circle, first SELECT: the circle row.
ReadCircle ==
  /\ exists
  /\ Cardinality(reads) + Cardinality(commits) < MaxRequests
  /\ reads' = reads \cup {[rev |-> revision, epoch |-> key_epoch]}
  /\ UNCHANGED <<circleRow, memberRows, blob, pushes, commits, unsent>>

\* get_circle, second SELECT: the member rows; then the client prepares.
ReadMembers(r) ==
  /\ exists
  /\ reads' = reads \ {r}
  /\ commits' = commits \cup
       {[rev |-> r.rev, next |-> r.epoch + 1, members |-> Active]}
  /\ UNCHANGED <<circleRow, memberRows, blob, pushes, unsent>>

\* The checks commit_epoch makes under the row lock.
CommitAllowed(c) ==
  /\ c.rev = revision
  /\ c.next = key_epoch + 1
  /\ c.members = Active

\* commit_epoch: new epoch, a wrap for every active member, no envelopes.
CommitEpoch(c) ==
  /\ exists
  /\ CommitAllowed(c)
  /\ c.next <= MaxEpoch
  /\ CanBroadcast
  /\ key_epoch' = c.next
  /\ protocol' = 1
  /\ rekey_required' = FALSE
  /\ wrap' = [m \in Member |-> IF m \in c.members THEN c.next ELSE wrap[m]]
  /\ granted' = [m \in Member |-> IF m \in c.members
                                  THEN granted[m] \cup {c.next}
                                  ELSE granted[m]]
  /\ blob' = [s \in Sender |-> 0]
  /\ commits' = commits \ {c}
  /\ unsent' = unsent \cup
       {Notice("EPOCH", c.next, Owner, revision)}
  /\ UNCHANGED <<exists, revision, mstate, pushes, reads>>

\* The request is refused: the circle is gone, its view is stale, or a wrap
\* event is older than KEY_WRAP_FRESHNESS_SECS (possible for any request).
CommitRefused(c) ==
  /\ commits' = commits \ {c}
  /\ UNCHANGED <<circleRow, memberRows, blob, pushes, reads, unsent>>

-----------------------------------------------------------------------------
(* Location envelopes *)

\* validate_circle_state.
ReadyFor(e) == protocol = 1 /\ ~rekey_required /\ key_epoch = e

\* push_envelope up to validate_circle_state: one SELECT, no lock.
PushCheck(s, e) ==
  /\ exists
  /\ pushes[s] = 0
  /\ Cardinality({t \in Sender : pushes[t] # 0}) < MaxPushes
  /\ s = Owner \/ s \in Active
  /\ ReadyFor(e)
  /\ pushes' = [pushes EXCEPT ![s] = e]
  /\ UNCHANGED <<circleRow, memberRows, blob, ownerSide, unsent>>

\* push_envelope after the rate limit: the upsert (its foreign key needs the
\* circle row), then the broadcast.
PushStore(s) ==
  /\ pushes[s] # 0
  /\ exists
  /\ CanBroadcast
  /\ blob' = [blob EXCEPT ![s] = pushes[s]]
  /\ pushes' = [pushes EXCEPT ![s] = 0]
  /\ unsent' = unsent \cup {Notice("ENVELOPE", pushes[s], s, 0)}
  /\ UNCHANGED <<circleRow, memberRows, ownerSide>>

\* Rate limited, Redis unavailable, replayed ciphertext or circle deleted.
PushFail(s) ==
  /\ pushes[s] # 0
  /\ pushes' = [pushes EXCEPT ![s] = 0]
  /\ UNCHANGED <<circleRow, memberRows, blob, ownerSide, unsent>>

\* The envelope passes expires_at; readers skip it, the retention worker
\* deletes it.
ExpireEnvelope(s) ==
  /\ blob[s] # 0
  /\ blob' = [blob EXCEPT ![s] = 0]
  /\ UNCHANGED <<circleRow, memberRows, pushes, ownerSide, unsent>>

-----------------------------------------------------------------------------
\* What a removal broadcasts second.
RekeyNotice(u) == Notice("REKEY", u.epoch, u.token, u.rev)

\* CircleHub::broadcast: remove_member sends its two messages one by one.
Broadcast(u) ==
  /\ unsent' = IF u.type = "MEMBER_REMOVED"
               THEN (unsent \ {u}) \cup {RekeyNotice(u)}
               ELSE unsent \ {u}
  /\ UNCHANGED <<circleRow, memberRows, blob, pushes, ownerSide>>

MemberStep ==
  \/ \E m \in Member, e \in 1..MaxEpoch : AddMember(m, e)
  \/ \E m \in Member : AcceptMember(m)
  \/ \E m \in Member : RemoveMember(m)
  \/ DeleteCircle

EpochStep ==
  \/ ReadCircle
  \/ \E r \in reads : ReadMembers(r)
  \/ \E c \in commits : CommitEpoch(c)
  \/ \E c \in commits : CommitRefused(c)

EnvelopeStep ==
  \E s \in Sender : \/ \E e \in 1..MaxEpoch : PushCheck(s, e)
                    \/ PushStore(s)
                    \/ PushFail(s)
                    \/ ExpireEnvelope(s)

Next ==
  \/ MemberStep
  \/ EpochStep
  \/ EnvelopeStep
  \/ \E u \in unsent : Broadcast(u)

Spec == Init /\ [][Next]_vars

-----------------------------------------------------------------------------
(* Properties *)

\* Every active member's stored wrap is for the circle's current epoch, so a
\* member that reads its wrap (get_circle's my_key_wrap) can decrypt what is
\* published now: accept_member refuses an older invitation and commit_epoch
\* rewraps for exactly the active members.
ActiveHoldsCurrentKey == \A m \in Active : wrap[m] = key_epoch

\* While envelopes may be published, nobody who was ever handed the current
\* epoch's key is outside the circle: removal, leave and withdrawn invitations
\* all force a rekey (README, "removed member's key no longer decrypts").
NoOutsiderHoldsLiveKey ==
  exists /\ ~rekey_required =>
    \A m \in Member : key_epoch \in granted[m] => m \in Rows

\* Migration 010: "any concurrent membership change (invite/accept/remove/
\* leave) bumps the counter, making a stale commit fail closed".  A request
\* whose revision still matches was prepared for the members active now, even
\* though get_circle reads the counter and the members separately.
StaleCommitFailsClosed ==
  \A c \in commits : exists /\ c.rev = revision => c.members = Active

\* A stored envelope is keyed to an epoch whose key its sender was given,
\* however long push_envelope waited between its checks and its insert.
EnvelopeSenderHeldKey ==
  \A m \in Member : blob[m] # 0 => blob[m] \in granted[m]

\* README: "Removing a member (or self-leave) deactivates them, deletes their
\* envelope, and forces a rekey": someone without a member row has no stored
\* envelope.
RemovalDeletesEnvelope == \A m \in Member \ Rows : blob[m] = 0
=============================================================================
