------------------------------ MODULE GiftWrap ------------------------------
(***************************************************************************)
(* Building and opening NIP-17 messages: rumor, seal and gift wrap         *)
(* (services/chat/nip17.ts, nip59.ts), the room derived from the           *)
(* participants (conversationId.ts, dmConversation.ts), sending (dmSend.ts)*)
(* and the inbox of every user (inbox.ts).  Chat models one user's pages   *)
(* and database around these; here all users of the relay take part.       *)
(*                                                                         *)
(* A public key is a user together with the case it is spelled in.  An     *)
(* encrypted content is readable by the user named in its "for" field.     *)
(***************************************************************************)
EXTENDS Naturals, FiniteSets, Sequences, Functions

CONSTANTS
  User,
  Content,          \* message contents within MAX_MESSAGE_BYTES
  BadText,          \* empty or oversized contents
  MaxParticipants,  \* MAX_ROOM_PARTICIPANTS
  OtherClients,     \* wraps other NIP-17 clients put on the relay
  MaxSent,          \* bound: messages sent
  NoKey

ASSUME WrapAssumption == IsFiniteSet(User) /\ MaxParticipants \in Nat \ {0}

VARIABLES
  inboxRelay,       \* external: wraps the relay holds
  sent,             \* history: SentMessage of every send, with its author
  opened,           \* wraps each user's inbox has marked seen
  inboxShown        \* ProcessedInboxMessage values of each user

wrapVars == <<inboxRelay, sent, opened, inboxShown>>

Spelling == User \X {"lower", "upper"}
toLowerCase(k) == <<k[1], "lower">>
isLowercaseHex64(k) == k[2] = "lower"
ownKey(u) == <<u, "lower">>
validMessageContent(t) == t \notin BadText

normalizeParticipants(ks) == {k \in {toLowerCase(j) : j \in ks} : isLowercaseHex64(k)}

\* The keys in an order that depends on their set alone, as sort gives it.
sorted(ks) == CHOOSE f \in [1..Cardinality(ks) -> ks] : IsInjective(f)

\* The SHA-256 of the sorted keys tells two rooms apart as their sets do.
conversationIdFor(ks) == normalizeParticipants(ks)
directConversationId(a, b) == conversationIdFor({a, b})
roomConversationId(ks) == conversationIdFor(ks)

-----------------------------------------------------------------------------
(* Sending *)

createRumor(author, kind, tags, t, n) ==
  [pubkey |-> author, kind |-> kind, tags |-> tags, content |-> t, created_at |-> n]

createSeal(author, rumor, r) == [pubkey |-> author, for |-> r, rumor |-> rumor]

createWrap(seal, r) == [p |-> <<r>>, for |-> r, seal |-> seal]

wrapRumor(author, rumor, rs) == {createWrap(createSeal(author, rumor, r), r) : r \in rs}

createDirectMessage(me, r, t, n) ==
  wrapRumor(me, createRumor(me, 14, <<toLowerCase(r)>>, t, n), {me, toLowerCase(r)})

createGroupMessage(me, rs, t, n) ==
  LET participants == normalizeParticipants({me} \cup rs)
  IN  wrapRumor(me, createRumor(me, 14, sorted(participants), t, n), participants)

Sends(me, t, wraps, ks, room) ==
  /\ Len(sent) < MaxSent
  /\ validMessageContent(t)
  /\ sent' = Append(sent, [wraps |-> wraps, conversationId |-> room,
                           participants |-> normalizeParticipants(ks),
                           author |-> me, content |-> t])
  /\ inboxRelay' = inboxRelay \cup wraps
  /\ UNCHANGED <<opened, inboxShown>>

sendDirectMessage(u, r, t) ==
  LET me == ownKey(u)
  IN  /\ isLowercaseHex64(r) /\ r # me
      /\ Sends(me, t, createDirectMessage(me, r, t, Len(sent)), {me, r},
               directConversationId(me, r))

sendGroupMessage(u, rs, t) ==
  LET me == ownKey(u)
      n == Cardinality(normalizeParticipants({me} \cup rs))
  IN  /\ n <= MaxParticipants /\ n >= 2
      /\ Sends(me, t, createGroupMessage(me, rs, t, Len(sent)), {me} \cup rs,
               roomConversationId(normalizeParticipants({me} \cup rs)))

\* External: another NIP-17 client publishes.
otherClient(w) ==
  /\ w \in OtherClients \ inboxRelay
  /\ inboxRelay' = inboxRelay \cup {w}
  /\ UNCHANGED <<sent, opened, inboxShown>>

-----------------------------------------------------------------------------
(* Receiving *)

singleTag(w) == IF Len(w.p) = 1 THEN w.p[1] ELSE NoKey

\* A relay hands out a wrap by any of its p tags.
inboxFilter(u, w) == ownKey(u) \in Range(w.p)

unwrapGiftWrap(u, w) ==
  IF /\ singleTag(w) = ownKey(u)
     /\ w.for = ownKey(u) /\ w.seal.for = ownKey(u)
     /\ isLowercaseHex64(w.seal.rumor.pubkey)
     /\ w.seal.rumor.pubkey = w.seal.pubkey
  THEN {w.seal.rumor} ELSE {}

ForgetsAuthor(rumor) ==  \* mutant: the author is taken to be among the p tags
  IF /\ rumor.kind = 14 /\ Len(rumor.tags) \in 1..MaxParticipants
     /\ IsInjective(rumor.tags)
     /\ \A k \in Range(rumor.tags) : isLowercaseHex64(k)
  THEN normalizeParticipants(Range(rumor.tags)) ELSE {}

participantSet(rumor) ==
  IF /\ rumor.kind = 14 /\ Len(rumor.tags) \in 1..MaxParticipants
     /\ IsInjective(rumor.tags)
     /\ \A k \in Range(rumor.tags) : isLowercaseHex64(k)
  THEN normalizeParticipants({rumor.pubkey} \cup Range(rumor.tags)) ELSE {}

unwrapMessage(u, w) ==
  {[rumor |-> r, participants |-> participantSet(r)] : r \in
     {x \in unwrapGiftWrap(u, w) : /\ validMessageContent(x.content)
                                   /\ ownKey(u) \in participantSet(x)}}

\* A wrap that fails is not marked and is tried again whenever it comes.
processGiftWrap(u, w) ==
  /\ w \in inboxRelay /\ inboxFilter(u, w)
  /\ w \notin opened[u]
  /\ \E m \in unwrapMessage(u, w) :
       /\ opened' = [opened EXCEPT ![u] = @ \cup {w}]
       /\ inboxShown' = [inboxShown EXCEPT ![u] = @ \cup
            {[conversationId |-> roomConversationId(m.participants),
              participants |-> m.participants, senderPubkey |-> m.rumor.pubkey,
              content |-> m.rumor.content, wrap |-> w]}]
  /\ UNCHANGED <<inboxRelay, sent>>

-----------------------------------------------------------------------------
WrapInit ==
  /\ inboxRelay = {} /\ sent = <<>>
  /\ opened = [u \in User |-> {}] /\ inboxShown = [u \in User |-> {}]

WrapNext ==
  \/ \E u \in User, r \in Spelling, t \in Content \cup BadText : sendDirectMessage(u, r, t)
  \/ \E u \in User, rs \in SUBSET Spelling, t \in Content \cup BadText :
       sendGroupMessage(u, rs, t)
  \/ \E w \in OtherClients : otherClient(w)
  \/ \E u \in User, w \in inboxRelay : processGiftWrap(u, w)

WrapSpec == WrapInit /\ [][WrapNext]_wrapVars

-----------------------------------------------------------------------------
(* What the inbox of k's owner shows once it has taken k's wrap of m. *)
Delivered(m, k) ==
  \A w \in m.wraps : (w.for = k /\ w \in opened[k[1]]) =>
    [conversationId |-> m.conversationId, participants |-> m.participants,
     senderPubkey |-> m.author, content |-> m.content, wrap |-> w] \in inboxShown[k[1]]

(* A sent message reaches every participant in the room the sender files   *)
(* it under: nobody who opened their wrap sees it under another            *)
(* conversation id, author or participant list, in whatever case the       *)
(* sender's roster spells the keys (conversationId.ts:1-3), and every wrap *)
(* sendDirectMessage and sendGroupMessage make, up to the largest room     *)
(* allowed, passes the checks of unwrapMessage.                            *)
RoomsAgree ==
  \A i \in DOMAIN sent :
    LET m == sent[i]
    IN  /\ \A k \in m.participants :
             /\ Delivered(m, k)
             /\ \E w \in m.wraps : w.for = k /\ unwrapMessage(k[1], w) # {}
        /\ \A w \in m.wraps : w.for \in m.participants
=============================================================================
