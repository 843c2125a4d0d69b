------------------------------- MODULE Nip05 -------------------------------
(***************************************************************************)
(* The optional NIP-05 label of a public key: the Settings section          *)
(* (components/Nip05IdentitySection.tsx, services/nip05Service.ts) and the   *)
(* gateway's routes (routes/identity.rs), which read the domain's document   *)
(* before they store the label for 24 hours.                                 *)
(*                                                                         *)
(* A request is begun, signed with the identity that is active by then,      *)
(* served and answered; the page gives up on it after 10 seconds while the   *)
(* gateway goes on.  A text the user types is <<label, shape>>.               *)
(***************************************************************************)
EXTENDS Naturals, Sequences

CONSTANTS
  Device,        \* public keys the active identity of this page may have
  Other,         \* public keys of other people
  Label,         \* name@domain labels in canonical form
  TTL,           \* VERIFICATION_TTL_HOURS, in ticks
  MaxNow,        \* bound: the clock
  MaxRequests,   \* bound: requests made
  MaxSwitches,   \* bound: changes of the active identity
  MaxEdits,      \* bound: changes of the domains' documents
  MaxNipFaults,  \* bound: requests that are refused, lost or given up on
  NoName

ASSUME NipAssumption == TTL \in Nat

Key == Device \cup Other
\* A label in any case; "address" passes the page's pattern and not the
\* gateway's; "other" neither.
Text == (Label \X {"mixed"}) \cup {<<NoName, "address">>, <<NoName, "other">>}

VARIABLES
  doc,       \* /.well-known/nostr.json: the key a label is mapped to, or None
  users,     \* gateway: per key, None or [identifier, valid_until]
  now,
  reqs,     \* all requests so far
  pubkey,   \* page: the active key
  shown,    \* page: the identity shown, with the key that it was asked for
  loading,  \* page: the buttons are disabled
  run,      \* page: number of the mount effect's present run
  loaded,   \* history: the run whose answer was last applied
  crossed,  \* history: the key changed while verify or remove was under way
  edits, nip_faults

server == <<doc, users, now, edits>>
section == <<pubkey, shown, loading, run, loaded, crossed>>
nipVars == <<server, reqs, section, nip_faults>>

\* fetch of nip05Service.ts, before it is signed.
request(op, text, from, n) ==
  [op |-> op, text |-> text, from |-> from, run |-> n, key |-> NoName,
   ph |-> "begun", waited |-> TRUE, ans |-> [status |-> 0, label |-> NoName]]

NipInit ==
  /\ \E l \in Label, k \in Key \cup {NoName} :  \* a label verified in an earlier session
       /\ doc = [m \in Label |-> IF m = l THEN k ELSE NoName]
       /\ users = [j \in Key |-> IF j = k THEN [identifier |-> l, valid_until |-> TTL] ELSE NoName]
  /\ now = 0 /\ edits = 0 /\ nip_faults = 0
  /\ pubkey \in Device
  /\ shown = NoName /\ loading = TRUE /\ run = 1 /\ loaded = 0 /\ crossed = FALSE
  /\ reqs = <<request("GET", <<NoName, "other">>, "load", 1)>>

\* A request nobody waits for any more.
Over == [request("GET", <<NoName, "other">>, "other", 0) EXCEPT !.ph = "over", !.waited = FALSE]

NipFault == nip_faults < MaxNipFaults /\ nip_faults' = nip_faults + 1
Reply(i, status, label) ==
  reqs' = [reqs EXCEPT ![i] =
    IF @.waited THEN [@ EXCEPT !.ph = "answered", !.ans = [status |-> status, label |-> label]]
    ELSE [Over EXCEPT !.ans.status = status]]

-----------------------------------------------------------------------------
(* The page *)

UnderWay == {i \in DOMAIN reqs : reqs[i].from # "other" /\ reqs[i].waited}

\* The active identity changes: the effect's clean-up forgets its request and
\* the effect makes another.  verify and remove are not cancelled.
changeKey(k) ==
  /\ k # pubkey /\ run <= MaxSwitches /\ Len(reqs) < MaxRequests
  /\ pubkey' = k /\ run' = run + 1 /\ loading' = TRUE
  /\ crossed' = (crossed \/ \E i \in UnderWay : reqs[i].from # "load")
  /\ reqs' = Append(reqs, request("GET", <<NoName, "other">>, "load", run + 1))
  /\ UNCHANGED <<server, shown, loaded, nip_faults>>

verify(text) ==
  /\ ~loading /\ text[2] # "other" /\ Len(reqs) < MaxRequests
  /\ loading' = TRUE
  /\ reqs' = Append(reqs, request("PUT", text, "verify", run))
  /\ UNCHANGED <<server, pubkey, shown, run, loaded, crossed, nip_faults>>

remove ==
  /\ ~loading /\ shown # NoName /\ Len(reqs) < MaxRequests
  /\ loading' = TRUE
  /\ reqs' = Append(reqs, request("DELETE", <<NoName, "other">>, "remove", run))
  /\ UNCHANGED <<server, pubkey, shown, run, loaded, crossed, nip_faults>>

sign(i) ==
  /\ reqs[i].ph = "begun"
  /\ reqs' = [reqs EXCEPT ![i].ph = "signed", ![i].key = pubkey]
  /\ UNCHANGED <<server, section, nip_faults>>

Labelled(i) == [label |-> reqs[i].ans.label, of |-> reqs[i].key]
parseResponse(i) == IF reqs[i].ans.label = NoName THEN NoName ELSE Labelled(i)

NotCancelled(i) ==  \* mutant
  /\ loading' = FALSE /\ loaded' = run
  /\ shown' = IF reqs[i].ans.status = 200 THEN parseResponse(i) ELSE shown

\* The mount effect's callbacks: nothing once its clean-up has run.
getNip05Identity(i) ==
  IF reqs[i].run # run THEN UNCHANGED <<shown, loading, loaded>>
  ELSE /\ loading' = FALSE
       /\ loaded' = IF reqs[i].ans.status = 200 THEN run ELSE loaded
       /\ shown' = IF reqs[i].ans.status = 200 THEN parseResponse(i) ELSE shown

verifyNip05Identity(i) ==
  /\ loading' = FALSE /\ UNCHANGED loaded
  /\ shown' = IF reqs[i].ans.status = 200 THEN parseResponse(i) ELSE shown

removeNip05Identity(i) ==
  /\ loading' = FALSE /\ UNCHANGED loaded
  /\ shown' = IF reqs[i].ans.status = 204 THEN NoName ELSE shown

Received(i) ==
  \/ reqs[i].from = "load" /\ getNip05Identity(i)
  \/ reqs[i].from = "verify" /\ verifyNip05Identity(i)
  \/ reqs[i].from = "remove" /\ removeNip05Identity(i)

answered(i) ==
  /\ i \in UnderWay /\ reqs[i].ph = "answered"
  /\ reqs' = [reqs EXCEPT ![i] = Over]
  /\ Received(i)
  /\ UNCHANGED <<server, pubkey, run, crossed, nip_faults>>

\* No signature, no connection or no answer within 10 seconds.
requestFails(i) ==
  /\ i \in UnderWay /\ reqs[i].ph # "answered"
  /\ NipFault
  /\ reqs' = [reqs EXCEPT ![i] = IF @.ph = "begun" THEN Over ELSE [@ EXCEPT !.waited = FALSE]]
  /\ IF reqs[i].from = "load" /\ reqs[i].run # run THEN UNCHANGED loading
                                                   ELSE loading' = FALSE
  /\ UNCHANGED <<server, pubkey, shown, run, loaded, crossed>>

-----------------------------------------------------------------------------
(* The gateway *)

Serve(i, op) == i \in DOMAIN reqs /\ reqs[i].ph = "signed" /\ reqs[i].op = op
Answers(i) == UNCHANGED <<now, doc, edits, section, nip_faults>>

current_identity(i) ==
  /\ Serve(i, "GET")
  /\ Reply(i, 200, IF users[reqs[i].key] = NoName THEN NoName ELSE users[reqs[i].key].identifier)
  /\ Answers(i) /\ UNCHANGED users

\* Case is folded; an address is refused.
canonical_identifier(text) == text[1]

\* The document is read before the transaction begins.
fetch_document(i) ==
  /\ Serve(i, "PUT")
  /\ LET label == canonical_identifier(reqs[i].text) IN
       IF label = NoName THEN Reply(i, 400, NoName)
       ELSE IF doc[label] = reqs[i].key
            THEN reqs' = [reqs EXCEPT ![i].ph = "mapped"]
            ELSE Reply(i, 422, NoName)
  /\ Answers(i) /\ UNCHANGED users

KeepsExpired(label) == users  \* mutant
\* The first UPDATE: whoever's claim of the label has run out loses it.
withoutExpired(label) ==
  [k \in Key |-> IF users[k] # NoName /\ users[k].identifier = label /\ users[k].valid_until <= now
                 THEN NoName ELSE users[k]]

Carries(us, k, label) == us[k] # NoName /\ us[k].identifier = label

\* Under the advisory lock of the label; the unique index refuses a second
\* holder, and then the transaction leaves no trace.
set_identity(i) ==
  /\ reqs[i].ph = "mapped"
  /\ LET label == canonical_identifier(reqs[i].text)
         us == withoutExpired(label) IN
       IF \E k \in Key \ {reqs[i].key} : Carries(us, k, label)
       THEN Reply(i, 409, NoName) /\ UNCHANGED users
       ELSE /\ users' = [us EXCEPT ![reqs[i].key] =
                           [identifier |-> label, valid_until |-> now + TTL]]
            /\ Reply(i, 200, label)
  /\ Answers(i)

delete_identity(i) ==
  /\ Serve(i, "DELETE")
  /\ users' = [users EXCEPT ![reqs[i].key] = NoName]
  /\ Reply(i, 204, NoName)
  /\ Answers(i)

\* The limiter, or a document that cannot be had in time.
refused(i) ==
  /\ \/ Serve(i, "PUT") \/ Serve(i, "DELETE")
  /\ NipFault
  /\ Reply(i, 429, NoName)
  /\ UNCHANGED <<server, section>>

-----------------------------------------------------------------------------
(* Outside *)

\* Somebody else verifies a label of theirs.
otherVerifies(k, label) ==
  /\ Len(reqs) < MaxRequests
  /\ reqs' = Append(reqs, [request("PUT", <<label, "mixed">>, "other", 0) EXCEPT
                             !.ph = "signed", !.key = k, !.waited = FALSE])
  /\ UNCHANGED <<server, section, nip_faults>>

\* The domain's owner maps the label to a key, or to none.
domainEdits(label, k) ==
  /\ edits < MaxEdits /\ doc[label] # k
  /\ edits' = edits + 1
  /\ doc' = [doc EXCEPT ![label] = k]
  /\ UNCHANGED <<users, now, reqs, section, nip_faults>>

NipTick ==
  /\ now < MaxNow
  /\ now' = now + 1
  /\ UNCHANGED <<doc, users, edits, reqs, section, nip_faults>>

NipNext ==
  \/ \E k \in Device : changeKey(k)
  \/ \E text \in Text : verify(text)
  \/ remove
  \/ \E i \in DOMAIN reqs :
       \/ sign(i) \/ answered(i) \/ requestFails(i)
       \/ current_identity(i) \/ fetch_document(i) \/ set_identity(i)
       \/ delete_identity(i) \/ refused(i)
  \/ \E label \in Label : \/ \E k \in Other : otherVerifies(k, label)
                          \/ \E k \in Key \cup {NoName} : domainEdits(label, k)
  \/ NipTick

NipSpec == NipInit /\ [][NipNext]_nipVars

-----------------------------------------------------------------------------
(* Properties *)

\* A label that has run out never stands in the way: set_identity answers 409
\* only while another key's claim of the label is still valid (identity.rs
\* clears expired claims under the label's lock before the unique index looks).
ConflictIsCurrent ==
  [][\A i \in DOMAIN reqs : reqs'[i].ans.status = 409 /\ reqs[i].ans.status # 409 =>
       \E k \in Key : /\ Carries(users, k, canonical_identifier(reqs[i].text))
                      /\ users[k].valid_until > now]_nipVars

\* Once the mount effect has loaded for the active key, the section shows a
\* label of that key only, although answers of an earlier key's load may still
\* arrive.  (A verify or remove that was running across a change of key is not
\* cancelled and is the exception.)
ShownForActiveKey == shown # NoName /\ loaded = run => shown.of = pubkey \/ crossed
=============================================================================
