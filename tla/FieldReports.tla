---------------------------- MODULE FieldReports ----------------------------
(***************************************************************************)
(* Community reports on the page: the form that files one                  *)
(* (components/ReportSubmit.tsx, services/photoService.ts), the votes of   *)
(* the list (components/ReportList.tsx), and the store that four feeds     *)
(* write in no fixed order (store/reportSlice.ts): the first request       *)
(* (hooks/useSafetyDataSync.ts), the county socket (services/websocket.ts) *)
(* and the answers to the page's own posts and votes.                      *)
(*                                                                         *)
(* Reports are numbered in the order of created_at; of a report only       *)
(* updated_at is kept, as a version.  A form is filled in once: what is    *)
(* typed afterwards makes no difference to the steps below.                *)
(***************************************************************************)
EXTENDS Integers, FiniteSets, Sequences

CONSTANTS
  Cap,         \* reports the store keeps and the first request asks for
  MaxReports,  \* bound: reports filed, by anybody
  MaxVersion,  \* bound: versions of a report
  MaxPresses,  \* bound: presses of Submit
  MaxForms,    \* bound: times the form is opened
  Plans        \* bounds of a behaviour: presses, forms, votes cast on this page,
                \* breaks of the county socket, reports, whether feeds and others move

ASSUME FormAssumption == Cap \in Nat /\ MaxReports \in Nat

VARIABLES
  rows,   \* community_reports: the version of each report, 0 if not there
  filed,  \* history: the press that filed a report, 0 if it is another's
  wire,   \* what the county socket still has to deliver
  feed,   \* the county socket and the first request
  items,  \* reports of the store, the first on top
  form,   \* the form that is on the page
  press,  \* the runs of handleSubmit
  casts,  \* the runs of castVote
  plan,   \* the bounds chosen for this behaviour
  pinned  \* the photos uploaded, by what had been done to them

reportsServer == <<rows, filed, wire, plan>>
formVars == <<reportsServer, feed, items, form, press, casts, pinned>>

Id == 1..MaxReports
Version == [id : Id, ver : 1..MaxVersion]
Photo == {"none", "raw", "stripped", "drawn", "blurred"}
Steps == {"locating", "compress", "draw", "blur", "encode", "upload", "sign", "posting", "done"}

FormTypeOK ==
  /\ rows \in [Id -> 0..MaxVersion] /\ filed \in [Id -> 0..MaxPresses] /\ wire \subseteq Version
  /\ feed.ws \in {"connecting", "open", "down"} /\ feed.connected \in BOOLEAN
  /\ feed.breaks \in Nat /\ feed.first \in {"asked", "answered", "done", "failed"}
  /\ items \in Seq(Version) /\ Len(items) <= Cap
  /\ form \in [desktop : BOOLEAN, open : BOOLEAN, inst : 0..MaxForms,
               submitState : {"idle", "locating", "submitting", "error"}]
  /\ \A h \in DOMAIN press :
       press[h] \in [inst : 1..MaxForms, pc : Steps, photo : Photo, cid : Photo,
                     req : {"none", "sent", "stored", "refused"}, answer : 0..MaxReports,
                     lost : BOOLEAN]
  /\ \A v \in DOMAIN casts :
       casts[v] \in [pc : {"sign", "locate", "posting", "answered", "done"}, id : Id, ver : 0..MaxVersion]
  /\ pinned \subseteq Photo /\ plan \in Plans

\* On a desktop the form is always there; on a phone it is opened.
FormInit ==
  /\ rows \in [Id -> {0}] /\ filed = [r \in Id |-> 0] /\ wire = {}
  /\ feed = [ws |-> "connecting", connected |-> FALSE, breaks |-> 0, first |-> "asked", list |-> <<>>]
  /\ items = <<>>
  /\ form \in {[desktop |-> d, open |-> d, inst |-> IF d THEN 1 ELSE 0, submitState |-> "idle"] :
                 d \in BOOLEAN}
  /\ press = <<>> /\ casts = <<>> /\ pinned = {} /\ plan \in Plans

-----------------------------------------------------------------------------
(* The store *)

LastWins(list, report) ==
  LET at == {i \in DOMAIN list : list[i].id = report.id}
      n == IF Len(list) < Cap THEN Len(list) + 1 ELSE Cap
  IN  IF at = {} THEN SubSeq(<<report>> \o list, 1, n)
      ELSE [i \in DOMAIN list |-> IF i \in at THEN report ELSE list[i]]

\* upsert: an older version is ignored; a new report goes on top and the list is cut.
upsertReport(list, report) ==
  LET at == {i \in DOMAIN list : list[i].id = report.id}
      n == IF Len(list) < Cap THEN Len(list) + 1 ELSE Cap
  IN  IF at = {} THEN SubSeq(<<report>> \o list, 1, n)
      ELSE [i \in DOMAIN list |->
              IF i \in at /\ ~(report.ver < list[i].ver) THEN report ELSE list[i]]

reportReceived(report) == items' = upsertReport(items, report)

\* reportsHydrated, one report after the other.
reportsHydrated(reports) ==
  LET after[n \in 0..Len(reports)] ==
        IF n = 0 THEN items ELSE upsertReport(after[n - 1], reports[n])
  IN  items' = after[Len(reports)]

-----------------------------------------------------------------------------
(* The gateway, as far as the page can tell *)

Announce(m) == wire' = IF feed.ws = "open" THEN wire \cup {m} ELSE wire
FreeId == {r \in Id : r <= plan.reports /\ rows[r] = 0 /\ \A q \in Id : q < r => rows[q] # 0}

\* create_report: a new row, then NEW_REPORT to every open socket.
Files(r, h) ==
  /\ rows' = [rows EXCEPT ![r] = 1] /\ filed' = [filed EXCEPT ![r] = h]
  /\ Announce([id |-> r, ver |-> 1]) /\ UNCHANGED plan

\* The page's own report; a request whose handler has given up arrives all the same.
create_report(h) ==
  /\ press[h].req = "sent"
  /\ \E r \in FreeId : Files(r, h) /\ press' = [press EXCEPT ![h].req = "stored", ![h].answer = r]
  /\ UNCHANGED <<feed, items, form, casts, pinned>>

refused(h) ==
  /\ press[h].req = "sent" /\ press' = [press EXCEPT ![h].req = "refused"]
  /\ UNCHANGED <<reportsServer, feed, items, form, casts, pinned>>

\* Somebody else files a report, or votes on one: REPORT_UPDATED.
othersFile ==
  /\ plan.others /\ \E r \in FreeId : Files(r, 0)
  /\ UNCHANGED <<feed, items, form, press, casts, pinned>>
Raises(r) ==
  /\ rows[r] \in 1..(MaxVersion - 1)
  /\ rows' = [rows EXCEPT ![r] = @ + 1] /\ Announce([id |-> r, ver |-> rows[r] + 1])
  /\ UNCHANGED <<filed, plan>>
othersVote(r) ==
  /\ plan.others /\ Raises(r)
  /\ UNCHANGED <<feed, items, form, press, casts, pinned>>
cast_vote(v) ==
  /\ casts[v].pc = "posting" /\ Raises(casts[v].id)
  /\ casts' = [casts EXCEPT ![v].pc = "answered", ![v].ver = rows[casts[v].id] + 1]
  /\ UNCHANGED <<feed, items, form, press, pinned>>

\* list_reports: the newest ones, newest first.
Listed ==
  LET all == {r \in Id : rows[r] # 0}
      n == IF Cardinality(all) < Cap THEN Cardinality(all) ELSE Cap
  IN  {s \in [1..n -> all] : /\ \A i, j \in 1..n : i < j => s[i] > s[j]
                             /\ \A r \in all : r \in {s[i] : i \in 1..n} \/ \A i \in 1..n : r < s[i]}
list_reports ==
  /\ plan.others /\ feed.first = "asked"
  /\ \E s \in Listed :
       feed' = [feed EXCEPT !.first = "answered", !.list = [i \in DOMAIN s |-> [id |-> s[i], ver |-> rows[s[i]]]]]
  /\ UNCHANGED <<reportsServer, items, form, press, casts, pinned>>

-----------------------------------------------------------------------------
(* The feeds *)

\* useSafetyDataSync: the answer of fetchInitialReports, or its failure.
fetchInitialReports ==
  /\ feed.first = "answered" /\ reportsHydrated(feed.list)
  /\ feed' = [feed EXCEPT !.first = "done", !.list = <<>>]
  /\ UNCHANGED <<reportsServer, form, press, casts, pinned>>
reportsHydrationFailed ==
  /\ feed.first \in {"asked", "answered"}
  /\ feed' = [feed EXCEPT !.first = "failed", !.list = <<>>]
  /\ UNCHANGED <<reportsServer, items, form, press, casts, pinned>>

reportsOnopen ==
  /\ feed.ws = "connecting"
  /\ feed' = [feed EXCEPT !.ws = "open", !.connected = TRUE]
  /\ UNCHANGED <<reportsServer, items, form, press, casts, pinned>>

\* A report of the socket.  Broadcasts follow their commits in any order.
reportsOnmessage(m) ==
  /\ feed.ws = "open" /\ m \in wire /\ wire' = wire \ {m}
  /\ reportReceived(m)
  /\ UNCHANGED <<rows, filed, plan, feed, form, press, casts, pinned>>

\* The socket breaks and what it had not delivered is lost.
reportsOnclose ==
  /\ feed.ws \in {"connecting", "open"} /\ feed.breaks < plan.breaks
  /\ feed' = [feed EXCEPT !.ws = "down", !.connected = FALSE, !.breaks = @ + 1]
  /\ wire' = {}
  /\ UNCHANGED <<rows, filed, plan, items, form, press, casts, pinned>>

\* The timer of backoffDelay.
reportsConnect ==
  /\ feed.ws = "down" /\ feed' = [feed EXCEPT !.ws = "connecting"]
  /\ UNCHANGED <<reportsServer, items, form, press, casts, pinned>>

Feeds == fetchInitialReports \/ reportsHydrationFailed \/ reportsOnopen \/ reportsOnclose \/ reportsConnect
         \/ \E m \in wire : reportsOnmessage(m)

-----------------------------------------------------------------------------
(* The form *)

setMobileFormOpen ==
  /\ ~form.desktop /\ ~form.open /\ form.inst < plan.forms
  /\ form' = [form EXCEPT !.open = TRUE, !.inst = @ + 1, !.submitState = "idle"]
  /\ UNCHANGED <<reportsServer, feed, items, press, casts, pinned>>

Closed == IF form.desktop THEN form ELSE [form EXCEPT !.open = FALSE]

\* Cancel leaves the run of handleSubmit alone.
onClose ==
  /\ form.open /\ ~form.desktop /\ form' = Closed
  /\ UNCHANGED <<reportsServer, feed, items, press, casts, pinned>>

\* setSubmitState of a form that is gone does nothing.
Shows(h, s) ==
  form' = IF form.open /\ form.inst = press[h].inst THEN [form EXCEPT !.submitState = s] ELSE form
At(h, pc) == press[h].pc = pc
Goes(h, pc) == press' = [press EXCEPT ![h].pc = pc]
Alone == <<reportsServer, feed, items, casts>>

AlwaysThere == TRUE

\* The button is disabled while a run of this form is on its way.
submitEnabled == form.submitState \notin {"locating", "submitting"}

handleSubmit(photo) ==
  /\ form.open /\ submitEnabled /\ Len(press) < plan.presses
  /\ press' = Append(press, [inst |-> form.inst, pc |-> "locating", photo |-> photo, cid |-> "none",
                             req |-> "none", answer |-> 0, lost |-> FALSE])
  /\ form' = [form EXCEPT !.submitState = "locating"]
  /\ UNCHANGED <<Alone, pinned>>

\* getCurrentPosition answers, or fails within eight seconds.
located(h) ==
  /\ At(h, "locating") /\ Shows(h, "submitting")
  /\ Goes(h, IF press[h].photo = "none" THEN "sign" ELSE "compress")
  /\ UNCHANGED <<Alone, pinned>>
notLocated(h) ==
  /\ At(h, "locating") /\ Shows(h, "error") /\ Goes(h, "done")
  /\ UNCHANGED <<Alone, pinned>>

\* A step of the photo works on what the step before left.
PhotoBecomes(h, from, photo, to) ==
  /\ At(h, from) /\ press' = [press EXCEPT ![h].photo = photo, ![h].pc = to]
  /\ UNCHANGED <<Alone, form, pinned>>
compressAndStrip(h) == PhotoBecomes(h, "compress", "stripped", "draw")
drawImage(h) == PhotoBecomes(h, "draw", "drawn", "blur")
blurFaces(h) == PhotoBecomes(h, "blur", "blurred", "encode")
toBlob(h) == PhotoBecomes(h, "encode", press[h].photo, "upload")

\* uploadToIPFS: pinned, and the answer may still be lost; or not pinned at all.
uploadToIPFS(h) ==
  /\ At(h, "upload") /\ pinned' = pinned \cup {press[h].photo}
  /\ \E cid \in {"none", press[h].photo} :
       press' = [press EXCEPT ![h].pc = "sign", ![h].cid = cid]
  /\ UNCHANGED <<Alone, form>>

\* Any step of the photo fails: the report goes out without it.
photoFails(h) ==
  /\ press[h].pc \in {"compress", "draw", "blur", "encode", "upload"} /\ Goes(h, "sign")
  /\ UNCHANGED <<Alone, form, pinned>>

\* signBoundEvent, then the post.
signBoundEvent(h) ==
  /\ At(h, "sign") /\ press' = [press EXCEPT ![h].pc = "posting", ![h].req = "sent"]
  /\ UNCHANGED <<Alone, form, pinned>>

\* The answer: the report is shown and the form closed, or the status is an error.
answered(h) ==
  /\ At(h, "posting") /\ press[h].req = "stored" /\ Goes(h, "done")
  /\ reportReceived([id |-> press[h].answer, ver |-> 1])
  /\ form' = Closed   \* the page's setter: it closes a form opened since, too
  /\ UNCHANGED <<reportsServer, feed, casts, pinned>>
statusError(h) ==
  /\ At(h, "posting") /\ press[h].req = "refused" /\ Goes(h, "done") /\ Shows(h, "error")
  /\ UNCHANGED <<Alone, pinned>>

\* The signer fails, the network fails, or fifteen seconds are over; the request
\* may have been or may yet be served.
submitFails(h) ==
  /\ press[h].pc \in {"sign", "posting"} /\ Shows(h, "error")
  /\ press' = [press EXCEPT ![h].pc = "done", ![h].lost = press[h].pc = "posting"]
  /\ UNCHANGED <<Alone, pinned>>

Submission(h) ==
  \/ located(h) \/ notLocated(h) \/ compressAndStrip(h) \/ drawImage(h) \/ blurFaces(h) \/ toBlob(h)
  \/ uploadToIPFS(h) \/ photoFails(h) \/ signBoundEvent(h) \/ answered(h) \/ statusError(h)
  \/ submitFails(h) \/ create_report(h) \/ refused(h)

-----------------------------------------------------------------------------
(* Votes *)

AdvanceVote(v, from, to) ==
  /\ casts[v].pc = from /\ casts' = [casts EXCEPT ![v].pc = to]
  /\ UNCHANGED <<reportsServer, feed, form, press, pinned>>

\* castVote signs before it asks for the position; the buttons are never disabled.
castVote(r) ==
  /\ \E i \in DOMAIN items : items[i].id = r
  /\ Len(casts) < plan.votes /\ casts' = Append(casts, [pc |-> "sign", id |-> r, ver |-> 0])
  /\ UNCHANGED <<reportsServer, feed, items, form, press, pinned>>
voteSigned(v) == AdvanceVote(v, "sign", "locate") /\ UNCHANGED items
\* With a position or without one.
votePosted(v) == AdvanceVote(v, "locate", "posting") /\ UNCHANGED items
voteAnswered(v) ==
  /\ AdvanceVote(v, "answered", "done")
  /\ reportReceived([id |-> casts[v].id, ver |-> casts[v].ver])
\* The signer, the server or the network: only logged.
voteFails(v) == \E pc \in {"sign", "posting", "answered"} : AdvanceVote(v, pc, "done") /\ UNCHANGED items

Voting(v) == voteSigned(v) \/ votePosted(v) \/ cast_vote(v) \/ voteAnswered(v) \/ voteFails(v)

-----------------------------------------------------------------------------
FormNext ==
  \/ (plan.others /\ Feeds) \/ list_reports \/ othersFile \/ (\E r \in Id : othersVote(r) \/ castVote(r))
  \/ setMobileFormOpen \/ onClose \/ (\E photo \in {"none", "raw"} : handleSubmit(photo))
  \/ (\E h \in DOMAIN press : Submission(h)) \/ \E v \in DOMAIN casts : Voting(v)

FormSpec == FormInit /\ [][FormNext]_formVars

-----------------------------------------------------------------------------
(* Properties *)

\* A form that is filled in once files one report: it files a second one only if
\* the page gave up on the request of the first (ReportSubmit.tsx:99-102).
DuplicateMeansLostAnswer ==
  \A i \in 1..MaxForms :
    LET mine == {r \in Id : filed[r] # 0 /\ press[filed[r]].inst = i}
        lost == {h \in DOMAIN press : press[h].inst = i /\ press[h].lost}
    IN  Cardinality(mine) <= 1 + Cardinality(lost)

\* The first answer brings so many new reports that some are cut off the list on
\* the way, and may come back at the version of the answer.
Overflows ==
  /\ feed.first = "answered" /\ feed'.first = "done"
  /\ Cardinality({items[i].id : i \in DOMAIN items} \cup
                 {feed.list[k].id : k \in DOMAIN feed.list}) > Cap

\* While a report is on the page it never goes back to an older version, whatever
\* the order of the first answer, the socket and the answers to votes, unless the
\* first answer overflows the list.
ReportNeverGoesBack ==
  [][Overflows \/ \A i \in DOMAIN items, j \in DOMAIN items' :
       items[i].id = items'[j].id => items[i].ver <= items'[j].ver]_formVars
=============================================================================
