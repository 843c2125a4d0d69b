----------------------------- MODULE PushClient -----------------------------
(***************************************************************************)
(* The alert perimeter of one browser (hooks/usePushSubscription.ts and    *)
(* components/AlertPerimeter.tsx).  Three places say whether alerts are    *)
(* wanted: the browser's push subscription, the preferences in local       *)
(* storage and the row of the gateway.  Opening the page registers what is *)
(* saved once more, enable and disable change all three, each step of them *)
(* may fail, the page may be reloaded in between, and a request whose      *)
(* answer was given up at the timeout may still reach the gateway.         *)
(***************************************************************************)
EXTENDS Naturals, FiniteSets

CONSTANTS
  Perimeter,   \* centre, radius and severity, as the gateway is sent them
  NoPerimeter,
  MaxRuns,     \* bound: runs of the effect, of enable and of disable
  MaxReloads   \* bound: reloads of the page

ASSUME BrowserAssumption == MaxRuns \in Nat /\ MaxReloads \in Nat

VARIABLES
  row,         \* the gateway's row for this subscription's endpoint, or None
  subscribed,  \* pushManager.getSubscription() is not null
  saved,       \* the preferences in local storage, or None
  form,        \* the preferences on the screen, or None without a centre
  state,       \* the state of the hook
  runs,        \* runs of the effect, of enable and of disable, at an await
  wire,        \* requests that may still reach the gateway
  overlap,     \* a button was pressed while a run or a request was on its way
  made,        \* runs started so far
  reloads

browserVars == <<row, subscribed, saved, form, state, runs, wire, overlap, made, reloads>>

PushState == {"idle", "enabled", "denied", "working", "error"}
Run == [id : 1..MaxRuns, op : {"mount", "enable", "disable"}, pref : Perimeter \cup {NoPerimeter},
        at : {"ready", "sign", "fetch", "done", "unsubscribe"}]

BrowserTypeOK ==
  /\ row \in Perimeter \cup {NoPerimeter} /\ saved \in Perimeter \cup {NoPerimeter} /\ form \in Perimeter \cup {NoPerimeter}
  /\ subscribed \in BOOLEAN /\ overlap \in BOOLEAN /\ state \in PushState
  /\ runs \subseteq Run /\ wire \subseteq [id : 1..MaxRuns, pref : Perimeter \cup {NoPerimeter}]
  /\ made \in 0..MaxRuns /\ reloads \in 0..MaxReloads

\* Alerts were never enabled on this browser.
BrowserInit ==
  /\ row = NoPerimeter /\ saved = NoPerimeter /\ form = NoPerimeter /\ subscribed = FALSE /\ overlap = FALSE
  /\ state = "idle" /\ runs = {} /\ wire = {} /\ made = 0 /\ reloads = 0

-----------------------------------------------------------------------------
Starts(op, pref) ==
  /\ made < MaxRuns /\ made' = made + 1
  /\ overlap' = (overlap \/ runs # {} \/ wire # {})
  /\ runs' = runs \cup {[id |-> made + 1, op |-> op, pref |-> pref, at |-> "ready"]}
Moves(r, at) == runs' = (runs \ {r}) \cup {[r EXCEPT !.at = at]}
Ends(r, s) == runs' = runs \ {r} /\ state' = s

\* currentPosition, or another radius or severity.
locate(p) ==
  /\ form # p /\ form' = p
  /\ UNCHANGED <<row, subscribed, saved, state, runs, wire, overlap, made, reloads>>

\* The page is loaded again: the runs are gone, their requests are not.  The
\* effect has work to do when preferences are saved.
reload ==
  /\ reloads < MaxReloads /\ reloads' = reloads + 1
  /\ state' = "idle" /\ form' = saved
  /\ IF saved = NoPerimeter \/ made = MaxRuns
       THEN runs' = {} /\ UNCHANGED made
       ELSE /\ made' = made + 1
            /\ runs' = {[id |-> made + 1, op |-> "mount", pref |-> saved, at |-> "ready"]}
  /\ UNCHANGED <<row, subscribed, saved, wire, overlap>>

\* Enable nearby alerts, or Update perimeter.
enable ==
  /\ form # NoPerimeter /\ state # "working" /\ Starts("enable", form)
  /\ state' = "working"
  /\ UNCHANGED <<row, subscribed, saved, form, wire, reloads>>

\* Disable alerts, offered while the state is enabled.
disable ==
  /\ state = "enabled" /\ Starts("disable", NoPerimeter)
  /\ state' = "working"
  /\ UNCHANGED <<row, subscribed, saved, form, wire, reloads>>

\* requestPermission is refused or dismissed.
refused(r) ==
  /\ r.op = "enable" /\ r.at = "ready"
  /\ \E s \in {"denied", "idle"} : Ends(r, s)
  /\ UNCHANGED <<row, subscribed, saved, form, wire, overlap, made, reloads>>

\* getSubscription of the effect and of disable; enable subscribes if there is none.
getSubscription(r) ==
  /\ r.at = "ready"
  /\ subscribed' = (subscribed \/ r.op = "enable")
  /\ IF subscribed' THEN Moves(r, "sign") /\ UNCHANGED <<state, saved>>
     ELSE /\ Ends(r, "idle")
          /\ saved' = IF r.op = "disable" THEN NoPerimeter ELSE saved
  /\ UNCHANGED <<row, form, wire, overlap, made, reloads>>

\* signNip98AuthEvent and fetch: POST with the preferences, or DELETE.
request(r) ==
  /\ r.at = "sign" /\ Moves(r, "fetch")
  /\ wire' = wire \cup {[id |-> r.id, pref |-> r.pref]}
  /\ UNCHANGED <<row, subscribed, saved, form, state, overlap, made, reloads>>

\* The gateway takes a request, or it is lost.
Reaches(w) ==
  /\ wire' = wire \ {w} /\ row' = w.pref
  /\ runs' = {IF r.id = w.id /\ r.at = "fetch" THEN [r EXCEPT !.at = "done"] ELSE r : r \in runs}
  /\ UNCHANGED <<subscribed, saved, form, state, overlap, made, reloads>>
Lost(w) ==
  /\ wire' = wire \ {w}
  /\ UNCHANGED <<row, subscribed, saved, form, state, runs, overlap, made, reloads>>

\* A step throws: the signer, the network, a refusal, the timeout of 15 seconds
\* (before or after the gateway took the request) or the push manager.
throws(r) ==
  /\ Ends(r, "error")
  /\ UNCHANGED <<row, subscribed, saved, form, wire, overlap, made, reloads>>

\* The answer of the effect and of enable.
mountAnswered(r) ==
  /\ r.op = "mount" /\ r.at = "done" /\ Ends(r, "enabled")
  /\ UNCHANGED <<row, subscribed, saved, form, wire, overlap, made, reloads>>
enableAnswered(r) ==
  /\ r.op = "enable" /\ r.at = "done" /\ Ends(r, "enabled") /\ saved' = r.pref
  /\ UNCHANGED <<row, subscribed, form, wire, overlap, made, reloads>>

UnsubscribesFirst(r) ==
  /\ r.op = "disable" /\ r.at \in {"sign", "fetch", "done"} /\ Moves(r, "unsubscribe")
  /\ UNCHANGED <<row, subscribed, saved, form, state, wire, overlap, made, reloads>>

\* The answer to the DELETE of disable.
deleted(r) ==
  /\ r.op = "disable" /\ r.at = "done" /\ Moves(r, "unsubscribe")
  /\ UNCHANGED <<row, subscribed, saved, form, state, wire, overlap, made, reloads>>

\* subscription.unsubscribe() resolves.
unsubscribed(r) ==
  /\ r.at = "unsubscribe" /\ subscribed' = FALSE /\ saved' = NoPerimeter /\ Ends(r, "idle")
  /\ UNCHANGED <<row, form, wire, overlap, made, reloads>>

-----------------------------------------------------------------------------
BrowserNext ==
  \/ reload \/ enable \/ disable
  \/ \E p \in Perimeter : locate(p)
  \/ \E r \in runs : refused(r) \/ getSubscription(r) \/ request(r) \/ throws(r)
       \/ mountAnswered(r) \/ enableAnswered(r) \/ deleted(r) \/ unsubscribed(r)
  \/ \E w \in wire : Reaches(w) \/ Lost(w)

BrowserSpec == BrowserInit /\ [][BrowserNext]_browserVars

-----------------------------------------------------------------------------
(* Properties *)

\* Whatever fails, times out or is cut off by a reload, a browser that has given up
\* its subscription has no row left at the gateway, to which alerts would be sent
\* for ever: disable deletes the row first and keeps the subscription, with which
\* it can be tried again, until that is answered (usePushSubscription.ts:96-99).
\* Only a button pressed while an earlier request may still reach the gateway can
\* leave one (the effect's registration is not waited for).
UnsubscribedIsUnregistered == ~subscribed => row = NoPerimeter \/ overlap
=============================================================================
