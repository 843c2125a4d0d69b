------------------------------- MODULE Signer -------------------------------
(***************************************************************************)
(* The active signer of one tab of the PWA: the device key, or a remote     *)
(* signer (NIP-46 bunker) reached over relays (signerService.ts), the       *)
(* connection kept in IndexedDB (bunkerStore.ts), the signing helpers of    *)
(* nostrService.ts and the handlers of the Settings page.  The state is     *)
(* module-level and every call is asynchronous, so a call goes on after an  *)
(* await in a world that other calls have changed.  A remote signer may     *)
(* answer late, answer under another key, or never answer.                  *)
(***************************************************************************)
EXTENDS Naturals, Sequences

CONSTANTS Call,        \* slots for the calls in flight
          RemoteKey,   \* keys a remote signer may sign with
          Absent,
          MaxLocal,    \* bound on the device keys generated
          MaxCalls     \* bound on the calls made

ASSUME SignerAssumption == Absent \notin Nat

VARIABLES identity,    \* [mode, pubkey, status]
          remote,      \* None or [session, generation]
          generation,
          stored,           \* the stored connection's expectedPubkey, or None
          local,            \* public key of getCachedKeypair
          task,             \* per slot: the call in flight
          calls, sessions,  \* how many were started
          signed,           \* history: the last event returned to a caller
          ended             \* history: sessions that were closed or replaced

signerVars == <<identity, remote, generation, stored, local, task, calls, sessions, signed, ended>>

LocalKey == 1 .. MaxLocal
Pubkey == LocalKey \cup RemoteKey

\* The events the app has signed: a request authorisation bound to its URL,
\* method and body, and a report, vote or vouch bound to its content.
signNip98AuthEvent == [kind |-> 27235, tags |-> {"u", "method", "nonce", "payload"}, content |-> "empty"]
signBoundEvent == [kind |-> 30078, tags |-> {}, content |-> "binding"]
Template == {signNip98AuthEvent, signBoundEvent}

sameTemplate(template, event) ==
  event.kind = template.kind /\ event.content = template.content /\ event.tags = template.tags

Idle == [op |-> "idle", ph |-> "", pin |-> Absent, session |-> Absent, generation |-> 0,
         answer |-> Absent, template |-> Absent]

SignerTypeOK ==
  /\ identity.mode \in {"local", "bunker"}
  /\ identity.pubkey \in Pubkey \cup {Absent}
  /\ identity.status \in {"ready", "connecting", "offline", "authorization-required", "error"}
  /\ remote = Absent \/ (remote.session \in 1 .. sessions /\ remote.generation \in 0 .. generation)
  /\ stored \in RemoteKey \cup {Absent} /\ local \in LocalKey
  /\ \A c \in Call :
       /\ task[c].op \in {"idle", "init", "connect", "reconnect", "disconnect", "sign", "chat"}
       /\ task[c].ph \in {"", "load", "closing", "dial", "save", "clear", "asked", "held", "failing"}
       /\ task[c].pin \in Pubkey \cup {Absent} /\ task[c].answer \in RemoteKey \cup {Absent}
       /\ task[c].template = Absent \/ task[c].template \in Template
  /\ calls \in 0 .. MaxCalls
  /\ signed = Absent \/ (signed.by \in Pubkey /\ signed.want \in Pubkey \cup {Absent}
                       /\ signed.mode \in {"local", "bunker"} /\ {signed.asked, signed.event} \subseteq Template)
  /\ ended \subseteq 1 .. sessions

\* main.tsx: loadIdentity, then initializeActiveSigner.  An earlier session may
\* have left a connection behind.
SignerInit ==
  /\ identity = [mode |-> "local", pubkey |-> Absent, status |-> "ready"]
  /\ remote = Absent /\ generation = 0 /\ local = 1
  /\ stored \in RemoteKey \cup {Absent}
  /\ \E c \in Call : task = [d \in Call |-> IF d = c THEN [Idle EXCEPT !.op = "init", !.ph = "load"] ELSE Idle]
  /\ calls = 0 /\ sessions = 0 /\ signed = Absent /\ ended = {}

(***************************************************************************)
(* The pieces the calls are made of.                                        *)
(***************************************************************************)
publishIdentity(mode, pubkey, status) ==
  identity' = [mode |-> mode, pubkey |-> pubkey, status |-> status]

getActiveIdentity == identity

Become(c, next) == task' = [task EXCEPT ![c] = next]
Finish(c) == Become(c, Idle)
Begin(c, op, ph) ==
  /\ task[c] = Idle /\ calls < MaxCalls
  /\ calls' = calls + 1
  /\ Become(c, [Idle EXCEPT !.op = op, !.ph = ph])

\* The part of closeRemote before its await.  With no session to close it does
\* not suspend, and the caller goes on in the same step.
closeRemote ==
  /\ remote' = Absent /\ generation' = generation + 1
  /\ ended' = IF remote = Absent THEN ended ELSE ended \cup {remote.session}

saveBunkerConnection(pubkey) == stored' = pubkey
loadBunkerConnection == stored
clearBunkerConnection == stored' = Absent

\* The catch blocks of open and signWithActiveIdentity: close whatever session
\* is current, then report the error under the key of the call that failed.
Fail(c, pubkey) ==
  /\ closeRemote
  /\ IF remote = Absent
       THEN publishIdentity("bunker", pubkey, "error") /\ Finish(c)
       ELSE /\ Become(c, [task[c] EXCEPT !.ph = "failing", !.pin = pubkey])
            /\ UNCHANGED identity

failed(c) ==
  /\ task[c].ph = "failing"
  /\ publishIdentity("bunker", task[c].pin, "error") /\ Finish(c)
  /\ UNCHANGED <<remote, generation, stored, local, calls, sessions, signed, ended>>

(***************************************************************************)
(* Boot, and the device identity.                                           *)
(***************************************************************************)
initializeActiveSigner(c) ==
  /\ task[c].op = "init"
  /\ IF loadBunkerConnection # Absent
       THEN publishIdentity("bunker", loadBunkerConnection, "offline")
       ELSE publishIdentity("local", local, "ready")
  /\ Finish(c)
  /\ UNCHANGED <<remote, generation, stored, local, calls, sessions, signed, ended>>

refreshLocalIdentity ==
  IF identity.mode = "local" THEN publishIdentity("local", local', "ready") ELSE UNCHANGED identity

\* handleGenerate, handleImport, handleConfirmRestore: the cached key changes and
\* the page refreshes the shown identity in the same turn of the event loop.
handleGenerate ==
  /\ local < MaxLocal /\ local' = local + 1
  /\ refreshLocalIdentity
  /\ UNCHANGED <<remote, generation, stored, task, calls, sessions, signed, ended>>

(***************************************************************************)
(* open.  connect, getPublicKey and ping are one await with a deadline:     *)
(* nothing is written between them.                                         *)
(***************************************************************************)
\* After closeRemote: the session is numbered with the generation of that moment.
startSession(c, op, pin, gen) ==
  /\ publishIdentity("bunker", pin, "connecting")
  /\ sessions' = sessions + 1
  /\ remote' = [session |-> sessions + 1, generation |-> gen]
  /\ Become(c, [op |-> op, ph |-> "dial", pin |-> pin, session |-> sessions + 1,
                generation |-> gen, answer |-> Absent, template |-> Absent])

\* open(stored, persist), up to its first suspension.
open(c, op, pin) ==
  /\ generation' = generation + 1
  /\ IF remote = Absent
       THEN startSession(c, op, pin, generation + 1) /\ ended' = ended
       ELSE /\ remote' = Absent /\ ended' = ended \cup {remote.session}
            /\ Become(c, [Idle EXCEPT !.op = op, !.ph = "closing", !.pin = pin])
            /\ UNCHANGED <<identity, sessions>>

openCloses(c) ==
  /\ task[c].op \in {"connect", "reconnect"} /\ task[c].ph = "closing"
  /\ startSession(c, task[c].op, task[c].pin, generation)
  /\ ended' = IF remote = Absent THEN ended ELSE ended \cup {remote.session}
  /\ UNCHANGED <<generation, stored, local, calls, signed>>

onauth(c) ==
  /\ task[c].ph = "dial"
  /\ remote # Absent /\ remote.generation = task[c].generation
  /\ identity.status # "authorization-required"
  /\ publishIdentity("bunker", task[c].pin, "authorization-required")
  /\ UNCHANGED <<remote, generation, stored, local, task, calls, sessions, signed, ended>>

\* The remote signer answered with a key.
openAnswered(c) ==
  /\ task[c].ph = "dial"
  /\ \E pubkey \in RemoteKey :
       IF /\ task[c].pin \in {Absent, pubkey}
          /\ remote # Absent /\ remote.generation = task[c].generation
         THEN /\ UNCHANGED <<remote, generation, ended>>
              /\ IF task[c].op = "connect"
                   THEN /\ Become(c, [task[c] EXCEPT !.ph = "save", !.answer = pubkey])
                        /\ UNCHANGED identity
                   ELSE publishIdentity("bunker", pubkey, "ready") /\ Finish(c)
         ELSE Fail(c, task[c].pin)
  /\ UNCHANGED <<stored, local, calls, sessions, signed>>

openSaved(c) ==
  /\ task[c].ph = "save"
  /\ saveBunkerConnection(task[c].answer)
  /\ publishIdentity("bunker", task[c].answer, "ready") /\ Finish(c)
  /\ UNCHANGED <<remote, generation, local, calls, sessions, signed, ended>>

\* A deadline passed, the signer refused, or IndexedDB did.
deadline(c) ==
  /\ task[c].ph \in {"dial", "save"} /\ Fail(c, task[c].pin)
  /\ UNCHANGED <<stored, local, calls, sessions, signed>>

(***************************************************************************)
(* The Settings page.  Connect is offered in local mode, Reconnect and      *)
(* Disconnect in bunker mode.                                               *)
(***************************************************************************)
\* A connection address, by what parsePointer looks at: its relays are named by
\* whether they are secure.
Address == [scheme : {"bunker", "other"}, bare : BOOLEAN, params : SUBSET {"relay", "secret", "other"},
            secrets : 0 .. 2, key : {"hex64", "other"}, relays : {<<>>, <<"wss">>, <<"wss", "ws">>}]

parsePointer(input) ==
  /\ input.scheme = "bunker" /\ input.bare
  /\ input.params \subseteq {"relay", "secret"} /\ input.secrets <= 1
  /\ input.key = "hex64"
  /\ Len(input.relays) \in 1 .. 3
  /\ \A i \in 1 .. Len(input.relays) : input.relays[i] = "wss"

\* An address that is refused changes nothing.
connectBunker(c, input) == parsePointer(input) /\ open(c, "connect", Absent)

handleConnectBunker(c) ==
  /\ identity.mode = "local"
  /\ task[c] = Idle /\ calls < MaxCalls /\ calls' = calls + 1
  /\ \E input \in Address : connectBunker(c, input)
  /\ UNCHANGED <<stored, local, signed>>

handleReconnectBunker(c) ==
  /\ identity.mode = "bunker" /\ identity.status \notin {"ready", "connecting"}
  /\ Begin(c, "reconnect", "load")
  /\ UNCHANGED <<identity, remote, generation, stored, local, sessions, signed, ended>>

reconnectBunker(c) ==
  /\ task[c].op = "reconnect" /\ task[c].ph = "load"
  /\ IF loadBunkerConnection = Absent
       THEN Finish(c) /\ UNCHANGED <<identity, remote, generation, sessions, ended>>
       ELSE open(c, "reconnect", loadBunkerConnection)
  /\ UNCHANGED <<stored, local, calls, signed>>

disconnectBunker(c) ==
  /\ Begin(c, "disconnect", IF remote = Absent THEN "clear" ELSE "closing")
  /\ closeRemote

handleDisconnectBunker(c) ==
  /\ identity.mode = "bunker" /\ disconnectBunker(c)
  /\ UNCHANGED <<identity, stored, local, sessions, signed>>

disconnectCloses(c) ==
  /\ task[c].op = "disconnect" /\ task[c].ph = "closing"
  /\ Become(c, [task[c] EXCEPT !.ph = "clear"])
  /\ UNCHANGED <<identity, remote, generation, stored, local, calls, sessions, signed, ended>>

disconnectClears(c) ==
  /\ task[c].ph = "clear"
  /\ clearBunkerConnection
  /\ publishIdentity("local", local, "ready") /\ Finish(c)
  /\ UNCHANGED <<remote, generation, local, calls, sessions, signed, ended>>

(***************************************************************************)
(* signWithActiveIdentity.                                                  *)
(***************************************************************************)
\* What a caller is handed: who signed, for whom the caller took the signer to
\* be, in which mode it was picked, what was asked and what came back.
Hand(by, want, mode, asked, event) ==
  signed' = [by |-> by, want |-> want, mode |-> mode, asked |-> asked, event |-> event]

signLocal(template) ==
  /\ identity.mode = "local"
  /\ Hand(local, identity.pubkey, "local", template, template)
  /\ UNCHANGED <<identity, remote, generation, stored, local, task, calls, sessions, ended>>

\* The circle calls sign with the device key whatever identity is active.
signLocalNip98AuthEvent ==
  /\ Hand(local, local, "local", signNip98AuthEvent, signNip98AuthEvent)
  /\ UNCHANGED <<identity, remote, generation, stored, local, task, calls, sessions, ended>>

signRemote(c, template) ==
  /\ identity.mode = "bunker" /\ identity.status = "ready" /\ remote # Absent
  /\ task[c] = Idle /\ calls < MaxCalls /\ calls' = calls + 1
  /\ Become(c, [Idle EXCEPT !.op = "sign", !.ph = "asked", !.pin = identity.pubkey,
                            !.session = remote.session, !.generation = remote.generation,
                            !.template = template])
  /\ UNCHANGED <<identity, remote, generation, stored, local, sessions, signed, ended>>

\* (mutant) only the content of the answer is compared, not its author
AnyAuthor(c) ==
  /\ task[c].ph = "asked"
  /\ \E pubkey \in RemoteKey, event \in Template :
       IF remote # Absent /\ remote.session = task[c].session /\ task[c].generation = generation
         THEN /\ Hand(pubkey, task[c].pin, "bunker", task[c].template, event)
              /\ Finish(c) /\ UNCHANGED <<identity, remote, generation, ended>>
         ELSE Fail(c, task[c].pin) /\ UNCHANGED signed
  /\ UNCHANGED <<stored, local, calls, sessions>>

\* (mutant) the session is not looked at again when the answer arrives
LateAnswer(c) ==
  /\ task[c].ph = "asked"
  /\ \E pubkey \in RemoteKey, event \in Template :
       IF pubkey = task[c].pin /\ sameTemplate(task[c].template, event)
         THEN /\ Hand(pubkey, task[c].pin, "bunker", task[c].template, event)
              /\ Finish(c) /\ UNCHANGED <<identity, remote, generation, ended>>
         ELSE Fail(c, task[c].pin) /\ UNCHANGED signed
  /\ UNCHANGED <<stored, local, calls, sessions>>

signAnswered(c) ==
  /\ task[c].ph = "asked"
  /\ \E pubkey \in RemoteKey, event \in Template :
       IF /\ remote # Absent /\ remote.session = task[c].session
          /\ task[c].generation = generation
          /\ pubkey = task[c].pin /\ sameTemplate(task[c].template, event)
         THEN /\ Hand(pubkey, task[c].pin, "bunker", task[c].template, event)
              /\ Finish(c) /\ UNCHANGED <<identity, remote, generation, ended>>
         ELSE Fail(c, task[c].pin) /\ UNCHANGED signed
  /\ UNCHANGED <<stored, local, calls, sessions>>

signFails(c) ==
  /\ task[c].ph = "asked" /\ Fail(c, task[c].pin)
  /\ UNCHANGED <<stored, local, calls, sessions, signed>>

signEventAsync(template) == signLocal(template) \/ \E c \in Call : signRemote(c, template)

(***************************************************************************)
(* The chat pages take a signer once and use it after their own awaits: it  *)
(* keeps the device key, or the session, of the moment it was taken.        *)
(***************************************************************************)
localNostrSigner == [Idle EXCEPT !.op = "chat", !.ph = "held", !.pin = local]

bunkerNostrSigner == [Idle EXCEPT !.op = "chat", !.ph = "held", !.session = remote.session]

\* A bunker that is not ready throws: the device key is no substitute.
getNostrSigner(c) ==
  /\ task[c] = Idle /\ calls < MaxCalls /\ calls' = calls + 1
  /\ \/ identity.mode = "local" /\ Become(c, localNostrSigner)
     \/ identity.mode = "bunker" /\ identity.status = "ready" /\ remote # Absent /\ Become(c, bunkerNostrSigner)
  /\ UNCHANGED <<identity, remote, generation, stored, local, sessions, signed, ended>>

\* signEvent of the local signer.
createLocalNostrSigner(c) ==
  /\ task[c].ph = "held" /\ task[c].pin # Absent
  /\ Hand(task[c].pin, task[c].pin, "local", signBoundEvent, signBoundEvent) /\ Finish(c)
  /\ UNCHANGED <<identity, remote, generation, stored, local, calls, sessions, ended>>

\* signEvent of the remote signer: the library refuses once the session is
\* closed, and nothing compares what it returns.
bunkerSignEvent(c) ==
  /\ task[c].ph = "held" /\ task[c].pin = Absent /\ task[c].session \notin ended
  /\ \E pubkey \in RemoteKey, event \in Template : Hand(pubkey, Absent, "bunker", signBoundEvent, event)
  /\ Finish(c)
  /\ UNCHANGED <<identity, remote, generation, stored, local, calls, sessions, ended>>

\* The page gives up: the signer failed, or the page went away.
chatFails(c) ==
  /\ task[c].ph = "held" /\ Finish(c)
  /\ UNCHANGED <<identity, remote, generation, stored, local, calls, sessions, signed, ended>>

\* What the tab does by itself, and what takes a remote signer.
Resume(c) == failed(c) \/ initializeActiveSigner(c) \/ openCloses(c) \/ openSaved(c)
  \/ deadline(c) \/ reconnectBunker(c) \/ disconnectCloses(c) \/ disconnectClears(c)
  \/ signFails(c) \/ createLocalNostrSigner(c) \/ chatFails(c)
Answer(c) == onauth(c) \/ openAnswered(c) \/ signAnswered(c) \/ bunkerSignEvent(c)

SignerNext ==
  \/ \E c \in Call : Resume(c) \/ Answer(c) \/ handleConnectBunker(c) \/ handleReconnectBunker(c)
                     \/ handleDisconnectBunker(c) \/ getNostrSigner(c)
  \/ handleGenerate \/ signLocalNip98AuthEvent \/ \E template \in Template : signEventAsync(template)

\* Every await ends, by its deadline or by IndexedDB; a remote signer need not
\* answer.
SignerSpec == SignerInit /\ [][SignerNext]_signerVars /\ \A c \in Call : WF_signerVars(Resume(c))

(***************************************************************************)
(* Properties.                                                              *)
(***************************************************************************)
\* An event handed to a caller of signWithActiveIdentity is the one it asked
\* for, signed by the key the app showed when it asked, whatever sessions were
\* opened, closed or failed meanwhile; and no signer picked in bunker mode, the
\* chat's unchecked one included, signs with the device key.
SignedAsShown ==
  signed # Absent =>
    /\ signed.want # Absent => signed.by = signed.want /\ signed.event = signed.asked
    /\ signed.mode = "bunker" => signed.by \in RemoteKey

\* A signature of a session that was disconnected or replaced while it was
\* being made is never handed out.
NoLateSignature ==
  [][\A c \in Call : task[c].ph \in {"asked", "held"} /\ task'[c] = Idle /\ signed' # signed
                     => task[c].session \notin ended]_signerVars
=============================================================================
