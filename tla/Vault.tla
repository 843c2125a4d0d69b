------------------------------- MODULE Vault -------------------------------
(***************************************************************************)
(* The device vault of the PWA: the Nostr secret key and the circle keys,   *)
(* encrypted in IndexedDB and shared by the tabs of one browser             *)
(* (identityStore.ts), the identity each tab caches (nostrService.ts), the  *)
(* live key store circle keys are also written to (e2eeService.ts), backup  *)
(* export and restore (backupService.ts) and the Settings handlers that     *)
(* drive them.  Every write of the vault is a load, a change and a save     *)
(* under one Web Lock; a tab can be closed or reloaded between any two      *)
(* awaits and storage can fail.  Encryption, base64 and JSON are left out:  *)
(* a record is what its decryption yields.                                  *)
(***************************************************************************)
EXTENDS Naturals

CONSTANTS Tab,     \* tabs of the browser
          Entry,   \* circle keys [id, epoch, key] that can reach this device
          Legacy,  \* the entry an old version of the app stored, epoch 1
          None,
          MaxKeys,    \* bound on the secret keys generated
          MaxCalls,   \* bound on the calls of the user
          MaxFaults,  \* bound on storage failures and reloads
          ReadsFail   \* whether a read of the stored vault can fail, too

VARIABLES vault,   \* record SK_ID: None or [version, sk, circles]
          meta,    \* record META_ID: fingerprint of the last export, or None
          live,    \* circle_keys store: entries imported as CryptoKeys
          legacy,  \* where the pre-epoch copy of Legacy still is
          lock,    \* holder of the Web Lock, or None
          kp,      \* per tab: _keypair
          task,    \* per process: the asynchronous call in flight
          minted, calls, faults,
          was,      \* history: secret keys that have been in the vault
          chosen,   \* history: secret keys a user generated, imported, restored
          saved,    \* history: entries whose vault write completed
          files,    \* backup files downloaded so far
          degraded  \* tabs that booted without storage

store == <<vault, meta, live, legacy>>
history == <<was, chosen, saved, files, degraded>>
vaultVars == <<store, lock, kp, task, minted, calls, faults, history>>

Key == 1 .. MaxKeys
Temp == 0
\* VaultPayload, and the record it is stored as: version 1 held a bare key.
Payload == [sk : Key, circles : SUBSET Entry]
Record == [version : {1, 2}, sk : Key, circles : SUBSET Entry]
\* Each tab runs its boot and, beside it, one call of the user.
Proc == Tab \X {"boot", "ui"}
Idle == [op |-> "idle", ph |-> "done", sk |-> None, entry |-> None, todo |-> {}, seen |-> None]

Call == [op : {"idle", "boot", "picked", "identity", "circle", "migrate", "export"},
         ph : {"done", "put", "wait", "has", "drop", "kdf"},
         sk : Key \cup {None}, entry : Entry \cup {None}, todo : SUBSET Entry,
         seen : Payload \cup {None}]

\* What the constants must be: there is one key per circle and epoch, and None
\* is nothing else.
VaultParameters ==
  /\ Legacy \in Entry
  /\ \A e, f \in Entry : e.id = f.id /\ e.epoch = f.epoch => e = f
  /\ MaxKeys \in Nat \ {0} /\ MaxCalls \in Nat /\ MaxFaults \in Nat
  /\ ReadsFail \in BOOLEAN
  /\ None \notin Key \cup {Temp} /\ None \notin Entry /\ None \notin Proc
  /\ None \notin Payload /\ None \notin Record

VaultTypeOK ==
  /\ vault \in Record \cup {None}
  /\ live \in SUBSET Entry /\ saved \in SUBSET Entry
  /\ legacy \in {"none", "idb", "local"}
  /\ lock \in Proc \cup {None}
  /\ kp \in [Tab -> Key \cup {None, Temp}]
  /\ task \in [Proc -> Call]
  /\ minted \in 0 .. MaxKeys /\ calls \in 0 .. MaxCalls /\ faults \in 0 .. MaxFaults
  /\ was \in SUBSET Key /\ chosen \in SUBSET Key
  /\ files \in SUBSET Payload /\ degraded \in SUBSET Tab

(***************************************************************************)
(* The stored vault when the app is opened: none, or one that an earlier    *)
(* session left, possibly a version 1 record (a bare key: no circles).      *)
(***************************************************************************)
Boot == [Idle EXCEPT !.op = "boot", !.ph = "wait"]

VaultInit ==
  /\ \/ vault = None /\ minted = 0 /\ was = {}
     \/ vault = [version |-> 1, sk |-> 1, circles |-> {}] /\ minted = 1 /\ was = {1}
  /\ legacy \in {"idb", "local"}
  /\ meta = None /\ live = {} /\ lock = None
  /\ kp = [t \in Tab |-> None]
  /\ task = [p \in Proc |-> IF p[2] = "boot" THEN Boot ELSE Idle]
  /\ calls = 0 /\ faults = 0 /\ chosen = {} /\ saved = {} /\ files = {} /\ degraded = {}

\* A version 1 record is read as a payload without circles; it is rewritten as
\* version 2 by the next save only.
loadVault ==
  IF vault = None THEN None
  ELSE [sk |-> vault.sk, circles |-> IF vault.version = 1 THEN {} ELSE vault.circles]

\* What a call may be told: loadVault answers null for a read that failed.
Loaded == IF ReadsFail /\ faults < MaxFaults THEN {loadVault, None} ELSE {loadVault}

\* encodeVaultPayload, encryption and one IndexedDB put: the record is replaced.
saveVaultUnlocked(payload) ==
  vault' = [version |-> 2, sk |-> payload.sk, circles |-> payload.circles]

\* generateSecretKey for the vault: a key nobody has used.  A key that is never
\* stored is Temp, told apart from every stored key and from nothing else.
Fresh(k) == minted < MaxKeys /\ k = minted + 1 /\ minted' = k

\* (mutant) one lock per tab, not one for the browser
LockPerTab(p) ==
  /\ task[p].ph = "wait"
  /\ lock # None => lock[1] # p[1]
  /\ lock' = p
  /\ \E v \in Loaded :
       /\ task' = [task EXCEPT ![p].ph = "has", ![p].seen = v]
       /\ faults' = IF v = loadVault THEN faults ELSE faults + 1
  /\ UNCHANGED <<store, kp, minted, history, calls>>

(***************************************************************************)
(* withInitLock: a call waits until no other call of any tab holds the      *)
(* lock, then loads the vault.                                              *)
(***************************************************************************)
withInitLock(p) ==
  /\ task[p].ph = "wait"
  /\ lock = None
  /\ lock' = p
  /\ \E v \in Loaded :
       /\ task' = [task EXCEPT ![p].ph = "has", ![p].seen = v]
       /\ faults' = IF v = loadVault THEN faults ELSE faults + 1
  /\ UNCHANGED <<store, kp, minted, history, calls>>

\* Releasing the lock, and what the call that held it does next.
release(p, next) == /\ lock' = IF lock = p THEN None ELSE lock
                    /\ task' = [task EXCEPT ![p] = next]

\* (mutant) the circles already saved are not carried over
ForgetsCircles(seen, k) == [sk |-> k, circles |-> {}]

\* saveSecretKeyUnlocked: the new key, with the circles just loaded.
withSecretKey(seen, k) ==
  [sk |-> k, circles |-> IF seen = None THEN {} ELSE seen.circles]

\* upsertCircleKey and its filter: an entry replaces the one of its slot.
withCircle(seen, e) ==
  [seen EXCEPT !.circles =
     {c \in @ : ~(c.id = e.id /\ c.epoch = e.epoch)} \cup {e}]

(***************************************************************************)
(* Boot: loadIdentity and loadOrCreateSecretKey.  getCachedKeypair, called  *)
(* while the boot is still in flight, mints a key that is never stored.     *)
(***************************************************************************)
getCachedKeypair(t) ==
  /\ kp[t] = None
  /\ kp' = [kp EXCEPT ![t] = Temp]
  /\ UNCHANGED <<store, lock, task, minted, faults, history, calls>>

\* (mutant) the boot keeps a key that is already cached
KeepsCached(t) ==
  LET p == <<t, "boot">> IN
  /\ task[p].ph = "has"
  /\ kp' = [kp EXCEPT ![t] = IF @ # None THEN @
                             ELSE IF task[p].seen # None THEN task[p].seen.sk ELSE minted + 1]
  /\ IF task[p].seen # None
       THEN UNCHANGED <<vault, was, minted>>
       ELSE \E k \in Key : Fresh(k) /\ saveVaultUnlocked(withSecretKey(None, k)) /\ was' = was \cup {k}
  /\ release(p, Idle)
  /\ UNCHANGED <<meta, live, legacy, faults, chosen, saved, files, degraded, calls>>

loadOrCreateSecretKey(t) ==
  LET p == <<t, "boot">> IN
  /\ task[p].ph = "has"
  /\ \/ /\ task[p].seen # None
        /\ kp' = [kp EXCEPT ![t] = task[p].seen.sk]
        /\ UNCHANGED <<vault, was, minted>>
     \/ /\ task[p].seen = None
        /\ \E k \in Key :
             /\ Fresh(k)
             /\ saveVaultUnlocked(withSecretKey(None, k))
             /\ was' = was \cup {k}
             /\ kp' = [kp EXCEPT ![t] = k]
  /\ release(p, Idle)
  /\ UNCHANGED <<meta, live, legacy, faults, chosen, saved, files, degraded, calls>>

\* loadIdentity's catch: without storage the tab runs on a key of its own.
loadIdentityDegrades(t) ==
  LET p == <<t, "boot">> IN
  /\ task[p].ph = "has" /\ faults < MaxFaults
  /\ kp' = [kp EXCEPT ![t] = Temp]
  /\ faults' = faults + 1 /\ degraded' = degraded \cup {t}
  /\ release(p, Idle)
  /\ UNCHANGED <<store, minted, was, chosen, saved, files, calls>>

(***************************************************************************)
(* Calls of the user.  handleGenerate and handleImport set a new secret     *)
(* key, handleConfirmRestore one from a backup file and then its circles.   *)
(***************************************************************************)
Start(t, call) ==
  /\ task[<<t, "ui">>] = Idle
  /\ calls < MaxCalls /\ calls' = calls + 1
  /\ task' = [task EXCEPT ![<<t, "ui">>] = call]

\* Each ends in saveSecretKey; _keypair is set only once that has succeeded.
generateNewIdentity(k) == [Idle EXCEPT !.op = "identity", !.ph = "wait", !.sk = k]
importFromNsec(k) == [Idle EXCEPT !.op = "identity", !.ph = "wait", !.sk = k]
restoreIdentityFromSecretKey(f) ==
  [Idle EXCEPT !.op = "identity", !.ph = "wait", !.sk = f.sk, !.todo = f.circles]

handleGenerate(t) ==
  /\ minted + 1 < MaxKeys      \* the last key is left for a boot
  /\ \E k \in Key : Fresh(k) /\ Start(t, generateNewIdentity(k))
  /\ UNCHANGED <<store, lock, kp, faults, history>>

handleImport(t) ==
  /\ \E k \in 1 .. minted : Start(t, importFromNsec(k))
  /\ UNCHANGED <<store, lock, kp, minted, faults, history>>

\* Reads file f and writes nothing; a wrong passphrase or file is refused.
decryptBackup(f, passphrase) == IF passphrase = "right" THEN f ELSE None

\* The payload waits for the user to confirm.
handleFilePicked(t) ==
  /\ \E f \in files, passphrase \in {"right", "wrong"} :
       /\ decryptBackup(f, passphrase) # None
       /\ Start(t, [Idle EXCEPT !.op = "picked", !.seen = decryptBackup(f, passphrase)])
  /\ UNCHANGED <<store, lock, kp, minted, faults, history>>

handleConfirmRestore(t) ==
  LET p == <<t, "ui">> IN
  /\ task[p].op = "picked"
  /\ task' = [task EXCEPT ![p] = restoreIdentityFromSecretKey(task[p].seen)]
  /\ UNCHANGED <<store, lock, kp, minted, faults, history, calls>>

\* A rotation, or a wrap that was opened, saves one key with its backup.
rotateCircleKey(t) ==
  /\ \E e \in Entry : Start(t, [Idle EXCEPT !.op = "circle", !.ph = "put", !.todo = {e}])
  /\ UNCHANGED <<store, lock, kp, minted, faults, history>>

\* loadCircleKey at epoch 1 finds only the pre-epoch copy.
loadCircleKey(t) ==
  /\ Legacy \notin live /\ legacy # "none"
  /\ Start(t, [Idle EXCEPT !.op = "migrate", !.ph = "put", !.todo = {Legacy}])
  /\ UNCHANGED <<store, lock, kp, minted, faults, history>>

exportBackup(t) ==
  /\ vault # None
  /\ Start(t, [Idle EXCEPT !.op = "export", !.ph = "kdf", !.seen = loadVault])
  /\ UNCHANGED <<store, lock, kp, minted, faults, history>>

(***************************************************************************)
(* The steps of those calls, one for each await.                            *)
(***************************************************************************)
\* applyRestore: the circles of the file one by one, after the identity.
applyRestore(todo) ==
  IF todo = {} THEN Idle ELSE [Idle EXCEPT !.op = "circle", !.ph = "put", !.todo = todo]

saveSecretKey(t) ==
  LET p == <<t, "ui">> IN
  /\ task[p].op = "identity" /\ task[p].ph = "has"
  /\ saveVaultUnlocked(withSecretKey(task[p].seen, task[p].sk))
  /\ kp' = [kp EXCEPT ![t] = task[p].sk]
  /\ was' = was \cup {task[p].sk} /\ chosen' = chosen \cup {task[p].sk}
  /\ release(p, applyRestore(task[p].todo))
  /\ UNCHANGED <<meta, live, legacy, minted, faults, saved, files, degraded, calls>>

idbPut(e) == live' = live \cup {e}

\* Live store, then the vault; a copy of the circle's key in localStorage is
\* removed in between, whatever epoch it is of.
saveCircleKeyWithBackup(t) ==
  LET p == <<t, "ui">> IN
  /\ task[p].op = "circle" /\ task[p].ph = "put"
  /\ \E e \in task[p].todo :
       /\ idbPut(e)
       /\ legacy' = IF legacy = "local" /\ e.id = Legacy.id THEN "none" ELSE legacy
       /\ task' = [task EXCEPT ![p].ph = "wait", ![p].entry = e, ![p].todo = @ \ {e}]
  /\ UNCHANGED <<vault, meta, lock, kp, minted, faults, history, calls>>

\* loadCircleKey once it has found the old copy: one in the key store itself is
\* then deleted, one in localStorage goes to the vault first.
migrateLegacy(t) ==
  LET p == <<t, "ui">>
      next == IF legacy = "idb" THEN "drop" ELSE "wait" IN
  /\ task[p].op = "migrate" /\ task[p].ph = "put"
  /\ idbPut(Legacy)
  /\ task' = [task EXCEPT ![p].ph = next, ![p].entry = Legacy, ![p].todo = {}]
  /\ UNCHANGED <<vault, meta, legacy, lock, kp, minted, faults, history, calls>>

\* upsertCircleKey writes nothing when there is no vault to attach the key to.
upsertCircleKey(t) ==
  LET p == <<t, "ui">>  e == task[p].entry IN
  /\ task[p].op \in {"circle", "migrate"} /\ task[p].ph = "has"
  /\ IF task[p].seen = None
       THEN UNCHANGED <<vault, saved>>
       ELSE saveVaultUnlocked(withCircle(task[p].seen, e)) /\ saved' = saved \cup {e}
  /\ IF task[p].op = "migrate"
       THEN release(p, [task[p] EXCEPT !.ph = "drop"])
       ELSE release(p, applyRestore(task[p].todo))
  /\ UNCHANGED <<meta, live, legacy, kp, minted, faults, was, chosen, files, degraded, calls>>

dropLegacy(t) ==
  LET p == <<t, "ui">> IN
  /\ task[p].ph = "drop"
  /\ legacy' = "none"
  /\ task' = [task EXCEPT ![p] = Idle]
  /\ UNCHANGED <<vault, meta, live, lock, kp, minted, faults, history, calls>>

\* fingerprintPayload: the public key and one line per circle key, no epoch.
fingerprintPayload(v) ==
  [pubkey |-> v.sk, lines |-> {<<e.id, e.key>> : e \in v.circles}]

vaultFingerprint == IF vault = None THEN None ELSE fingerprintPayload(loadVault)

\* After the key derivation: the payload read before it is written to the
\* file, and the vault is read again for the fingerprint that is recorded.
saveVaultMeta(t) ==
  LET p == <<t, "ui">> IN
  /\ task[p].ph = "kdf"
  /\ meta' = vaultFingerprint
  /\ files' = files \cup {task[p].seen}
  /\ task' = [task EXCEPT ![p] = Idle]
  /\ UNCHANGED <<vault, live, legacy, lock, kp, minted, faults, was, chosen, saved, degraded, calls>>

(***************************************************************************)
(* Faults: a storage call rejects (a restore goes on with its next circle,  *)
(* any other call gives up), or the tab is reloaded, which ends its calls   *)
(* and frees the lock.                                                      *)
(***************************************************************************)
callFails(t) ==
  LET p == <<t, "ui">> IN
  /\ task[p].ph \in {"put", "has"} /\ faults < MaxFaults
  /\ faults' = faults + 1
  /\ \/ task[p].op # "circle" /\ release(p, Idle)
     \/ task[p].op = "circle" /\ task[p].ph = "has" /\ release(p, applyRestore(task[p].todo))
     \/ /\ task[p].op = "circle" /\ task[p].ph = "put"
        /\ \E e \in task[p].todo : release(p, applyRestore(task[p].todo \ {e}))
  /\ UNCHANGED <<store, kp, minted, history, calls>>

Reload(t) ==
  /\ faults < MaxFaults
  /\ faults' = faults + 1
  /\ lock' = IF lock # None /\ lock[1] = t THEN None ELSE lock
  /\ kp' = [kp EXCEPT ![t] = None]
  /\ task' = [task EXCEPT ![<<t, "boot">>] = Boot, ![<<t, "ui">>] = Idle]
  /\ degraded' = degraded \ {t}
  /\ UNCHANGED <<store, minted, was, chosen, saved, files, calls>>

VaultNext ==
  \/ \E p \in Proc : withInitLock(p)
  \/ \E t \in Tab :
       \/ getCachedKeypair(t) \/ loadOrCreateSecretKey(t) \/ loadIdentityDegrades(t)
       \/ handleGenerate(t) \/ handleImport(t)
       \/ handleFilePicked(t) \/ handleConfirmRestore(t)
       \/ rotateCircleKey(t) \/ loadCircleKey(t) \/ exportBackup(t)
       \/ saveSecretKey(t) \/ saveCircleKeyWithBackup(t) \/ migrateLegacy(t)
       \/ upsertCircleKey(t) \/ dropLegacy(t)
       \/ saveVaultMeta(t) \/ callFails(t) \/ Reload(t)

TabsSpec == VaultInit /\ [][VaultNext]_vaultVars

(***************************************************************************)
(* Properties.                                                              *)
(***************************************************************************)
\* Two tabs that boot on an empty vault converge on a single identity: apart
\* from the keys the user chose, the vault has held at most one.
OneCreatedIdentity == \A j, k \in was \ chosen : j = k

\* Once a tab's boot is over, the key it signs with is, or has been, the one in
\* the vault (unless storage failed at its boot): the throw-away key that
\* getCachedKeypair mints while the boot is in flight does not outlive it.
BootedOnStoredKey ==
  \A t \in Tab : task[<<t, "boot">>] = Idle /\ t \notin degraded => kp[t] \in was

\* A circle key whose save completed stays in the vault, whatever the other tab
\* was doing to the identity or to other circles at the time.
NoCircleKeyLost == saved # {} => vault # None /\ saved \subseteq vault.circles

\* Only an explicit choice of the user changes the identity in the vault: saving
\* a circle key from a tab that has not seen the change never reverts it.
IdentityOnlyByChoice ==
  [][vault # None /\ vault'.sk # vault.sk => \E t \in Tab :
       task[<<t, "ui">>].op = "identity" /\ vault'.sk = task[<<t, "ui">>].sk]_vaultVars

\* The Web Lock is not re-entrant and nobody else frees it: whoever holds it is
\* between its load and its save, so every waiting call is served in the end.
HolderIsSaving == lock # None => task[lock].ph = "has"

\* The loads and saves of two tabs, each under the lock, act on the vault as if
\* every call were one step (VaultSpec).
Atomic == INSTANCE VaultSpec WITH SecretKey <- Key, v <- loadVault
ImplementsVaultSpec == Atomic!Spec
=============================================================================
