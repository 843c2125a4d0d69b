----------------------------- MODULE VaultSpec -----------------------------
(***************************************************************************)
(* What the device vault promises its callers: one record that holds an     *)
(* identity and circle keys, on which each call of identityStore.ts acts    *)
(* in one indivisible step.  The identity is created at most once, setting  *)
(* it keeps the circle keys, and adding a circle key keeps the identity and *)
(* every other circle key.                                                  *)
(***************************************************************************)
CONSTANTS SecretKey, Entry, None
VARIABLE v   \* the payload, or None

Init == v = None \/ \E k \in SecretKey : v = [sk |-> k, circles |-> {}]

\* loadOrCreateSecretKey on an empty vault.
CreateIdentity == v = None /\ \E k \in SecretKey : v' = [sk |-> k, circles |-> {}]

\* saveSecretKey.
SetIdentity ==
  \E k \in SecretKey : v' = [sk |-> k, circles |-> IF v = None THEN {} ELSE v.circles]

\* upsertCircleKey.
AddCircle ==
  /\ v # None
  /\ \E e \in Entry : v' = [sk |-> v.sk, circles |-> v.circles \cup {e}]

Next == CreateIdentity \/ SetIdentity \/ AddCircle

Spec == Init /\ [][Next]_v
=============================================================================
