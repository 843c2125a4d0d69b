-------------------------- MODULE MCFamilyCircles ---------------------------
(* A family circle on the server, and the keys and the identity of a device in *)
(* it, in one run: a behaviour is one of Circles (MCCircles' instance), of      *)
(* OwnerClient (two activations side by side, three epochs, four keys), of      *)
(* LocationFormat (three fixes, two envelopes, readers whose clocks are one or  *)
(* two units off) or of Vault (two tabs, three keys and calls, one fault).      *)
EXTENDS MCCircles, OwnerClient, LocationFormat, Vault

At(x, y) == [lat |-> x, lng |-> y, accuracy_m |-> 1]
Fixes == {At(0, 0), At(1, -3), At(3, 8)}
Stretches == [x \in {0, 1, 3} |-> IF x < 2 THEN 1 ELSE 2]
FirstEntry == [id |-> "c1", epoch |-> 1, key |-> 11]
Entries == {FirstEntry, [id |-> "c1", epoch |-> 2, key |-> 12]}
DriftsOfReaders == {-2, -1, 1}
MembersAndTabs == MemberSymmetry \cup Permutations(Tab)

VARIABLE part  \* which of the parts the behaviour is about

all == <<part, vars, ownerVars, formatVars, vaultVars>>

ASSUME DeviceParameters == OwnerParameters /\ VaultParameters

InitAll ==
  /\ part \in {"circle", "owner", "format", "vault"}
  /\ Init
  /\ OwnerInit
  /\ FormatInit /\ (part # "format" => drift = 1)
  /\ VaultInit /\ (part # "vault" => vault = None /\ legacy = "idb")

CircleSteps == part = "circle" /\ Next /\ UNCHANGED <<part, ownerVars, formatVars, vaultVars>>
OwnerSteps == part = "owner" /\ OwnerNext /\ UNCHANGED <<part, vars, formatVars, vaultVars>>
FormatSteps == part = "format" /\ FormatNext /\ UNCHANGED <<part, vars, ownerVars, vaultVars>>
VaultSteps == part = "vault" /\ VaultNext /\ UNCHANGED <<part, vars, ownerVars, formatVars>>

NextAll == CircleSteps \/ OwnerSteps \/ FormatSteps \/ VaultSteps

SpecAll == InitAll /\ [][NextAll]_all
=============================================================================
