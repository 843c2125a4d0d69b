----------------------------- MODULE MCIdentity -----------------------------
(* What a person says, signs and is known by, in one run: a behaviour is one of *)
(* Chat (MCChat's instance), of GiftWrap (three people, one message sent and     *)
(* five wraps that other clients may have made), of Signer (two calls in        *)
(* flight, three in all) or of Nip05 (two keys of this device, one of another   *)
(* person, one label, three requests).                                          *)
EXTENDS MCChat, Sequences, GiftWrap, Signer, Nip05

\* Wraps of other clients: a file message, a rumor forwarded under another
\* seal, a wrap with two p tags, a room without tags, and a tag given twice.
Lower(u) == <<u, "lower">>
Rumor(u, kind, tags) ==
  [pubkey |-> Lower(u), kind |-> kind, tags |-> tags, content |-> "hi", created_at |-> 0]
Sealed(u, rumor, ps) ==
  [p |-> ps, for |-> Lower("a"), seal |-> [pubkey |-> Lower(u), for |-> Lower("a"), rumor |-> rumor]]
ToA == <<Lower("a")>>
Foreign == {Sealed("b", Rumor("b", 15, ToA), ToA), Sealed("b", Rumor("c", 14, ToA), ToA),
            Sealed("b", Rumor("b", 14, ToA), ToA \o <<Lower("c")>>),
            Sealed("b", Rumor("b", 14, <<>>), ToA), Sealed("b", Rumor("b", 14, ToA \o ToA), ToA)}

VARIABLE part  \* which of the parts the behaviour is about

all == <<part, vars, wrapVars, signerVars, nipVars>>

ASSUME ChatParameters == Parameters

InitAll ==
  /\ part \in {"chat", "wrap", "signer", "nip05"}
  /\ Init /\ (part # "chat" => chatRelays = {"inbox"})
  /\ WrapInit
  /\ SignerInit /\ (part # "signer" => stored = Absent /\ task["c1"].op = "init")
  /\ NipInit /\ (part # "nip05" => pubkey = "local" /\ doc["l1"] = NoName)

ChatSteps == part = "chat" /\ Next /\ UNCHANGED <<part, wrapVars, signerVars, nipVars>>
WrapSteps == part = "wrap" /\ WrapNext /\ UNCHANGED <<part, vars, signerVars, nipVars>>
SignerSteps == part = "signer" /\ SignerNext /\ UNCHANGED <<part, vars, wrapVars, nipVars>>
Nip05Steps == part = "nip05" /\ NipNext /\ UNCHANGED <<part, vars, wrapVars, signerVars>>

NextAll == ChatSteps \/ WrapSteps \/ SignerSteps \/ Nip05Steps

SpecAll == InitAll /\ [][NextAll]_all
           /\ ([]<>(part # "chat") \/ Fairness)
=============================================================================
