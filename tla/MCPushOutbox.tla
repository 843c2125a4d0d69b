---------------------------- MODULE MCPushOutbox ----------------------------
(* One alert and one chat message, one device that two people may use.       *)
EXTENDS PushOutbox

CONSTANTS alert, chat, ann, ben, phone, w1, w2

Recipients == [m \in Chat |-> ann]
=============================================================================
