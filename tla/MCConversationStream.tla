------------------------ MODULE MCConversationStream ------------------------
(* Instances of ConversationStream for TLC. *)
EXTENDS ConversationStream, TLC

CONSTANTS c1, t1, t2, e1, e2, browser

\* A batch of one event and one of two that shares it.
SmallBatches == {<<e1>>, <<e2, e1>>}

OneConversation == [r \in Reader |-> c1]
===============================================================================
