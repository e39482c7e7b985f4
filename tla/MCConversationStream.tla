------------------------ MODULE MCConversationStream ------------------------
(* Small instances of ConversationStream: a conversation with records and  *)
(* one without, to switch to and back.                                     *)
EXTENDS ConversationStream

CONSTANTS c1, c2

TwoConversations == {c1, c2}
Records == [c \in TwoConversations |-> IF c = c1 THEN 3 ELSE 0]
OneRecord == [c \in TwoConversations |-> IF c = c1 THEN 1 ELSE 0]
=============================================================================
