--------------------------- MODULE MCAnswerRequests ---------------------------
(* One user chats and calls /answer/stream, another one calls /answer.      *)
EXTENDS AnswerRequests

MCUserOf == [r1 |-> "u1", r2 |-> "u1", r3 |-> "u2"]
MCKindOf == [r1 |-> "chat", r2 |-> "stream", r3 |-> "answer"]
==============================================================================
