----------------------------- MODULE MCPushOutbox ------------------------------
(* PushOutbox with the sessions that TLC's instances use.                   *)
EXTENDS PushOutbox

\* One client
OneSession == [c \in 1 .. NumConns |-> 1]

\* A client, a second one with a session of its own, and the first one back again
TwoSessions == [c \in 1 .. NumConns |-> IF c = 2 THEN 2 ELSE 1]
=============================================================================
