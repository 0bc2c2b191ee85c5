------------------------------ MODULE MCToolCalls -------------------------------
(* ToolCalls for TLC. *)
EXTENDS ToolCalls

Reported == Turns \X (0 .. MaxCalls)
=============================================================================
