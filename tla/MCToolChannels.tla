---------------------------- MODULE MCToolChannels -----------------------------
(* Small instances of ToolChannels for TLC; each cfg gives the sizes.          *)
EXTENDS ToolChannels
=============================================================================
