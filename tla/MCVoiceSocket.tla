----------------------------- MODULE MCVoiceSocket -----------------------------
(* Small instances of VoiceSocket for TLC; each cfg gives the sizes.           *)
EXTENDS VoiceSocket
=============================================================================
