---- MODULE MCVoiceEngine ----
(* TLC instance of VoiceEngine. *)
EXTENDS VoiceEngine
====
