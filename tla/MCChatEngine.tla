---------------------------- MODULE MCChatEngine ----------------------------
(***************************************************************************)
(* ChatEngine for model checking: its instance is ChatEngine_chat.cfg.     *)
(***************************************************************************)
EXTENDS ChatEngine
=============================================================================
