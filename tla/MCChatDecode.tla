---------------------------- MODULE MCChatDecode ----------------------------
(***************************************************************************)
(* ChatDecode for TLC: the cache is small enough for turns to run past the *)
(* context edge, and the prompt long enough for more than one window.      *)
(***************************************************************************)
EXTENDS ChatDecode
=============================================================================
