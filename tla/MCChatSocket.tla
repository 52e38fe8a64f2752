---------------------------- MODULE MCChatSocket ----------------------------
(* The instances of ChatSocket that TLC checks. *)
EXTENDS ChatSocket

CONSTANTS ask, draft
=============================================================================
