---------------------------- MODULE MCChatHistory ----------------------------
(* Instances of ChatHistory for TLC. *)
EXTENDS ChatHistory

CONSTANTS p1, p2
=============================================================================
