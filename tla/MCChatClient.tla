----------------------------- MODULE MCChatClient -----------------------------
(* A tab with two turns and three requests; one tool step, one kind of prose. *)
EXTENDS ChatClient

MCTexts == {"prose"}
===============================================================================
