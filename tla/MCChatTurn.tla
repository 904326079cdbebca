----------------------------- MODULE MCChatTurn ------------------------------
(* Small turns: a search, a lookup and a misnamed tool; chips open with the  *)
(* the first search, a turn of free text with nothing.                        *)
EXTENDS ChatTurn

CONSTANTS search, nearby, lookup, misnamed

MCCalls == {search, nearby, lookup, misnamed}
MCUnknown == {misnamed}
MCFactual == {lookup}
MCOpenings == {None, search}
==============================================================================
