------------------------------ MODULE ChatStream ------------------------------
(****************************************************************************)
(* What POST /agent/chat promises the screen that reads its event stream.    *)
(* The state is what the reader has been given so far.  ChatTurn, the        *)
(* server, implements this specification, and ChatClient, the travel tab,    *)
(* is checked against every stream it allows.                                *)
(****************************************************************************)
EXTENDS ChatEvents

VARIABLE view

Init == view = Blank

Send(e) == May(view, e) /\ view' = After(view, e)

\* The connection breaks, or either side drops it.
Cut == view.end = "open" /\ view' = [view EXCEPT !.end = "cut"]

Next == Cut \/ \E e \in Events : Send(e)

Spec == Init /\ [][Next]_view
===============================================================================
