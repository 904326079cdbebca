------------------------------ MODULE ChatEvents ------------------------------
(****************************************************************************)
(* The events of the POST /agent/chat stream (step, cards, delta, sources,   *)
(* done, error), what a reader of the stream holds after each of them, and   *)
(* the orders they may come in.                                              *)
(****************************************************************************)
EXTENDS Naturals

CONSTANTS
    None,           \* no call, no turn, no request
    MaxToolCalls    \* tools one turn may run, so the steps it can show

ASSUME StepAssumption == MaxToolCalls \in Nat \ {0}

\* What a piece of prose can be: whitespace, the writer model's words, the
\* answer put together without it, the fixed reply of a turn that has no writer.
Texts == {"blank", "prose", "rescue", "canned"}

Step(i, status) == [name |-> "step", index |-> i, status |-> status]
Cards           == [name |-> "cards"]
Delta(t)        == [name |-> "delta", text |-> t]
Sources         == [name |-> "sources"]
Done(t)         == [name |-> "done", text |-> t]
Failure         == [name |-> "error"]

Events == {Step(i, s) : i \in 0..(MaxToolCalls - 1), s \in {"run", "done"}}
            \cup {Cards, Sources, Failure}
            \cup {Delta(t) : t \in Texts} \cup {Done(t) : t \in Texts}

\* What the reader holds: how many steps are done, whether one is running,
\* whether the cards and the sources are there, the prose shown, and the end.
Blank == [shown |-> 0, running |-> FALSE, cards |-> FALSE, said |-> {},
          sources |-> FALSE, end |-> "open"]

\* The steps of the search come first, each run and then done, in index order.
MayStep(v, e) ==
    /\ ~v.cards /\ v.said = {} /\ ~v.sources
    /\ e.index = v.shown
    /\ v.running = (e.status = "done")

\* The cards come once, before any prose and never beside a step that spins.
MayShowCards(v) == ~v.cards /\ ~v.running /\ v.said = {}

\* done repeats an answer the reader has seen; cards are never left unsourced.
MayFinish(v, e) == e.text \in v.said \ {"blank"} /\ (v.cards => v.sources)

May(v, e) ==
    /\ v.end = "open"
    /\ \/ e.name = "step" /\ MayStep(v, e)
       \/ e.name = "cards" /\ MayShowCards(v)
       \/ e.name = "delta" /\ ~v.sources
       \/ e.name = "sources" /\ v.said # {} /\ ~v.running /\ ~v.sources
       \/ e.name = "done" /\ MayFinish(v, e)
       \/ e.name = "error" /\ ~v.sources

After(v, e) ==
    CASE e.name = "step" ->
            [v EXCEPT !.running = (e.status = "run"),
                      !.shown = IF e.status = "done" THEN @ + 1 ELSE @]
      [] e.name = "cards"   -> [v EXCEPT !.cards = TRUE]
      [] e.name = "delta"   -> [v EXCEPT !.said = @ \cup {e.text}]
      [] e.name = "sources" -> [v EXCEPT !.sources = TRUE]
      [] e.name = "done"    -> [v EXCEPT !.end = "done"]
      [] e.name = "error"   -> [v EXCEPT !.end = "error"]
===============================================================================
