------------------------------ MODULE ChatProofs -------------------------------
(***************************************************************************)
(* Both ends of the chat, for any calls, turns, requests and limits.  On   *)
(* the server the search is stopped by a halt and by the client, the       *)
(* screen tells of the tools that ran, in time, and the events implement   *)
(* the stream's contract.  In the app a turn that has ended stays,         *)
(* whatever the server sends; and as long as it sends no error event, no   *)
(* two turns are mixed up.                                                 *)
(***************************************************************************)
EXTENDS ChatTurn, ChatClient, SequenceTheorems, FiniteSetTheorems, TLAPS

Stages == {"opening", "head", "asking", "round", "tool", "closed"}
Phases == {"drain", "replay", "cards", "canned", "write", "rescue", "sources", "done", "over"}
Reasons == {"running", "call_limit", "budget", "done", "llm_down", "halted"}
Traces == [calls : Nat, rows : BOOLEAN, facts : BOOLEAN, anchors : BOOLEAN,
           halt : BOOLEAN, steps : Nat, stopped : Reasons]
Reader == [shown : Nat, running : BOOLEAN, cards : BOOLEAN, said : SUBSET Texts,
           sources : BOOLEAN, end : {"open", "done", "cut", "error"}]

--------------------------------------------------------------------------------
(* The search.                                                                 *)

SearchTyped ==
    /\ opening \in Calls \cup {None}
    /\ stage \in Stages
    /\ picked \in Seq(Calls)
    /\ fired \in SUBSET Calls /\ IsFiniteSet(fired)
    /\ trace \in Traces
    /\ routed \in BOOLEAN /\ cancelled \in BOOLEAN
    /\ phase \in Phases
    /\ elapsed \in Nat /\ waiting \in Nat
    /\ outcome \in Outcomes \cup {None}

\* A search that runs has the generator draining or is to be cancelled at its await.
Watched ==
    /\ cancelled => phase = "over" /\ Suspended
    /\ phase # "drain" /\ ~cancelled => stage = "closed"

SearchInv == SearchTyped /\ Watched

--------------------------------------------------------------------------------
(* The budget.                                                                 *)

\* Before a round begins nothing is picked; inside one, the tools that are left
\* still fit; and a wait never goes on beyond its limit.
InTime ==
    /\ ~routed => picked = <<>>
    /\ Len(picked) <= MaxCallsPerRound
    /\ stage = "opening" => elapsed = 0 /\ ~routed
    /\ stage = "head" => elapsed <= SearchLimit
    /\ stage = "asking" => elapsed < TotalBudget + waiting /\ waiting <= DecideLimit
    /\ stage = "round" => routed /\ elapsed + Len(picked) * ToolTimeout <= SearchLimit
    /\ stage = "tool" =>
          /\ waiting <= ToolTimeout
          /\ elapsed + Len(picked) * ToolTimeout + (ToolTimeout - waiting) <= SearchLimit
    /\ stage = "closed" => elapsed = 0

--------------------------------------------------------------------------------
(* The queue.                                                                  *)

\* The tools that ran, and the signals they have sent: one more run than done while
\* one runs, and for ever when that one raised or was cancelled.
Ran == Cardinality(fired \ Unknown)
Signals == Ran + trace.steps
Signal(n) == Step(n \div 2, IF n % 2 = 0 THEN "run" ELSE "done")
Abrupt == {"refused", "limited", "broken", "cancelled"}

RanInOrder ==
    /\ stage = "tool" => Ran = trace.steps + 1
    /\ stage \notin {"tool", "closed"} => Ran = trace.steps
    /\ stage = "closed" /\ outcome \in Abrupt => Ran \in {trace.steps, trace.steps + 1}
    /\ stage = "closed" /\ outcome \notin Abrupt => Ran = trace.steps

\* A call runs one tool at most and is counted before.
Counted == Ran <= trace.calls /\ trace.calls <= MaxToolCalls

Taken == 2 * told.shown + (IF told.running THEN 1 ELSE 0)

Messages == {Close} \cup {Step(i, status) : i \in Nat, status \in {"run", "done"}}

\* The queue q has the signals from the one numbered from up to the one before to,
\* and the close of a search that has ended.
QueueHas(q, from, to, where) ==
    /\ from <= to
    /\ \A i \in 1..(to - from) : q[i] = Signal(from + i - 1)
    /\ where # "closed" => Len(q) = to - from
    /\ where = "closed" => Len(q) = to - from + 1 /\ q[to - from + 1] = Close

\* While it drains, the reader has the signals up to Taken, and the queue has the rest.
Drained ==
    /\ queue \in Seq(Messages)
    /\ phase = "drain" => QueueHas(queue, Taken, Signals, stage)
    /\ phase \in {"drain", "replay"} => streamed = told.shown

\* Rows found end as found, unless something raised.
Found ==
    /\ trace.rows => trace.calls > 0
    /\ stage = "closed" => outcome \in Outcomes
    /\ stage = "closed" /\ trace.rows => outcome \notin {"talk", "facts", "zero"}
    /\ cancelled => cut
    /\ stage = "closed" /\ outcome = "cancelled" => cut

\* What the reader holds at each phase of the generator.
Told ==
    /\ told \in Reader
    /\ written \in {"nothing", "blank", "prose", "rescue", "canned"}
    /\ streamed \in Nat
    /\ cut => phase = "over"
    /\ phase # "over" => told.end = "open"
    /\ phase = "over" => told.end = "done" \/ (cut /\ told.end = "open")
    /\ phase \in {"drain", "replay", "cards", "canned"} => ~told.cards
    /\ phase \in {"drain", "replay", "cards"} => written = "nothing"
    /\ written = "nothing" => told.said = {}
    /\ written # "nothing" => written \in told.said
    /\ phase \notin {"done", "over"} => ~told.sources
    /\ phase \in {"replay", "cards", "write", "rescue", "sources"} => ~told.running
    /\ phase \in {"replay", "cards", "write", "rescue", "sources"} => outcome \notin Abrupt
    /\ phase \in {"write", "rescue", "sources"} => outcome # "talk"
    /\ phase = "canned" => written = "nothing"
    /\ phase = "rescue" => written # "prose"
    /\ phase \in {"sources", "done"} => written \notin {"nothing", "blank"}
    /\ phase = "done" => (told.cards => told.sources)

\* Once the drain is over the reader has all the signals, and from the cards on,
\* unless the stream was left, the rows found.
Shown ==
    /\ phase # "drain" /\ ~cut => Taken = Signals /\ outcome # "broken"
    /\ phase = "canned" => outcome # "found"
    /\ phase \in {"write", "rescue", "sources", "done", "over"} /\ ~cut /\ outcome = "found" =>
          told.cards

TurnInv == SearchInv /\ InTime /\ RanInOrder /\ Counted /\ Drained /\ Found /\ Told /\ Shown

--------------------------------------------------------------------------------
(* The steps of the search keep its types, and who watches it.                 *)

LEMMA Given ==
    /\ None \notin Calls /\ Openings \subseteq Calls \cup {None}
    /\ MaxCallsPerRound \in Nat /\ MaxCallsPerRound > 0
    /\ TotalBudget \in Nat /\ TotalBudget > 0 /\ ToolTimeout \in Nat /\ ToolTimeout > 0
    /\ DecideLimit \in Nat /\ MaxToolCalls \in Nat /\ MaxToolCalls > 0
BY ChatAssumption, StepAssumption DEF ChatAssumption, StepAssumption

SearchStep == LoopStep \/ Answer \/ Tick

LEMMA OffersKept ==
    ASSUME NEW offer \in Offers
    PROVE  Kept(offer) \in Seq(Calls) /\ Len(Kept(offer)) <= MaxCallsPerRound
<1>1. PICK n \in 1..(MaxCallsPerRound + 1) : offer \in [1..n -> Calls]
  BY DEF Offers
<1>2. offer \in Seq(Calls) /\ Len(offer) = n /\ n \in Nat /\ n > 0
  BY <1>1, Given
<1> DEFINE k == IF Len(offer) < MaxCallsPerRound THEN Len(offer) ELSE MaxCallsPerRound
<1>3. k \in 1..Len(offer) /\ k <= MaxCallsPerRound
  BY <1>2, Given
<1>4. SubSeq(offer, 1, k) \in Seq(Calls) /\ Len(SubSeq(offer, 1, k)) = k
  BY <1>2, <1>3, SubSeqProperties
<1> QED
  BY <1>3, <1>4 DEF Kept

LEMMA TraceFields ==
    ASSUME NEW t \in Traces
    PROVE  /\ t.calls \in Nat /\ t.steps \in Nat /\ t.rows \in BOOLEAN /\ t.halt \in BOOLEAN
           /\ [t EXCEPT !.calls = t.calls + 1] \in Traces
           /\ [t EXCEPT !.steps = t.steps + 1] \in Traces
           /\ \A why \in Reasons : [t EXCEPT !.stopped = why] \in Traces
           /\ \A rows, facts, anchors, halt \in BOOLEAN :
                [t EXCEPT !.rows = rows, !.facts = facts, !.anchors = anchors, !.halt = halt]
                  \in Traces
<1>1. /\ [t EXCEPT !.calls = t.calls + 1] \in Traces
      /\ [t EXCEPT !.steps = t.steps + 1] \in Traces
      /\ \A why \in Reasons : [t EXCEPT !.stopped = why] \in Traces
  BY DEF Traces
<1>2. ASSUME NEW rows \in BOOLEAN, NEW facts \in BOOLEAN, NEW anchors \in BOOLEAN,
             NEW halt \in BOOLEAN
      PROVE  [t EXCEPT !.rows = rows, !.facts = facts, !.anchors = anchors, !.halt = halt]
                \in Traces
  <2> DEFINE t1 == [t EXCEPT !.rows = rows]
             t2 == [t1 EXCEPT !.facts = facts]
             t3 == [t2 EXCEPT !.anchors = anchors]
  <2>1. t1 \in Traces
    BY DEF Traces
  <2> HIDE DEF t1
  <2>2. t2 \in Traces
    BY <2>1 DEF Traces
  <2> HIDE DEF t2
  <2>3. t3 \in Traces
    BY <2>2 DEF Traces
  <2> HIDE DEF t3
  <2>4. [t3 EXCEPT !.halt = halt] \in Traces
    BY <2>3 DEF Traces
  <2> QED
    BY <2>4 DEF t1, t2, t3
<1>3. t.calls \in Nat /\ t.steps \in Nat /\ t.rows \in BOOLEAN /\ t.halt \in BOOLEAN
  BY DEF Traces
<1> QED
  BY <1>1, <1>2, <1>3

\* What a tool brings: the trace it leaves, its steps apart.
Brought(t) ==
    /\ t \in Traces /\ t.calls = trace.calls /\ t.steps = trace.steps
    /\ trace.rows => t.rows

LEMMA ReturnBrings ==
    ASSUME SearchTyped, ToolReturns
    PROVE  \E t : Brought(t) /\ ToolOver(t)
<1>1. PICK rows \in BOOLEAN, fact \in BOOLEAN, anchors \in BOOLEAN, stop \in BOOLEAN :
        ToolOver([trace EXCEPT !.rows = @ \/ (rows /\ running \notin Factual),
                               !.facts = @ \/ fact \/ running \in Factual,
                               !.anchors = @ \/ anchors,
                               !.halt = @ \/ stop])
  BY DEF ToolReturns
<1> DEFINE b1 == trace.rows \/ (rows /\ running \notin Factual)
           b2 == trace.facts \/ fact \/ running \in Factual
           b3 == trace.anchors \/ anchors
           b4 == trace.halt \/ stop
           t == [trace EXCEPT !.rows = b1, !.facts = b2, !.anchors = b3, !.halt = b4]
<1>2. b1 \in BOOLEAN /\ b2 \in BOOLEAN /\ b3 \in BOOLEAN /\ b4 \in BOOLEAN /\ (trace.rows => b1)
  OBVIOUS
<1>3. trace \in Traces /\ ToolOver(t)
  BY <1>1 DEF SearchTyped
<1> HIDE DEF b1, b2, b3, b4
<1>4. t.calls = trace.calls /\ t.steps = trace.steps /\ t.rows = b1
  BY <1>3 DEF Traces
<1>5. Brought(t)
  BY <1>2, <1>3, <1>4, TraceFields DEF Brought
<1> QED
  BY <1>3, <1>5

\* A search step is of one of these kinds.
Observes(call) ==
    /\ Observe(call) /\ call \in Calls /\ ~cancelled
    /\ \/ stage = "opening" /\ picked' = picked
       \/ stage = "round" /\ picked # <<>> /\ call = Head(picked) /\ picked' = Tail(picked)

Concludes == stage \in {"head", "asking", "round"} /\ ~cancelled
             /\ \E why \in Reasons : Conclude(trace, why)

Errs == stage \in {"asking", "tool"} /\ ~cancelled
        /\ \E how \in {"refused", "limited", "broken"} : Raises(how)

Returns == stage = "tool" /\ ~cancelled /\ \E t : Brought(t) /\ ToolOver(t)

Opens == Open /\ opening = None

LEMMA StepKinds ==
    ASSUME SearchInv, SearchStep
    PROVE  \/ \E call \in Calls : Observes(call)
           \/ Concludes \/ Errs \/ Returns
           \/ Opens \/ AskModel \/ DecidePick \/ RoundOver \/ Cancelled \/ Tick
<1>0. SearchTyped /\ (cancelled => Suspended)
  BY DEF SearchInv, Watched
<1>1. CASE Open
  BY <1>0, <1>1 DEF SearchTyped, Open, Opens, Observes
<1>2. CASE CallLimit \/ OutOfTime \/ RoundHalted
  BY <1>0, <1>2 DEF CallLimit, OutOfTime, RoundHalted, Concludes, Suspended, Reasons
<1>3. CASE NextCall
  <2>1. stage = "round" /\ picked # <<>> /\ picked \in Seq(Calls) /\ picked' = Tail(picked)
        /\ Observe(Head(picked)) /\ ~cancelled
    BY <1>0, <1>3 DEF NextCall, SearchTyped, Suspended
  <2>2. Head(picked) \in Calls
    BY <2>1, HeadTailProperties
  <2> QED
    BY <2>1, <2>2 DEF Observes
<1>4. CASE RouterTimedOut \/ DecideDone \/ RouterDown
  BY <1>4 DEF RouterTimedOut, DecideDone, RouterDown, Concludes, Awaiting, Reasons
<1>5. CASE RouterLimited \/ ToolRefuses \/ ToolBreaks
  BY <1>5 DEF RouterLimited, ToolRefuses, ToolBreaks, Errs, Awaiting
<1>6. CASE ToolTimedOut
  <2>1. Brought(trace)
    BY <1>0 DEF Brought, SearchTyped
  <2> QED
    BY <1>6, <2>1 DEF ToolTimedOut, Returns, Awaiting
<1>7. CASE ToolReturns
  BY <1>0, <1>7, ReturnBrings DEF ToolReturns, Returns, Awaiting
<1> QED
  BY <1>1, <1>2, <1>3, <1>4, <1>5, <1>6, <1>7 DEF SearchStep, LoopStep, Answer

\* How the variables of the search move.
LEMMA SearchTypedHolds ==
    ASSUME SearchInv, SearchStep
    PROVE  /\ SearchTyped' /\ UNCHANGED <<opening, cancelled, phase>>
           /\ stage # "closed" /\ (cancelled => Suspended')
<1>0. /\ SearchTyped /\ (cancelled => Suspended) /\ <<>> \in Seq(Calls)
      /\ stage \in Stages /\ trace \in Traces /\ picked \in Seq(Calls) /\ elapsed \in Nat
  BY EmptySeq DEF SearchInv, SearchTyped, Watched
<1>1. ASSUME NEW call \in Calls, Observes(call) PROVE SearchTyped' /\ UNCHANGED <<opening, cancelled, phase>>
        /\ stage # "closed" /\ ~cancelled
  <2>1. picked' \in Seq(Calls)
    <3>1. CASE stage = "opening"
      BY <1>0, <1>1, <3>1 DEF Observes
    <3>2. CASE stage = "round"
      BY <1>0, <1>1, <3>2, HeadTailProperties DEF Observes
    <3> QED
      BY <1>1, <3>1, <3>2 DEF Observes
  <2>2. trace' \in Traces /\ fired' \in SUBSET Calls /\ IsFiniteSet(fired') /\ stage' \in Stages
    <3>1. fired \cup {call} \in SUBSET Calls /\ IsFiniteSet(fired \cup {call})
      BY <1>0, FS_AddElement DEF SearchTyped
    <3> QED
      BY <1>0, <1>1, <3>1, TraceFields DEF Observes, Observe, SearchTyped, NextStage, Stages
  <2> QED
    BY <1>0, <1>1, <2>1, <2>2 DEF SearchTyped, Observes, Observe, eventVars
<1>2. CASE Concludes
  <2>1. PICK why \in Reasons : Conclude(trace, why)
    BY <1>2 DEF Concludes
  <2>2. trace' \in Traces /\ (\E how \in Responses(trace) : Ends(how))
        /\ UNCHANGED <<opening, fired, routed, eventVars>>
    BY <1>0, <2>1, TraceFields DEF Conclude
  <2>3. PICK how \in Outcomes : Ends(how)
    BY <2>2 DEF Responses, Outcomes
  <2> QED
    BY <1>0, <1>2, <2>2, <2>3 DEF Ends, Concludes, SearchTyped, Stages, eventVars
<1>3. CASE Errs
  BY <1>0, <1>3 DEF Errs, Raises, Ends, SearchTyped, Stages, Outcomes, eventVars
<1>4. CASE Returns
  <2>1. PICK t : Brought(t) /\ ToolOver(t)
    BY <1>4 DEF Returns
  <2>2. trace' \in Traces
    BY <2>1, TraceFields DEF ToolOver, Brought
  <2> QED
    BY <1>0, <1>4, <2>1, <2>2 DEF Returns, ToolOver, NextStage, SearchTyped, Stages, eventVars
<1>5. CASE Opens \/ AskModel \/ RoundOver
  BY <1>0, <1>5 DEF Opens, Open, AskModel, RoundOver, SearchTyped, Stages, eventVars, Suspended
<1>6. CASE DecidePick
  BY <1>0, <1>6, OffersKept DEF DecidePick, Awaiting, SearchTyped, Stages, eventVars
<1>7. CASE Cancelled
  BY <1>0, <1>7 DEF Cancelled, SearchTyped, Stages, Outcomes, eventVars, Suspended
<1>8. CASE Tick
  <2>1. elapsed' \in Nat /\ waiting' \in Nat
    BY <1>0, <1>8 DEF Tick, SearchTyped
  <2> QED
    BY <1>0, <1>8, <2>1 DEF Tick, SearchTyped, Stages, eventVars, Suspended
<1> QED
  BY StepKinds, <1>1, <1>2, <1>3, <1>4, <1>5, <1>6, <1>7, <1>8 DEF Concludes, Errs, Returns, Opens, Open

--------------------------------------------------------------------------------
(* The steps of the search, and the signals they send.                         *)

LEMMA SignalIs ==
    ASSUME NEW k \in Nat
    PROVE  /\ Signal(k + k) = Step(k, "run")
           /\ Signal(k + k + 1) = Step(k, "done")
<1>1. (k + k) \div 2 = k /\ (k + k) % 2 = 0 /\ (k + k + 1) \div 2 = k /\ (k + k + 1) % 2 = 1
  OBVIOUS
<1> QED
  BY <1>1 DEF Signal

LEMMA RanTyped ==
    ASSUME SearchTyped
    PROVE  Ran \in Nat /\ trace.steps \in Nat /\ trace.calls \in Nat /\ Signals \in Nat
<1>1. IsFiniteSet(fired \ Unknown)
  BY FS_Subset DEF SearchTyped
<1> QED
  <2>1. Ran \in Nat
    BY <1>1, FS_CardinalityType DEF Ran
  <2>2. trace.steps \in Nat /\ trace.calls \in Nat
    BY TraceFields DEF SearchTyped
  <2> QED
    BY <2>1, <2>2 DEF Signals

LEMMA RanMoves ==
    ASSUME SearchTyped, NEW call \in Calls, call \notin fired, fired' = fired \cup {call}
    PROVE  /\ call \in Unknown => Ran' = Ran
           /\ call \notin Unknown => Ran' = Ran + 1
<1>1. IsFiniteSet(fired \ Unknown)
  BY FS_Subset DEF SearchTyped
<1>2. CASE call \in Unknown
  <2>1. fired' \ Unknown = fired \ Unknown
    BY <1>2
  <2> QED
    BY <1>2, <2>1 DEF Ran
<1>3. CASE call \notin Unknown
  <2>1. fired' \ Unknown = (fired \ Unknown) \cup {call}
    BY <1>3
  <2>2. Cardinality((fired \ Unknown) \cup {call}) = Cardinality(fired \ Unknown) + 1
    BY <1>1, FS_AddElement
  <2> QED
    BY <1>3, <2>1, <2>2 DEF Ran
<1> QED
  BY <1>2, <1>3

\* A step of the search sends nothing and runs nothing, or it sends a signal,
\* or it closes the queue behind it.
Quiet == Ran' = Ran /\ trace'.steps = trace.steps /\ UNCHANGED queue /\ stage' # "closed"
         /\ (stage' = "tool" <=> stage = "tool")
Sends == /\ queue' = Append(queue, Signal(Signals)) /\ stage' # "closed"
         /\ \/ stage # "tool" /\ stage' = "tool" /\ Ran' = Ran + 1 /\ trace'.steps = trace.steps
            \/ stage = "tool" /\ stage' # "tool" /\ Ran' = Ran /\ trace'.steps = trace.steps + 1
Closes == /\ queue' = Append(queue, Close) /\ stage' = "closed"
          /\ Ran' = Ran /\ trace'.steps = trace.steps
Leaves == /\ phase = "over" /\ stage' = "closed" /\ Ran' = Ran /\ trace'.steps = trace.steps
          /\ queue' \in {queue, Append(queue, Close)}

LEMMA ObserveSends ==
    ASSUME SearchInv, RanInOrder, Counted, Found, NEW call \in Calls, Observes(call)
    PROVE  (Quiet \/ Sends) /\ Counted' /\ Found'
<1>0. /\ SearchTyped /\ stage \in {"opening", "round"} /\ Ran = trace.steps
      /\ stage' \in {"head", "round", "tool"} /\ outcome' = outcome /\ cancelled' = cancelled
      /\ cut' = cut /\ trace \in Traces
  BY DEF SearchInv, RanInOrder, Observes, Observe, NextStage, SearchTyped, eventVars
<1>1. Ran \in Nat /\ trace.steps \in Nat /\ trace.calls \in Nat
  BY <1>0, RanTyped
<1>2. CASE Refuses(call)
  <2>1. stage' # "tool" /\ UNCHANGED <<fired, trace, queue>>
    BY <1>0, <1>2 DEF Observes, Observe, NextStage
  <2>2. Ran' = Ran
    BY <2>1 DEF Ran
  <2> QED
    BY <1>0, <2>1, <2>2 DEF Quiet, Counted, Found
<1>3. CASE ~Refuses(call)
  <2>1. /\ fired' = fired \cup {call} /\ call \notin fired
        /\ trace' = [trace EXCEPT !.calls = @ + 1] /\ trace.calls < MaxToolCalls
    BY <1>1, <1>3, Given DEF Observes, Observe, Refuses
  <2>2. trace'.calls = trace.calls + 1 /\ trace'.steps = trace.steps /\ trace'.rows = trace.rows
    BY <1>0, <2>1 DEF Traces
  <2>3. CASE call \in Unknown
    <3>1. stage' # "tool" /\ UNCHANGED queue
      BY <1>0, <1>3, <2>3 DEF Observes, Observe, NextStage
    <3>2. Ran' = Ran
      BY <1>0, <2>1, <2>3, RanMoves
    <3> QED
      BY <1>0, <1>1, <2>1, <2>2, <3>1, <3>2, Given DEF Quiet, Counted, Found
  <2>4. CASE call \notin Unknown
    <3>1. stage' = "tool" /\ queue' = Append(queue, Step(trace.steps, "run"))
      BY <1>3, <2>4 DEF Observes, Observe
    <3>2. Ran' = Ran + 1
      BY <1>0, <2>1, <2>4, RanMoves
    <3>3. Signal(Signals) = Step(trace.steps, "run")
      BY <1>0, <1>1, SignalIs DEF Signals
    <3> QED
      BY <1>0, <1>1, <2>1, <2>2, <3>1, <3>2, <3>3, Given DEF Sends, Counted, Found
  <2> QED
    BY <2>3, <2>4
<1> QED
  BY <1>2, <1>3

LEMMA SearchCountsHold ==
    ASSUME SearchInv, RanInOrder, Counted, Found, SearchStep, cancelled => cut
    PROVE  (Quiet \/ Sends \/ Closes \/ Leaves) /\ RanInOrder' /\ Counted' /\ Found'
<1>0. /\ SearchTyped /\ trace \in Traces /\ stage # "closed" /\ stage \in Stages
      /\ Ran \in Nat /\ trace.steps \in Nat /\ trace.calls \in Nat
  BY SearchTypedHolds, RanTyped DEF SearchInv, SearchTyped, Found
<1>1. ASSUME NEW call \in Calls, Observes(call)
      PROVE  (Quiet \/ Sends) /\ RanInOrder' /\ Counted' /\ Found'
  <2>1. (Quiet \/ Sends) /\ Counted' /\ Found'
    BY <1>1, ObserveSends
  <2>2. stage # "tool" /\ Ran = trace.steps
    BY <1>0, <1>1 DEF Observes, RanInOrder
  <2>3. RanInOrder'
    BY <2>1, <2>2 DEF Quiet, Sends, RanInOrder
  <2> QED
    BY <2>1, <2>3
<1>2. CASE Concludes
  <2>1. PICK why \in Reasons : Conclude(trace, why)
    BY <1>2 DEF Concludes
  <2>2. PICK how \in Responses(trace) : Ends(how)
    BY <2>1 DEF Conclude
  <2>3. /\ trace' = [trace EXCEPT !.stopped = why] /\ fired' = fired /\ cut' = cut
        /\ cancelled' = cancelled
    BY <2>1 DEF Conclude, eventVars
  <2>4. trace'.steps = trace.steps /\ trace'.calls = trace.calls /\ trace'.rows = trace.rows
    BY <1>0, <2>3 DEF Traces
  <2>5. stage' = "closed" /\ outcome' = how /\ queue' = Append(queue, Close)
    BY <2>2 DEF Ends
  <2>6. how \in {"talk", "facts", "zero", "refused", "found"}
        /\ (trace.rows => how \notin {"talk", "facts", "zero"})
    BY <1>0, <2>2 DEF Responses, Found
  <2>7. Ran' = Ran /\ Closes
    BY <2>3, <2>4, <2>5 DEF Closes, Ran
  <2>8. Counted' /\ Found'
    BY <2>3, <2>4, <2>5, <2>6, <2>7 DEF Counted, Found, Outcomes
  <2>9. RanInOrder'
    <3>1. Ran = trace.steps
      BY <1>0, <1>2 DEF Concludes, RanInOrder
    <3> QED
      BY <3>1, <2>4, <2>5, <2>7 DEF RanInOrder
  <2> QED
    BY <2>7, <2>8, <2>9
<1>3. CASE Errs
  <2>1. PICK how \in {"refused", "limited", "broken"} : Raises(how)
    BY <1>3 DEF Errs
  <2>2. /\ fired' = fired /\ trace' = trace /\ cut' = cut /\ cancelled' = cancelled
        /\ stage' = "closed" /\ outcome' = how /\ queue' = Append(queue, Close) 
    BY <2>1 DEF Raises, Ends, eventVars
  <2>3. how \in {"refused", "limited", "broken"}
    BY <2>1
  <2>4. Ran' = Ran /\ Closes
    BY <2>2 DEF Ran, Closes
  <2>5. Counted' /\ Found'
    BY <2>2, <2>3, <2>4 DEF Counted, Found, Outcomes
  <2>6. RanInOrder'
    <3>1. Ran \in {trace.steps, trace.steps + 1}
      BY <1>0 DEF RanInOrder
    <3> QED
      BY <3>1, <2>2, <2>3, <2>4 DEF RanInOrder, Abrupt
  <2> QED
    BY <2>4, <2>5, <2>6
<1>4. CASE Returns
  <2>1. PICK t : Brought(t) /\ ToolOver(t)
    BY <1>4 DEF Returns
  <2>2. /\ stage = "tool" /\ fired' = fired /\ cut' = cut /\ cancelled' = cancelled
        /\ trace' = [t EXCEPT !.steps = @ + 1] /\ stage' \in {"head", "round"}
        /\ queue' = Append(queue, Step(trace.steps, "done"))
    BY <1>4, <2>1 DEF Returns, ToolOver, eventVars, NextStage
  <2>3. /\ trace'.steps = trace.steps + 1 /\ trace'.calls = trace.calls
    BY <2>1, <2>2 DEF Brought, Traces
  <2>4. Ran' = Ran /\ Ran = trace.steps + 1
    BY <2>2 DEF Ran, RanInOrder
  <2>5. Signal(Signals) = Step(trace.steps, "done")
    BY <1>0, <2>4, SignalIs DEF Signals
  <2>6. trace.calls > 0
    BY <1>0, <2>4 DEF Counted
  <2>7. Sends /\ Counted' /\ Found'
    BY <1>0, <2>2, <2>3, <2>4, <2>5, <2>6 DEF Sends, Counted, Found
  <2>8. RanInOrder'
    BY <1>0, <2>2, <2>3, <2>4 DEF RanInOrder
  <2> QED
    BY <2>7, <2>8
<1>5. CASE Opens \/ AskModel \/ RoundOver \/ DecidePick \/ Tick
  <2>1. /\ UNCHANGED <<fired, trace, queue, cut, cancelled, outcome>>
        /\ stage' # "closed" /\ (stage' = "tool" <=> stage = "tool")
    BY <1>0, <1>5 DEF Opens, Open, AskModel, RoundOver, DecidePick, Awaiting, Tick, eventVars, SearchInv, Watched
  <2>2. Ran' = Ran
    BY <2>1 DEF Ran
  <2> QED
    BY <1>0, <2>1, <2>2 DEF Quiet, Counted, Found, RanInOrder
<1>6. CASE Cancelled
  <2>1. /\ UNCHANGED <<fired, trace, cut, cancelled>> /\ stage' = "closed" /\ phase = "over" /\ cut
        /\ outcome' = "cancelled" /\ queue' \in {queue, Append(queue, Close)}
    BY <1>6 DEF Cancelled, eventVars, SearchInv, Watched
  <2>2. Ran' = Ran
    BY <2>1 DEF Ran
  <2>3. Leaves /\ Counted' /\ Found'
    BY <2>1, <2>2 DEF Leaves, Counted, Found, Outcomes
  <2>4. RanInOrder'
    <3>1. Ran \in {trace.steps, trace.steps + 1}
      BY <1>0 DEF RanInOrder
    <3> QED
      BY <3>1, <2>1, <2>2 DEF RanInOrder, Abrupt
  <2> QED
    BY <2>3, <2>4
<1> QED
  BY StepKinds, <1>1, <1>2, <1>3, <1>4, <1>5, <1>6

LEMMA ReaderTyped ==
    ASSUME Told
    PROVE  /\ told.shown \in Nat /\ told.running \in BOOLEAN /\ Taken \in Nat
           /\ told.running => Taken = told.shown + told.shown + 1
           /\ ~told.running => Taken = told.shown + told.shown
<1>1. told.shown \in Nat /\ told.running \in BOOLEAN
  BY DEF Told, Reader
<1> QED
  BY <1>1 DEF Taken

\* The queue as it grows, whatever the numbers.
LEMMA QueueGrows ==
    ASSUME NEW q \in Seq(Messages), NEW from \in Nat, NEW to \in Nat, NEW where, where # "closed",
           QueueHas(q, from, to, where)
    PROVE  /\ \A then \in Stages : then # "closed" => QueueHas(q, from, to, then)
           /\ \A then \in Stages : then # "closed" =>
                QueueHas(Append(q, Signal(to)), from, to + 1, then)
           /\ QueueHas(Append(q, Close), from, to, "closed")
<1> DEFINE k == to - from
<1>1. from <= to /\ k \in Nat /\ Len(q) = k /\ \A i \in 1..k : q[i] = Signal(from + i - 1)
  BY DEF QueueHas
<1>2. \A m : /\ Len(Append(q, m)) = k + 1 /\ Append(q, m)[k + 1] = m
             /\ \A i \in 1..k : Append(q, m)[i] = q[i]
  BY <1>1, LenProperties
<1>3. ASSUME NEW then \in Stages, then # "closed" PROVE QueueHas(q, from, to, then)
  BY <1>1, <1>3 DEF QueueHas
<1>4. ASSUME NEW then \in Stages, then # "closed"
      PROVE  QueueHas(Append(q, Signal(to)), from, to + 1, then)
  <2> DEFINE r == Append(q, Signal(to))
  <2>1. (to + 1) - from = k + 1 /\ from <= to + 1 /\ Len(r) = k + 1
    BY <1>1, <1>2
  <2>2. ASSUME NEW i \in 1..(k + 1) PROVE r[i] = Signal(from + i - 1)
    <3>1. CASE i \in 1..k
      BY <1>1, <1>2, <3>1
    <3>2. CASE i = k + 1
      <4>1. r[i] = Signal(to) /\ from + i - 1 = to
        BY <1>1, <1>2, <3>2
      <4> QED
        BY <4>1
    <3> QED
      BY <1>1, <3>1, <3>2
  <2> HIDE DEF r
  <2>3. QueueHas(r, from, to + 1, then)
    BY <1>4, <2>1, <2>2 DEF QueueHas
  <2> QED
    BY <2>3 DEF r
<1>5. QueueHas(Append(q, Close), from, to, "closed")
  <2> DEFINE r == Append(q, Close)
  <2>1. Len(r) = k + 1 /\ r[k + 1] = Close /\ \A i \in 1..k : r[i] = q[i]
    BY <1>2
  <2> HIDE DEF r
  <2>2. QueueHas(r, from, to, "closed")
    BY <1>1, <2>1 DEF QueueHas
  <2> QED
    BY <2>2 DEF r
<1> QED
  BY <1>3, <1>4, <1>5

LEMMA SearchDrained ==
    ASSUME SearchInv, RanInOrder, Counted, Found, Drained, Told, SearchStep
    PROVE  Drained'
<1>0. /\ SearchTyped /\ stage # "closed" /\ stage' \in Stages /\ phase' = phase
      /\ Signals \in Nat /\ Taken \in Nat /\ queue \in Seq(Messages)
      /\ trace.steps \in Nat /\ Ran \in Nat
  BY SearchTypedHolds, RanTyped, ReaderTyped DEF SearchInv, SearchTyped, Drained
<1>1. Quiet \/ Sends \/ Closes \/ Leaves
  BY SearchCountsHold DEF Found
<1>2. UNCHANGED <<told, streamed>> /\ Taken' = Taken
  BY DEF SearchStep, LoopStep, Answer, Tick, Open, Observe, CallLimit, OutOfTime, AskModel, NextCall,
     RoundHalted, RoundOver, RouterTimedOut, ToolTimedOut, Cancelled, DecideDone, DecidePick,
     RouterDown, RouterLimited, ToolReturns, ToolRefuses, ToolBreaks, Conclude, Raises, ToolOver,
     eventVars, Taken
<1>3. \A k \in Nat : Signal(k) \in Messages
  BY DEF Signal, Messages
<1>4. queue' \in Seq(Messages)
  <2>1. Close \in Messages /\ Signal(Signals) \in Messages
    BY <1>0, <1>3 DEF Messages
  <2>2. \A m \in Messages : Append(queue, m) \in Seq(Messages)
    BY <1>0, AppendProperties
  <2>3. queue' \in {queue, Append(queue, Close), Append(queue, Signal(Signals))}
    BY <1>1 DEF Quiet, Sends, Closes, Leaves
  <2> QED
    BY <1>0, <2>1, <2>2, <2>3
<1>5. CASE phase = "drain"
  <2>1. QueueHas(queue, Taken, Signals, stage) /\ streamed = told.shown
    BY <1>5 DEF Drained
  <2>2. QueueHas(queue', Taken, Signals', stage')
    <3>1. CASE Quiet
      <4>1. Signals' = Signals /\ queue' = queue /\ stage' # "closed"
        BY <1>0, <3>1 DEF Quiet, Signals
      <4> QED
        BY <1>0, <2>1, <4>1, QueueGrows
    <3>2. CASE Sends
      <4>1. queue' = Append(queue, Signal(Signals)) /\ stage' # "closed"
        BY <3>2 DEF Sends
      <4>2. Ran' + trace'.steps = Ran + trace.steps + 1
        BY <1>0, <3>2 DEF Sends
      <4>3. Signals' = Signals + 1
        BY <1>0, <4>2 DEF Signals
      <4> QED
        BY <1>0, <2>1, <4>1, <4>3, QueueGrows
    <3>3. CASE Closes
      <4>1. Signals' = Signals /\ queue' = Append(queue, Close) /\ stage' = "closed"
        BY <1>0, <3>3 DEF Closes, Signals
      <4> QED
        BY <1>0, <2>1, <4>1, QueueGrows
    <3> QED
      BY <1>1, <1>5, <3>1, <3>2, <3>3 DEF Leaves
  <2> QED
    BY <1>2, <1>4, <2>1, <2>2 DEF Drained
<1>6. CASE phase # "drain"
  <2>1. phase = "over"
    BY <1>0, <1>6 DEF SearchInv, Watched
  <2> QED
    BY <1>0, <1>4, <2>1 DEF Drained
<1> QED
  BY <1>5, <1>6

--------------------------------------------------------------------------------
(* The steps of the search, and the time they take.                            *)

LEMMA OneToolLess ==
    ASSUME NEW n \in Nat, n > 0
    PROVE  n * ToolTimeout = (n - 1) * ToolTimeout + ToolTimeout
BY Given

LEMMA RoundFits ==
    ASSUME NEW n \in Nat, n <= MaxCallsPerRound
    PROVE  n * ToolTimeout <= MaxCallsPerRound * ToolTimeout /\ n * ToolTimeout \in Nat
           /\ 0 * ToolTimeout = 0 /\ MaxCallsPerRound * ToolTimeout >= ToolTimeout
BY Given

LEMMA SearchInTime ==
    ASSUME SearchInv, InTime, SearchStep
    PROVE  InTime'
<1>0. /\ SearchTyped /\ stage # "closed" /\ stage \in Stages /\ picked \in Seq(Calls)
      /\ elapsed \in Nat /\ waiting \in Nat /\ Len(picked) \in Nat
      /\ Len(<<>>) = 0 /\ <<>> \in Seq(Calls)
  BY SearchTypedHolds, EmptySeq, LenProperties DEF SearchInv, SearchTyped
<1> DEFINE T == ToolTimeout
           B == MaxCallsPerRound * T
           Left(p) == Len(p) * T
<1>1. /\ T \in Nat /\ B \in Nat /\ Left(picked) \in Nat /\ Left(picked) <= B /\ T <= B /\ T > 0
      /\ Left(<<>>) = 0 /\ SearchLimit = TotalBudget - 1 + DecideLimit + B
      /\ TotalBudget \in Nat /\ TotalBudget > 0 /\ DecideLimit \in Nat
  BY <1>0, Given, RoundFits DEF SearchLimit, InTime
<1>2. ASSUME NEW call \in Calls, Observes(call) PROVE InTime'
  <2>1. /\ stage' \in {NextStage, "tool"} /\ waiting' = 0 /\ UNCHANGED <<routed, elapsed>>
    BY <1>2 DEF Observes, Observe
  <2>2. CASE stage = "opening"
    <3>1. ~routed /\ elapsed = 0 /\ picked = <<>> /\ picked' = <<>> /\ stage' \in {"head", "tool"}
      BY <1>2, <2>1, <2>2 DEF Observes, InTime, NextStage
    <3> QED
      BY <1>0, <1>1, <2>1, <3>1 DEF InTime
  <2>3. CASE stage = "round"
    <3>1. routed /\ stage' \in {"round", "tool"} /\ elapsed + Left(picked) <= SearchLimit
          /\ Len(picked) <= MaxCallsPerRound /\ picked # <<>> /\ picked' = Tail(picked)
      BY <1>2, <2>1, <2>3 DEF Observes, InTime, NextStage
    <3>2. picked' \in Seq(Calls) /\ Len(picked') = Len(picked) - 1 /\ Len(picked) > 0
      BY <1>0, <3>1, HeadTailProperties, EmptySeq
    <3>3. Left(picked) = Left(picked') + T /\ Left(picked') \in Nat
      <4>1. Len(picked) * ToolTimeout = (Len(picked) - 1) * ToolTimeout + ToolTimeout
        BY <1>0, <3>2, OneToolLess
      <4>2. (Len(picked) - 1) * ToolTimeout \in Nat
        <5>1. Len(picked) - 1 \in Nat /\ Len(picked) - 1 <= MaxCallsPerRound
          BY <1>0, <3>1, <3>2, Given
        <5> QED
          BY <5>1, RoundFits
      <4>3. Len(picked') * ToolTimeout = (Len(picked) - 1) * ToolTimeout
        BY <3>2
      <4> QED
        BY <4>1, <4>2, <4>3
    <3> HIDE DEF Left, T, B
    <3>4. elapsed' + Left(picked') + (T - waiting') <= SearchLimit /\ waiting' <= T
          /\ elapsed' + Left(picked') <= SearchLimit
      BY <1>0, <1>1, <2>1, <3>1, <3>3
    <3>5. Len(picked') <= MaxCallsPerRound
      BY <1>0, <3>1, <3>2, Given
    <3> QED
      BY <2>1, <3>1, <3>4, <3>5 DEF InTime, Left, T
  <2> QED
    BY <1>2, <2>2, <2>3 DEF Observes
<1>3. CASE Concludes \/ Errs \/ Cancelled
  <2>1. stage' = "closed" /\ picked' = <<>> /\ elapsed' = 0
    BY <1>3 DEF Concludes, Errs, Conclude, Raises, Ends, Cancelled
  <2> QED
    BY <1>0, <2>1, Given DEF InTime
<1>4. CASE Returns
  <2>1. stage = "tool" /\ stage' = NextStage /\ UNCHANGED <<picked, routed, elapsed>> /\ waiting' = 0
    BY <1>4 DEF Returns, ToolOver
  <2>2. elapsed + Left(picked) + (T - waiting) <= SearchLimit /\ waiting <= T
        /\ Len(picked) <= MaxCallsPerRound /\ (~routed => picked = <<>>)
    BY <2>1 DEF InTime
  <2> HIDE DEF Left, T, B
  <2>3. elapsed' + Left(picked) <= SearchLimit /\ elapsed' <= SearchLimit
    BY <1>0, <1>1, <2>1, <2>2
  <2> QED
    BY <2>1, <2>2, <2>3 DEF InTime, NextStage, Left, T
<1>5. CASE Opens \/ AskModel \/ RoundOver
  <2>1. /\ UNCHANGED <<picked, routed, elapsed>>
        /\ \/ stage = "opening" /\ stage' = "head"
           \/ stage = "head" /\ stage' = "asking" /\ elapsed < TotalBudget /\ waiting' = 0
           \/ stage = "round" /\ stage' = "head"
    BY <1>5 DEF Opens, Open, AskModel, RoundOver
  <2>2. stage' = "head" => elapsed <= SearchLimit
    <3> HIDE DEF Left, T, B
    <3>1. stage = "round" => elapsed + Left(picked) <= SearchLimit
      BY DEF InTime, Left, T
    <3>2. stage = "opening" => elapsed = 0
      BY DEF InTime
    <3> QED
      BY <1>0, <1>1, <2>1, <3>1, <3>2
  <2> QED
    BY <1>0, <1>1, <2>1, <2>2 DEF InTime
<1>6. CASE DecidePick
  <2>1. PICK offer \in Offers : picked' = Kept(offer)
    BY <1>6 DEF DecidePick
  <2>2. stage = "asking" /\ stage' = "round" /\ routed' = TRUE /\ elapsed' = elapsed
    BY <1>6 DEF DecidePick, Awaiting
  <2>3. Len(picked') \in Nat /\ Len(picked') <= MaxCallsPerRound
    BY <2>1, OffersKept, LenProperties
  <2>4. Left(picked') <= B /\ Left(picked') \in Nat
    BY <2>3, RoundFits
  <2> HIDE DEF Left, T, B
  <2>5. elapsed + Left(picked') <= SearchLimit
    BY <1>0, <1>1, <2>2, <2>4 DEF InTime
  <2> QED
    BY <2>2, <2>3, <2>5 DEF InTime, Left, T
<1>7. CASE Tick
  <2>1. /\ UNCHANGED <<picked, routed, stage>> /\ elapsed' = elapsed + 1 /\ waiting' = waiting + 1
        /\ \/ stage = "asking" /\ waiting < DecideLimit
           \/ stage = "tool" /\ waiting < T
    BY <1>7 DEF Tick
  <2>2. CASE stage = "asking"
    BY <1>0, <1>1, <2>1, <2>2 DEF InTime
  <2>3. CASE stage = "tool"
    <3>1. elapsed + Left(picked) + (T - waiting) <= SearchLimit /\ (~routed => picked = <<>>)
          /\ Len(picked) <= MaxCallsPerRound
      BY <2>3 DEF InTime
    <3> HIDE DEF Left, B, T
    <3>2. elapsed' + Left(picked) + (T - waiting') <= SearchLimit /\ waiting' <= T
      BY <1>0, <1>1, <2>1, <2>3, <3>1
    <3> QED
      BY <2>1, <2>3, <3>1, <3>2 DEF InTime, Left, T
  <2> QED
    BY <2>1, <2>2, <2>3
<1> QED
  BY StepKinds, <1>2, <1>3, <1>4, <1>5, <1>6, <1>7

--------------------------------------------------------------------------------
(* The steps of the generator.                                                 *)

GeneratorStep == EventStep \/ Disconnect

LEMMA GeneratorLeavesSearch ==
    ASSUME GeneratorStep
    PROVE  UNCHANGED searchVars /\ Ran' = Ran /\ Signals' = Signals
<1>1. UNCHANGED searchVars
  BY DEF GeneratorStep, EventStep, Disconnect, DrainStep, DrainClose, Replay, ShowCards, Canned,
         WriterPiece, WriterStops, Rescue, ShowSources, Finish
<1>2. fired' = fired /\ trace' = trace
  BY <1>1 DEF searchVars
<1> QED
  BY <1>1, <1>2 DEF Ran, Signals

\* What is at the head of the queue while it drains.
LEMMA HeadOfQueue ==
    ASSUME SearchInv, Drained, Told, phase = "drain", queue # <<>>
    PROVE  /\ Head(queue) # Close =>
                /\ Head(queue) = Signal(Taken) /\ Taken < Signals
                /\ QueueHas(Tail(queue), Taken + 1, Signals, stage)
           /\ Head(queue) = Close => stage = "closed" /\ Taken = Signals
           /\ Tail(queue) \in Seq(Messages)
<1> DEFINE k == Signals - Taken
           r == Tail(queue)
<1>1. /\ queue \in Seq(Messages) /\ QueueHas(queue, Taken, Signals, stage)
      /\ Taken \in Nat /\ Signals \in Nat /\ SearchTyped
  BY ReaderTyped, RanTyped DEF SearchInv, Drained
<1>2. /\ Taken <= Signals /\ \A i \in 1..k : queue[i] = Signal(Taken + i - 1)
      /\ stage # "closed" => Len(queue) = k
      /\ stage = "closed" => Len(queue) = k + 1 /\ queue[k + 1] = Close
  BY <1>1 DEF QueueHas
<1>3. /\ r \in Seq(Messages) /\ Len(r) = Len(queue) - 1 /\ Len(queue) > 0 /\ Len(queue) \in Nat
      /\ \A i \in 1..Len(r) : r[i] = queue[i + 1]
      /\ Head(queue) = queue[1]
  BY <1>1, HeadTailProperties, EmptySeq
<1>4. \A n \in Nat : Signal(n) # Close
  BY DEF Signal, Step, Close
<1>5. CASE k > 0
  <2>1. Head(queue) = Signal(Taken) /\ Taken < Signals
    <3>1. 1 \in 1..k /\ Taken + 1 - 1 = Taken
      BY <1>1, <1>5
    <3>2. queue[1] = Signal(Taken + 1 - 1)
      BY <1>2, <3>1
    <3> QED
      BY <1>1, <1>3, <1>5, <3>1, <3>2
  <2>2. Head(queue) # Close
    BY <1>1, <1>4, <2>1
  <2>3. Signals - (Taken + 1) = k - 1 /\ Taken + 1 <= Signals
    BY <1>1, <1>5
  <2>4. ASSUME NEW i \in 1..(k - 1) PROVE r[i] = Signal((Taken + 1) + i - 1)
    <3>1. i \in 1..Len(r) /\ i + 1 \in 1..k /\ Taken + (i + 1) - 1 = (Taken + 1) + i - 1
      BY <1>1, <1>2, <1>3, <1>5
    <3>2. queue[i + 1] = Signal(Taken + (i + 1) - 1)
      BY <1>2, <3>1
    <3> QED
      BY <1>3, <3>1, <3>2
  <2>5. /\ stage # "closed" => Len(r) = k - 1
        /\ stage = "closed" => Len(r) = k - 1 + 1 /\ r[k - 1 + 1] = Close
    <3>1. CASE stage = "closed"
      <4>1. Len(r) = k /\ k \in 1..Len(r) /\ k - 1 + 1 = k
        BY <1>1, <1>2, <1>3, <1>5, <3>1
      <4> QED
        BY <1>2, <1>3, <3>1, <4>1
    <3>2. CASE stage # "closed"
      BY <1>1, <1>2, <1>3, <1>5, <3>2
    <3> QED
      BY <3>1, <3>2
  <2> HIDE DEF r
  <2>6. QueueHas(r, Taken + 1, Signals, stage)
    BY <2>3, <2>4, <2>5 DEF QueueHas
  <2> QED
    BY <1>3, <2>1, <2>2, <2>6 DEF r
<1>6. CASE k = 0
  <2>1. stage = "closed" /\ queue[1] = Close
    BY <1>2, <1>3, <1>6
  <2> QED
    BY <1>1, <1>3, <1>6, <2>1
<1> QED
  BY <1>1, <1>2, <1>5, <1>6

\* The reader is given an event that the stream allows, or is left, or neither.
Reads ==
    \/ told' = told /\ (cut' <=> cut)
    \/ ~cut /\ ~cut' /\ \E e \in Events : May(told, e) /\ told' = After(told, e)
    \/ ~cut /\ cut' /\ told' = told /\ told.end = "open"

\* What a step of the generator leaves of the invariant.
Generated ==
    /\ phase' \in Phases /\ cancelled' \in BOOLEAN
    /\ Watched' /\ Drained' /\ Found' /\ Told' /\ Shown' /\ Reads

\* The events and what they do.
LEMMA EventsDo ==
    ASSUME NEW v
    PROVE  /\ \A i : After(v, Step(i, "run")) = [v EXCEPT !.running = TRUE, !.shown = v.shown]
           /\ \A i : After(v, Step(i, "done")) = [v EXCEPT !.running = FALSE, !.shown = v.shown + 1]
           /\ After(v, Cards) = [v EXCEPT !.cards = TRUE]
           /\ \A t : After(v, Delta(t)) = [v EXCEPT !.said = v.said \cup {t}]
           /\ After(v, Sources) = [v EXCEPT !.sources = TRUE]
           /\ \A t : After(v, Done(t)) = [v EXCEPT !.end = "done"]
BY DEF After, Step, Cards, Delta, Sources, Done

LEMMA EventsMay ==
    ASSUME NEW v, v.end = "open"
    PROVE  /\ \A i, status : MayStep(v, Step(i, status)) => May(v, Step(i, status))
           /\ MayShowCards(v) => May(v, Cards)
           /\ \A t : ~v.sources => May(v, Delta(t))
           /\ v.said # {} /\ ~v.running /\ ~v.sources => May(v, Sources)
           /\ \A t : t \in v.said \ {"blank"} /\ (v.cards => v.sources) => May(v, Done(t))
BY DEF May, MayFinish, Step, Cards, Delta, Sources, Done

\* Once the drain is over the generator is alone.
LEMMA AfterTheDrain ==
    ASSUME TurnInv, phase \notin {"drain", "over"}, phase' \in Phases \ {"drain", "replay"},
           UNCHANGED <<searchVars, queue, cut, cancelled>>
    PROVE  /\ cancelled' \in BOOLEAN /\ Watched' /\ Drained' /\ Found'
           /\ ~cut /\ ~cut' /\ ~cancelled /\ stage = "closed" /\ UNCHANGED outcome
<1>1. SearchTyped /\ Watched /\ Drained /\ Found /\ Told
  BY DEF TurnInv, SearchInv
<1>2. ~cut /\ ~cancelled /\ stage = "closed" /\ UNCHANGED <<stage, outcome, trace>>
  BY <1>1 DEF Told, Watched, searchVars
<1> QED
  BY <1>1, <1>2 DEF SearchTyped, Watched, Drained, Found

\* What the reader holds after an event, field by field.
Fields(w, shown, runs, cards, said, sources, end) ==
    /\ w \in Reader
    /\ w.shown = shown /\ w.running = runs /\ w.cards = cards
    /\ w.said = said /\ w.sources = sources /\ w.end = end

LEMMA ReaderMoves ==
    ASSUME NEW v \in Reader
    PROVE  /\ \A i : Fields(After(v, Step(i, "run")),
                            v.shown, TRUE, v.cards, v.said, v.sources, v.end)
           /\ \A i : Fields(After(v, Step(i, "done")),
                            v.shown + 1, FALSE, v.cards, v.said, v.sources, v.end)
           /\ Fields(After(v, Cards), v.shown, v.running, TRUE, v.said, v.sources, v.end)
           /\ \A t \in Texts : Fields(After(v, Delta(t)),
                            v.shown, v.running, v.cards, v.said \cup {t}, v.sources, v.end)
           /\ Fields(After(v, Sources), v.shown, v.running, v.cards, v.said, TRUE, v.end)
           /\ \A t : Fields(After(v, Done(t)),
                            v.shown, v.running, v.cards, v.said, v.sources, "done")
<1>1. ASSUME NEW i
      PROVE  Fields(After(v, Step(i, "run")), v.shown, TRUE, v.cards, v.said, v.sources, v.end)
  <2>1. After(v, Step(i, "run")) = [v EXCEPT !.running = TRUE, !.shown = v.shown]
    BY EventsDo
  <2> QED
    BY <2>1 DEF Fields, Reader
<1>2. ASSUME NEW i
      PROVE  Fields(After(v, Step(i, "done")), v.shown + 1, FALSE, v.cards, v.said, v.sources, v.end)
  <2>1. After(v, Step(i, "done")) = [v EXCEPT !.running = FALSE, !.shown = v.shown + 1]
    BY EventsDo
  <2> DEFINE n == v.shown + 1
  <2>2. n \in Nat
    BY DEF Reader
  <2> HIDE DEF n
  <2>3. Fields([v EXCEPT !.running = FALSE, !.shown = n],
               n, FALSE, v.cards, v.said, v.sources, v.end)
    BY <2>2 DEF Fields, Reader
  <2> QED
    BY <2>1, <2>3 DEF n
<1>3. Fields(After(v, Cards), v.shown, v.running, TRUE, v.said, v.sources, v.end)
  <2>1. After(v, Cards) = [v EXCEPT !.cards = TRUE]
    BY EventsDo
  <2> QED
    BY <2>1 DEF Fields, Reader
<1>4. ASSUME NEW t \in Texts
      PROVE  Fields(After(v, Delta(t)), v.shown, v.running, v.cards, v.said \cup {t}, v.sources, v.end)
  <2>1. After(v, Delta(t)) = [v EXCEPT !.said = v.said \cup {t}]
    BY EventsDo
  <2>2. v.said \cup {t} \in SUBSET Texts
    BY DEF Reader
  <2> DEFINE said == v.said \cup {t}
  <2> HIDE DEF said
  <2>3. Fields([v EXCEPT !.said = said], v.shown, v.running, v.cards, said, v.sources, v.end)
    BY <2>2 DEF Fields, Reader, said
  <2> QED
    BY <2>1, <2>3 DEF said
<1>5. Fields(After(v, Sources), v.shown, v.running, v.cards, v.said, TRUE, v.end)
  <2>1. After(v, Sources) = [v EXCEPT !.sources = TRUE]
    BY EventsDo
  <2> QED
    BY <2>1 DEF Fields, Reader
<1>6. ASSUME NEW t
      PROVE  Fields(After(v, Done(t)), v.shown, v.running, v.cards, v.said, v.sources, "done")
  <2>1. After(v, Done(t)) = [v EXCEPT !.end = "done"]
    BY EventsDo
  <2> QED
    BY <2>1 DEF Fields, Reader
<1> QED
  BY <1>1, <1>2, <1>3, <1>4, <1>5, <1>6

LEMMA TextsAreEvents ==
    /\ Cards \in Events /\ Sources \in Events
    /\ \A t \in Texts : Delta(t) \in Events /\ Done(t) \in Events
BY DEF Events

LEMMA AnswerWritten ==
    ASSUME TurnInv,
           ShowCards \/ Canned \/ WriterPiece \/ WriterStops \/ Rescue \/ ShowSources \/ Finish
    PROVE  Generated
<1>0. /\ SearchTyped /\ Told /\ Shown /\ told \in Reader
      /\ phase \in {"cards", "canned", "write", "rescue", "sources", "done"}
      /\ phase' \in {"canned", "write", "rescue", "sources", "done", "over"}
      /\ UNCHANGED <<searchVars, queue, cut, cancelled, streamed>>
  BY DEF TurnInv, SearchInv, Told, ShowCards, Canned, WriterPiece, WriterStops, Rescue,
         ShowSources, Finish, writerVars
<1>1. /\ phase' \in Phases /\ cancelled' \in BOOLEAN /\ Watched' /\ Drained' /\ Found'
      /\ ~cut /\ ~cut' /\ ~cancelled /\ stage = "closed" /\ UNCHANGED outcome
      /\ Signals' = Signals /\ told.end = "open"
  BY <1>0, AfterTheDrain, GeneratorLeavesSearch
     DEF Phases, Told, GeneratorStep, EventStep
<1>2. told.cards \in BOOLEAN /\ told.sources \in BOOLEAN /\ told.running \in BOOLEAN
      /\ told.said \in SUBSET Texts
  BY <1>0 DEF Reader
<1>3. Taken = Signals /\ outcome # "broken"
  BY <1>0, <1>1 DEF Shown
<1>4. told'.shown = told.shown /\ told'.running = told.running => Taken' = Signals'
  BY <1>1, <1>3 DEF Taken
<1> SUFFICES (told'.shown = told.shown /\ told'.running = told.running)
             /\ Told' /\ Reads /\ (Taken' = Signals' => Shown')
  BY <1>1, <1>4 DEF Generated
<1> USE <1>0, <1>1, <1>2, <1>3, EventsMay, ReaderMoves, TextsAreEvents
<1>5. CASE ShowCards
  <2>1. phase = "cards" /\ ~told.cards /\ told.said = {} /\ ~told.running /\ ~told.sources
        /\ written = "nothing" /\ written' = written
        /\ phase' = IF outcome = "talk" THEN "canned" ELSE "write"
    BY <1>5 DEF ShowCards, Told, writerVars
  <2>2. outcome \notin Abrupt
    BY <2>1 DEF Told
  <2>3. CASE HasCards
    <3>1. told' = After(told, Cards) /\ outcome # "talk"
      BY <1>5, <2>3 DEF ShowCards, Yield, HasCards
    <3>2. told' \in Reader /\ told'.cards /\ told'.shown = told.shown /\ told'.running = told.running
          /\ told'.said = told.said /\ told'.sources = told.sources /\ told'.end = told.end
      BY <3>1 DEF Fields
    <3>3. Reads
      BY <2>1, <3>1 DEF Reads, MayShowCards
    <3>4. Told'
      BY <2>1, <2>2, <3>1, <3>2 DEF Told, Abrupt
    <3>5. Taken' = Signals' => Shown'
      BY <2>1, <2>2, <3>1, <3>2 DEF Shown, Abrupt
    <3> QED
      BY <3>2, <3>3, <3>4, <3>5
  <2>4. CASE ~HasCards
    <3>1. told' = told /\ outcome # "found"
      BY <1>5, <2>4 DEF ShowCards, HasCards
    <3>2. Told' /\ Reads
      BY <2>1, <2>2, <3>1 DEF Told, Reads, Abrupt
    <3>3. Taken' = Signals' => Shown'
      BY <2>1, <2>2, <3>1 DEF Shown, Abrupt
    <3> QED
      BY <3>1, <3>2, <3>3
  <2> QED
    BY <2>3, <2>4
<1>6. CASE Canned
  <2>1. phase = "canned" /\ phase' = "done" /\ written' = "canned" /\ told' = After(told, Delta("canned"))
        /\ ~told.cards /\ ~told.sources /\ outcome # "found"
    BY <1>6 DEF Canned, Told, Yield, Shown
  <2>2. "canned" \in Texts
    BY DEF Texts
  <2>3. told' \in Reader /\ told'.said = told.said \cup {"canned"}
        /\ told'.shown = told.shown /\ told'.running = told.running
        /\ told'.cards = told.cards /\ told'.sources = told.sources /\ told'.end = told.end
    <3>1. Fields(told', told.shown, told.running, told.cards, told.said \cup {"canned"},
                 told.sources, told.end)
      BY <2>1, <2>2
    <3> QED
      BY <3>1 DEF Fields
  <2>4. Reads
    BY <2>1, <2>2 DEF Reads
  <2>5. Told'
    BY <2>1, <2>3 DEF Told
  <2>6. Taken' = Signals' => Shown'
    BY <2>1, <2>3 DEF Shown
  <2> QED
    BY <2>3, <2>4, <2>5, <2>6
<1>7. CASE WriterPiece
  <2>1. PICK t \in {"blank", "prose"} :
          Yield(Delta(t)) /\ written' = IF written = "prose" THEN written ELSE t
    BY <1>7 DEF WriterPiece
  <2>2. phase = "write" /\ phase' = "write" /\ told' = After(told, Delta(t)) /\ t \in Texts
        /\ ~told.sources
    BY <1>7, <2>1 DEF WriterPiece, Yield, Texts, Told
  <2>3. told' \in Reader /\ told'.said = told.said \cup {t}
        /\ told'.shown = told.shown /\ told'.running = told.running
        /\ told'.cards = told.cards /\ told'.sources = told.sources /\ told'.end = told.end
    <3>1. Fields(told', told.shown, told.running, told.cards, told.said \cup {t},
                 told.sources, told.end)
      BY <2>2
    <3> QED
      BY <3>1 DEF Fields
  <2>4. Reads
    BY <2>2 DEF Reads
  <2>5. Told'
    BY <2>1, <2>2, <2>3 DEF Told
  <2>6. Taken' = Signals' => Shown'
    BY <2>2, <2>3 DEF Shown
  <2> QED
    BY <2>3, <2>4, <2>5, <2>6
<1>8. CASE WriterStops
  <2>1. phase = "write" /\ told' = told /\ written' = written
        /\ phase' = IF written = "prose" THEN "sources" ELSE "rescue"
    BY <1>8 DEF WriterStops, writerVars
  <2>2. Told' /\ Reads
    BY <2>1 DEF Told, Reads
  <2>3. Taken' = Signals' => Shown'
    BY <2>1 DEF Shown
  <2> QED
    BY <2>1, <2>2, <2>3
<1>9. CASE Rescue
  <2>1. phase = "rescue" /\ phase' = "sources" /\ written' = "rescue"
        /\ told' = After(told, Delta("rescue")) /\ "rescue" \in Texts /\ ~told.sources
    BY <1>9 DEF Rescue, Yield, Texts, Told
  <2>2. told' \in Reader /\ told'.said = told.said \cup {"rescue"}
        /\ told'.shown = told.shown /\ told'.running = told.running
        /\ told'.cards = told.cards /\ told'.sources = told.sources /\ told'.end = told.end
    <3>1. Fields(told', told.shown, told.running, told.cards, told.said \cup {"rescue"},
                 told.sources, told.end)
      BY <2>1
    <3> QED
      BY <3>1 DEF Fields
  <2>3. Reads
    BY <2>1 DEF Reads
  <2>4. Told'
    BY <2>1, <2>2 DEF Told
  <2>5. Taken' = Signals' => Shown'
    BY <2>1, <2>2 DEF Shown
  <2> QED
    BY <2>2, <2>3, <2>4, <2>5
<1>10. CASE ShowSources
  <2>1. phase = "sources" /\ phase' = "done" /\ written' = written /\ written \in told.said
        /\ told' = After(told, Sources) /\ ~told.sources /\ ~told.running
    BY <1>10 DEF ShowSources, Yield, Told, writerVars
  <2>2. told' \in Reader /\ told'.sources = TRUE /\ told'.said = told.said
        /\ told'.shown = told.shown /\ told'.running = told.running
        /\ told'.cards = told.cards /\ told'.end = told.end
    BY <2>1 DEF Fields
  <2>3. Reads
    BY <2>1 DEF Reads
  <2>4. Told'
    BY <2>1, <2>2 DEF Told
  <2>5. Taken' = Signals' => Shown'
    BY <2>1, <2>2 DEF Shown
  <2> QED
    BY <2>2, <2>3, <2>4, <2>5
<1>11. CASE Finish
  <2>1. phase = "done" /\ phase' = "over" /\ written' = written /\ written \in told.said \ {"blank"}
        /\ told' = After(told, Done(written)) /\ (told.cards => told.sources) /\ written \in Texts
    BY <1>11 DEF Finish, Yield, Told, writerVars
  <2>2. told' \in Reader /\ told'.end = "done" /\ told'.said = told.said
        /\ told'.shown = told.shown /\ told'.running = told.running
        /\ told'.cards = told.cards /\ told'.sources = told.sources
    <3>1. Fields(told', told.shown, told.running, told.cards, told.said, told.sources, "done")
      BY <2>1
    <3> QED
      BY <3>1 DEF Fields
  <2>3. Reads
    BY <2>1 DEF Reads
  <2>4. Told'
    BY <2>1, <2>2 DEF Told
  <2>5. Taken' = Signals' => Shown'
    BY <2>1, <2>2 DEF Shown
  <2> QED
    BY <2>2, <2>3, <2>4, <2>5
<1> QED
  BY <1>5, <1>6, <1>7, <1>8, <1>9, <1>10, <1>11

LEMMA DrainSteps ==
    ASSUME TurnInv, DrainStep
    PROVE  Generated
<1>0. /\ SearchInv /\ SearchTyped /\ Watched /\ Drained /\ Found /\ Told /\ Shown /\ RanInOrder
      /\ Counted /\ told \in Reader
  BY DEF TurnInv, SearchInv, Told
<1>1. /\ phase = "drain" /\ queue # <<>> /\ Head(queue) # Close /\ told' = After(told, Head(queue))
      /\ queue' = Tail(queue)
      /\ streamed' = IF Head(queue).status = "done" /\ Head(queue).index + 1 > streamed
                     THEN Head(queue).index + 1 ELSE streamed
      /\ UNCHANGED <<searchVars, phase, written, cut, cancelled>>
  BY DEF DrainStep, Yield, writerVars
<1>2. /\ Head(queue) = Signal(Taken) /\ Taken < Signals
      /\ QueueHas(Tail(queue), Taken + 1, Signals, stage) /\ Tail(queue) \in Seq(Messages)
  BY <1>0, <1>1, HeadOfQueue
<1>3. /\ Signals' = Signals /\ stage' = stage /\ outcome' = outcome /\ trace' = trace
  BY <1>1, GeneratorLeavesSearch DEF searchVars, GeneratorStep, EventStep
<1>4. /\ told.shown \in Nat /\ told.running \in BOOLEAN /\ Taken \in Nat /\ Signals \in Nat
      /\ streamed = told.shown /\ Ran \in Nat /\ trace.steps \in Nat /\ trace.calls \in Nat
      /\ told.running => Taken = told.shown + told.shown + 1
      /\ ~told.running => Taken = told.shown + told.shown
  BY <1>0, <1>1, ReaderTyped, RanTyped DEF Drained
<1>5. /\ told.end = "open" /\ ~told.cards /\ told.said = {} /\ ~told.sources /\ written = "nothing"
      /\ ~cut
  BY <1>0, <1>1 DEF Told
\* The tools are few enough for the step to be one of the stream's.
<1>6. told.shown < MaxToolCalls
  <2>1. Ran <= MaxToolCalls /\ trace.steps <= Ran /\ stage \in Stages
    <3>1. Ran \in {trace.steps, trace.steps + 1}
      BY <1>0, <1>4 DEF RanInOrder
    <3> QED
      BY <1>0, <1>4, <3>1, Given DEF Counted, SearchTyped
  <2>2. Taken < MaxToolCalls + MaxToolCalls
    BY <1>2, <1>4, <2>1, Given DEF Signals
  <2> QED
    BY <1>4, <2>2, Given
<1>7. told.shown \in 0..(MaxToolCalls - 1)
  BY <1>4, <1>6, Given
<1> DEFINE Next1 == told' \in Reader /\ Taken' = Taken + 1 /\ streamed' = told'.shown
                    /\ told'.cards = told.cards /\ told'.said = told.said
                    /\ told'.sources = told.sources /\ told'.end = told.end
<1>8. Next1 /\ Reads
  <2>1. CASE ~told.running
    <3> DEFINE e == Step(told.shown, "run")
    <3>1. Head(queue) = e
      BY <1>2, <1>4, <2>1, SignalIs
    <3>2. Fields(told', told.shown, TRUE, told.cards, told.said, told.sources, told.end)
      BY <1>0, <1>1, <3>1, ReaderMoves
    <3>3. streamed' = told.shown
      BY <1>1, <1>4, <3>1 DEF Step
    <3>4. Taken' = Taken + 1
      BY <1>4, <2>1, <3>2 DEF Taken, Fields
    <3>5. e \in Events /\ May(told, e)
      <4>1. e \in Events
        BY <1>7 DEF Events
      <4>2. e.index = told.shown /\ e.status = "run" /\ told.running = FALSE
        BY <1>4, <2>1 DEF Step
      <4>3. MayStep(told, e)
        BY <1>5, <4>2 DEF MayStep
      <4> QED
        BY <1>5, <4>1, <4>3, EventsMay
    <3> HIDE DEF e
    <3>6. Reads
      BY <1>1, <1>5, <3>1, <3>5 DEF Reads
    <3> QED
      BY <3>2, <3>3, <3>4, <3>6 DEF Fields
  <2>2. CASE told.running
    <3> DEFINE e == Step(told.shown, "done")
    <3>1. Head(queue) = e
      BY <1>2, <1>4, <2>2, SignalIs
    <3>2. Fields(told', told.shown + 1, FALSE, told.cards, told.said, told.sources, told.end)
      BY <1>0, <1>1, <3>1, ReaderMoves
    <3>3. streamed' = told.shown + 1
      BY <1>1, <1>4, <3>1 DEF Step
    <3>4. Taken' = Taken + 1
      BY <1>4, <2>2, <3>2 DEF Taken, Fields
    <3>5. e \in Events /\ May(told, e)
      <4>1. e \in Events
        BY <1>7 DEF Events
      <4>3. MayStep(told, e)
        BY <1>5, <2>2 DEF MayStep, Step
      <4> QED
        BY <1>5, <4>1, <4>3, EventsMay
    <3> HIDE DEF e
    <3>6. Reads
      BY <1>1, <1>5, <3>1, <3>5 DEF Reads
    <3> QED
      BY <3>2, <3>3, <3>4, <3>6 DEF Fields
  <2> QED
    BY <1>4, <2>1, <2>2
<1>9. Drained'
  BY <1>1, <1>2, <1>3, <1>8 DEF Drained
<1>10. Told' /\ streamed' \in Nat
  <2>1. streamed' \in Nat
    BY <1>8 DEF Reader
  <2> QED
    BY <1>0, <1>1, <1>3, <1>5, <1>8, <2>1 DEF Told
<1>11. Found' /\ Watched' /\ Shown' /\ phase' \in Phases /\ cancelled' \in BOOLEAN
  BY <1>0, <1>1, <1>3 DEF Found, Watched, Shown, SearchTyped, Suspended
<1> QED
  BY <1>8, <1>9, <1>10, <1>11 DEF Generated

LEMMA DrainCloses ==
    ASSUME TurnInv, DrainClose \/ Replay \/ Disconnect
    PROVE  Generated
<1>0. /\ SearchInv /\ SearchTyped /\ Watched /\ Drained /\ Found /\ Told /\ Shown /\ RanInOrder
      /\ told \in Reader
  BY DEF TurnInv, SearchInv, Told
<1>1. /\ Signals' = Signals /\ stage' = stage /\ outcome' = outcome /\ trace' = trace
      /\ UNCHANGED searchVars
  BY GeneratorLeavesSearch DEF searchVars, GeneratorStep, EventStep
<1>2. /\ told.shown \in Nat /\ told.running \in BOOLEAN /\ Taken \in Nat /\ Signals \in Nat
      /\ Ran \in Nat /\ trace.steps \in Nat
      /\ told.running => Taken = told.shown + told.shown + 1
      /\ ~told.running => Taken = told.shown + told.shown
  BY <1>0, ReaderTyped, RanTyped
<1>3. CASE DrainClose
  <2>1. /\ phase = "drain" /\ queue # <<>> /\ Head(queue) = Close /\ queue' = Tail(queue)
        /\ cut' = (outcome = "broken") /\ UNCHANGED <<streamed, told, written, cancelled>>
        /\ phase' = CASE outcome \in {"refused", "limited"} -> "canned"
                      [] outcome = "broken" -> "over"
                      [] OTHER -> "replay"
    BY <1>3 DEF DrainClose, writerVars
  <2>2. stage = "closed" /\ Taken = Signals /\ Tail(queue) \in Seq(Messages)
    BY <1>0, <2>1, HeadOfQueue
  <2>3. /\ told.end = "open" /\ ~told.cards /\ told.said = {} /\ ~told.sources
        /\ written = "nothing" /\ ~cut /\ ~cancelled /\ outcome # "cancelled"
    BY <1>0, <2>1, <2>2 DEF Told, Found
  <2>4. phase' = "replay" => ~told.running /\ outcome \notin Abrupt
    <3>1. phase' = "replay" => outcome \notin Abrupt
      BY <2>1, <2>3 DEF Abrupt
    <3>2. outcome \notin Abrupt => Ran = trace.steps
      BY <1>0, <2>2 DEF RanInOrder
    <3>3. Ran = trace.steps => ~told.running
      BY <1>2, <2>2 DEF Signals
    <3> QED
      BY <3>1, <3>2, <3>3
  <2>5. phase' \in {"canned", "over", "replay"} /\ (phase' = "over" <=> outcome = "broken")
        /\ (phase' = "canned" => outcome \in {"refused", "limited"})
    BY <2>1
  <2>6. Taken' = Taken
    BY <2>1 DEF Taken
  <2>7. Told'
    BY <1>0, <1>1, <2>1, <2>3, <2>4, <2>5 DEF Told
  <2>8. Shown'
    BY <1>1, <2>1, <2>2, <2>5, <2>6 DEF Shown
  <2>9. Drained' /\ Watched' /\ Found' /\ phase' \in Phases /\ cancelled' \in BOOLEAN
    BY <1>0, <1>1, <2>1, <2>2, <2>3, <2>5 DEF Drained, Watched, Found, Phases, SearchTyped
  <2>10. Reads
    <3>1. CASE outcome = "broken"
      BY <2>1, <2>3, <3>1 DEF Reads
    <3>2. CASE outcome # "broken"
      BY <2>1, <2>3, <3>2 DEF Reads
    <3> QED
      BY <3>1, <3>2
  <2> QED
    BY <2>7, <2>8, <2>9, <2>10 DEF Generated
\* The steps have all been streamed: the replay has none left to send.
<1>4. CASE Replay
  <2>1. phase = "replay" /\ UNCHANGED <<written, cut, cancelled, queue>>
    BY <1>4 DEF Replay, writerVars
  <2>2. ~told.running /\ outcome \notin Abrupt /\ ~cut /\ ~cancelled /\ stage = "closed"
        /\ streamed = told.shown
    BY <1>0, <2>1 DEF Told, Drained, Watched
  <2>3. Taken = Signals /\ Ran = trace.steps
    BY <1>0, <2>1, <2>2 DEF Shown, RanInOrder
  <2>4. told.shown = trace.steps
    BY <1>2, <2>2, <2>3 DEF Signals
  <2>5. phase' = "cards" /\ UNCHANGED <<streamed, told>>
    BY <1>2, <1>4, <2>2, <2>4 DEF Replay
  <2>6. phase' \in Phases \ {"drain", "replay"} /\ UNCHANGED <<searchVars, queue, cut, cancelled>>
    BY <1>1, <2>1, <2>5 DEF Phases
  <2>7. cancelled' \in BOOLEAN /\ Watched' /\ Drained' /\ Found' /\ ~cut'
    BY <2>1, <2>6, AfterTheDrain
  <2>8. Told' /\ Reads
    BY <1>0, <1>1, <2>1, <2>2, <2>5, <2>6 DEF Told, Reads
  <2>9. Shown'
    <3>1. Taken' = Taken
      BY <2>5 DEF Taken
    <3> QED
      BY <1>0, <1>1, <2>1, <2>2, <2>3, <2>5, <3>1 DEF Shown, Abrupt
  <2> QED
    BY <2>6, <2>7, <2>8, <2>9 DEF Generated
<1>5. CASE Disconnect
  <2>1. /\ phase # "over" /\ Suspended /\ phase' = "over" /\ cut' = TRUE
        /\ cancelled' = (phase = "drain")
        /\ UNCHANGED <<queue, streamed, written, told>>
    BY <1>5 DEF Disconnect, writerVars
  <2>2. told.end = "open" /\ ~cut /\ ~cancelled /\ Suspended'
    BY <1>0, <1>1, <2>1 DEF Told, Watched, Suspended
  <2>3. Told' /\ Shown'
    BY <1>0, <1>1, <2>1, <2>2 DEF Told, Shown
  <2>4. Drained' /\ Watched' /\ Found' /\ phase' \in Phases /\ cancelled' \in BOOLEAN
    BY <1>0, <1>1, <2>1, <2>2 DEF Drained, Watched, Found, Phases
  <2>5. Reads
    BY <2>1, <2>2 DEF Reads
  <2> QED
    BY <2>3, <2>4, <2>5 DEF Generated
<1> QED
  BY <1>3, <1>4, <1>5

--------------------------------------------------------------------------------
(* The turn as a whole.                                                        *)

LEMMA TurnStarts == Init => TurnInv
<1> SUFFICES ASSUME Init PROVE TurnInv
  OBVIOUS
<1>1. /\ stage = "opening" /\ picked = <<>> /\ fired = {} /\ trace = NoTrace /\ routed = FALSE
      /\ opening \in Calls \cup {None} /\ elapsed = 0 /\ waiting = 0 /\ queue = <<>>
      /\ outcome = None /\ phase = "drain" /\ streamed = 0 /\ written = "nothing"
      /\ told = Blank /\ cut = FALSE /\ cancelled = FALSE
  BY Given DEF Init
<1>2. trace \in Traces /\ trace.steps = 0 /\ trace.calls = 0 /\ ~trace.rows
  BY <1>1 DEF NoTrace, Traces, Reasons
<1>3. told \in Reader /\ told.shown = 0 /\ told.running = FALSE /\ told.cards = FALSE
      /\ told.said = {} /\ told.sources = FALSE /\ told.end = "open"
  BY <1>1 DEF Blank, Reader, Texts
<1>4. <<>> \in Seq(Calls) /\ <<>> \in Seq(Messages) /\ Len(<<>>) = 0
  BY EmptySeq
<1>5. Ran = 0 /\ IsFiniteSet(fired)
  BY <1>1, FS_EmptySet DEF Ran
<1>6. Signals = 0 /\ Taken = 0
  BY <1>2, <1>3, <1>5 DEF Signals, Taken
<1>7. SearchInv
  BY <1>1, <1>2, <1>4, <1>5 DEF SearchInv, SearchTyped, Watched, Suspended, Stages, Phases
<1>8. InTime
  BY <1>1, <1>4, Given DEF InTime
<1>9. RanInOrder /\ Counted /\ Found
  BY <1>1, <1>2, <1>5, Given DEF RanInOrder, Counted, Found
<1>10. Drained
  <2>1. QueueHas(<<>>, 0, 0, "opening")
    BY <1>4 DEF QueueHas
  <2> QED
    BY <1>1, <1>3, <1>4, <1>6, <2>1 DEF Drained
<1>11. Told /\ Shown
  BY <1>1, <1>3 DEF Told, Shown
<1> QED
  BY <1>7, <1>8, <1>9, <1>10, <1>11 DEF TurnInv

LEMMA TurnHolds == TurnInv /\ [Next]_vars => TurnInv' /\ (Reads \/ UNCHANGED <<told, cut>>)
<1> SUFFICES ASSUME TurnInv, [Next]_vars PROVE TurnInv' /\ (Reads \/ UNCHANGED <<told, cut>>)
  OBVIOUS
<1>0. SearchInv /\ InTime /\ RanInOrder /\ Counted /\ Drained /\ Found /\ Told /\ Shown
      /\ SearchTyped /\ Watched
  BY DEF TurnInv, SearchInv
<1>1. CASE SearchStep
  <2>1. SearchTyped' /\ stage # "closed" /\ UNCHANGED <<opening, cancelled, phase>>
        /\ (cancelled => Suspended')
    BY <1>0, <1>1, SearchTypedHolds
  <2>2. RanInOrder' /\ Counted' /\ Found' /\ Drained' /\ InTime'
    BY <1>0, <1>1, SearchCountsHold, SearchDrained, SearchInTime DEF Found
  <2>3. UNCHANGED <<told, cut, written, streamed>>
    BY <1>1 DEF SearchStep, LoopStep, Answer, Tick, Open, Observe, CallLimit, OutOfTime, AskModel,
       NextCall, RoundHalted, RoundOver, RouterTimedOut, ToolTimedOut, Cancelled, DecideDone,
       DecidePick, RouterDown, RouterLimited, ToolReturns, ToolRefuses, ToolBreaks, Conclude,
       Raises, ToolOver, eventVars, writerVars
  <2>4. (phase = "drain" \/ cancelled) /\ (cancelled => phase = "over" /\ cut)
    BY <1>0, <2>1 DEF Watched, Found
  <2>5. Watched'
    BY <2>1, <2>4 DEF Watched
  <2>6. Told' /\ Shown'
    BY <1>0, <2>1, <2>3, <2>4 DEF Told, Shown
  <2> QED
    BY <2>1, <2>2, <2>3, <2>5, <2>6 DEF TurnInv, SearchInv
<1>2. CASE GeneratorStep
  <2>1. Generated
    BY <1>2, AnswerWritten, DrainSteps, DrainCloses DEF GeneratorStep, EventStep
  <2>2. UNCHANGED searchVars /\ Ran' = Ran
    BY <1>2, GeneratorLeavesSearch
  <2>3. SearchTyped'
    BY <1>0, <2>1, <2>2 DEF SearchTyped, Generated, searchVars
  <2>4. InTime' /\ RanInOrder' /\ Counted'
    <3>1. UNCHANGED <<routed, picked, stage, elapsed, waiting, trace, outcome>>
      BY <2>2 DEF searchVars
    <3>2. InTime'
      BY <1>0, <3>1 DEF InTime
    <3>3. RanInOrder' /\ Counted'
      BY <1>0, <2>2, <3>1 DEF RanInOrder, Counted
    <3> QED
      BY <3>2, <3>3
  <2> QED
    BY <2>1, <2>3, <2>4 DEF TurnInv, SearchInv, Generated
<1>3. CASE UNCHANGED vars
  <2>1. /\ UNCHANGED <<opening, stage, picked, fired, trace, routed, cancelled, phase>>
        /\ UNCHANGED <<elapsed, waiting, outcome, queue, streamed, written, told, cut>>
    BY <1>3 DEF vars, searchVars, eventVars, writerVars
  <2>2. Ran' = Ran /\ Taken' = Taken
    BY <2>1 DEF Ran, Taken
  <2>3. Signals' = Signals
    BY <2>1, <2>2 DEF Signals
  <2>4. SearchInv' /\ InTime'
    BY <1>0, <2>1 DEF SearchInv, SearchTyped, Watched, Suspended, InTime
  <2>5. RanInOrder' /\ Counted' /\ Drained' /\ Found' /\ Told' /\ Shown'
    BY <1>0, <2>1, <2>2, <2>3 DEF RanInOrder, Counted, Drained, Found, Told, Shown
  <2> QED
    BY <2>1, <2>4, <2>5 DEF TurnInv
<1> QED
  BY <1>1, <1>2, <1>3 DEF Next, SearchStep, GeneratorStep

LEMMA TurnInvHolds == Spec => []TurnInv
<1> QED
  BY TurnStarts, TurnHolds, PTL DEF Spec

\* The steps on the screen are the tools that ran, rows found are shown, and the
\* search is over within its limit.
THEOREM TurnShownWithinBudget == Spec => []ShownWithinBudget
<1>1. TurnInv => ShownWithinBudget
  <2> SUFFICES ASSUME TurnInv PROVE ShownWithinBudget
    OBVIOUS
  <2>0. /\ SearchInv /\ SearchTyped /\ InTime /\ RanInOrder /\ Found /\ Told /\ Shown /\ told \in Reader
        /\ Watched
    BY DEF TurnInv, SearchInv, Told
  <2>1. /\ told.shown \in Nat /\ told.running \in BOOLEAN /\ Ran \in Nat /\ trace.steps \in Nat
        /\ told.running => Taken = told.shown + told.shown + 1
        /\ ~told.running => Taken = told.shown + told.shown
    BY <2>0, ReaderTyped, RanTyped
  <2>2. phase \notin {"drain", "replay"} /\ ~cut =>
          View.shown + (IF View.running THEN 1 ELSE 0) = Cardinality(fired \ Unknown)
    <3> SUFFICES ASSUME phase \notin {"drain", "replay"}, ~cut
                 PROVE  View.shown + (IF View.running THEN 1 ELSE 0) = Ran
      BY DEF Ran
    <3>1. View = told /\ Taken = Ran + trace.steps /\ stage = "closed"
      BY <2>0 DEF View, Shown, Signals, Found, Watched
    <3>2. Ran \in {trace.steps, trace.steps + 1}
      BY <2>0, <3>1 DEF RanInOrder
    <3> QED
      BY <2>1, <3>1, <3>2
  <2>3. View.end = "done" /\ trace.rows /\ outcome \notin {"refused", "limited"} => View.cards
    <3> SUFFICES ASSUME View.end = "done", trace.rows, outcome \notin {"refused", "limited"}
                 PROVE  View.cards
      OBVIOUS
    <3>1. ~cut
      BY <2>0 DEF View, Reader
    <3>2. View = told /\ phase = "over" /\ stage = "closed"
      BY <2>0, <3>1 DEF View, Told, Found, Watched
    <3>3. outcome = "found"
      BY <2>0, <3>1, <3>2 DEF Found, Shown, Outcomes
    <3> QED
      BY <2>0, <3>1, <3>2, <3>3 DEF Shown
  <2>4. elapsed <= SearchLimit
    <3> DEFINE B == MaxCallsPerRound * ToolTimeout
               L == Len(picked) * ToolTimeout
    <3>1. Len(picked) \in Nat /\ elapsed \in Nat /\ waiting \in Nat /\ stage \in Stages
      BY <2>0, LenProperties DEF SearchTyped
    <3>2. B \in Nat /\ L \in Nat /\ SearchLimit = TotalBudget - 1 + DecideLimit + B
          /\ TotalBudget \in Nat /\ DecideLimit \in Nat /\ ToolTimeout \in Nat /\ TotalBudget > 0
      BY <2>0, <3>1, Given, RoundFits DEF InTime, SearchLimit
    <3>3. /\ stage = "opening" => elapsed = 0
          /\ stage = "head" => elapsed <= SearchLimit
          /\ stage = "asking" => elapsed < TotalBudget + waiting /\ waiting <= DecideLimit
          /\ stage = "round" => elapsed + L <= SearchLimit
          /\ stage = "tool" => waiting <= ToolTimeout /\ elapsed + L + (ToolTimeout - waiting) <= SearchLimit
          /\ stage = "closed" => elapsed = 0
      BY <2>0 DEF InTime
    <3> HIDE DEF B, L
    <3> QED
      BY <3>1, <3>2, <3>3 DEF Stages
  <2> QED
    BY <2>2, <2>3, <2>4 DEF ShownWithinBudget
<1> QED
  BY <1>1, TurnInvHolds, PTL

\* Nothing is started or gathered after a tool said stop, or after the client left.
THEOREM SearchStops == Spec => SearchIsStopped
<1> DEFINE Still ==
      /\ trace.halt /\ stage # "tool" =>
            /\ stage' # "tool"
            /\ trace' = [trace EXCEPT !.stopped = trace'.stopped]
      /\ phase = "over" /\ stage' # stage => stage' = "closed"
<1>1. TurnInv /\ [Next]_vars => [Still]_vars
  <2> SUFFICES ASSUME TurnInv, Next PROVE Still
    OBVIOUS
  <2>0. SearchInv /\ SearchTyped /\ Watched /\ trace \in Traces
    BY DEF TurnInv, SearchInv, SearchTyped
  <2>1. ASSUME trace' = trace PROVE trace' = [trace EXCEPT !.stopped = trace'.stopped]
    BY <2>0, <2>1 DEF Traces
  <2>2. CASE GeneratorStep
    BY <2>1, <2>2, GeneratorLeavesSearch DEF searchVars
  <2>3. CASE SearchStep
    <3>1. phase = "drain" \/ cancelled
      BY <2>0, <2>3, SearchTypedHolds DEF Watched
    <3>2. ASSUME NEW call \in Calls, Observes(call) PROVE Still
      <4>1. phase # "over"
        BY <2>0, <3>1, <3>2 DEF Observes
      <4>2. trace.halt => stage' # "tool" /\ trace' = trace
        BY <3>2 DEF Observes, Observe, Refuses, NextStage
      <4> QED
        BY <2>1, <4>1, <4>2
    <3>3. CASE Concludes
      <4>1. PICK why \in Reasons : Conclude(trace, why)
        BY <3>3 DEF Concludes
      <4>2. trace' = [trace EXCEPT !.stopped = why] /\ stage' = "closed"
        BY <4>1 DEF Conclude, Ends
      <4>3. trace'.stopped = why
        BY <2>0, <4>2 DEF Traces
      <4> QED
        BY <4>2, <4>3
    <3>4. CASE Errs \/ Cancelled
      BY <2>1, <3>4 DEF Errs, Raises, Ends, Cancelled
    <3>5. CASE Returns
      BY <3>1, <3>5 DEF Returns
    <3>6. CASE Opens \/ AskModel \/ DecidePick \/ RoundOver
      <4>1. ~cancelled
        BY <2>0, <3>6 DEF Opens, Open, AskModel, DecidePick, RoundOver, Awaiting, Watched, Suspended
      <4> QED
        BY <2>1, <3>1, <3>6, <4>1 DEF Opens, Open, AskModel, DecidePick, RoundOver
    <3>7. CASE Tick
      BY <2>1, <3>7 DEF Tick
    <3> QED
      BY <2>0, <2>3, <3>2, <3>3, <3>4, <3>5, <3>6, <3>7, StepKinds
  <2> QED
    BY <2>2, <2>3 DEF Next, SearchStep, GeneratorStep
<1>2. SearchIsStopped <=> [][Still]_vars
  BY DEF SearchIsStopped
<1> QED
  BY <1>1, <1>2, TurnInvHolds, PTL DEF Spec

\* The server implements the abstract stream: each of its events is one that the
\* contract allows after those before, and leaving it is the contract's cut.
THEOREM TurnImplementsStream == Spec => ImplementsStream
<1>1. Init => Stream!Init
  BY DEF Init, Stream!Init, View, Blank, Stream!Blank
<1>2. TurnInv /\ TurnInv' /\ [Next]_vars => [Stream!Next]_View
  <2> SUFFICES ASSUME TurnInv, TurnInv', [Next]_vars PROVE [Stream!Next]_View
    OBVIOUS
  <2>1. CASE UNCHANGED <<told, cut>> \/ (told' = told /\ (cut' <=> cut))
    BY <2>1 DEF View
  <2>2. CASE ~cut /\ ~cut' /\ \E e \in Events : May(told, e) /\ told' = After(told, e)
    <3>1. View = told /\ View' = told'
      BY <2>2 DEF View
    <3>2. PICK e \in Events : May(told, e) /\ told' = After(told, e)
      BY <2>2
    <3>3. e \in Stream!Events
      BY <3>2 DEF Events, Stream!Events, Step, Cards, Delta, Sources, Done, Failure, Texts,
                  Stream!Step, Stream!Cards, Stream!Delta, Stream!Sources, Stream!Done,
                  Stream!Failure, Stream!Texts
    <3>4. Stream!May(View, e)
      BY <3>1, <3>2 DEF May, MayStep, MayShowCards, MayFinish,
                        Stream!May, Stream!MayStep, Stream!MayShowCards, Stream!MayFinish
    <3>5. View' = Stream!After(View, e)
      BY <3>1, <3>2 DEF After, Stream!After
    <3> QED
      BY <3>3, <3>4, <3>5 DEF Stream!Next, Stream!Send
  <2>3. CASE ~cut /\ cut' /\ told' = told /\ told.end = "open"
    <3>1. View = told /\ View' = [told EXCEPT !.end = "cut"]
      BY <2>3 DEF View
    <3> QED
      BY <2>3, <3>1 DEF Stream!Next, Stream!Cut
  <2> QED
    BY <2>1, <2>2, <2>3, TurnHolds DEF Reads
<1> QED
  BY <1>1, <1>2, TurnInvHolds, PTL DEF Spec, ImplementsStream, Stream!Spec

--------------------------------------------------------------------------------
(* The app.                                                                    *)

USE ClientAssumption, StepAssumption

Bodies == [status : {"streaming", "done", "error"}, running : SUBSET Nat,
           finished : SUBSET Nat, heard : SUBSET Nat, cards : BOOLEAN]

Views == [shown : Nat, running : BOOLEAN, cards : BOOLEAN, said : SUBSET Texts,
          sources : BOOLEAN, end : {"open", "cut", "done", "error"}]

\* What a request is made of.
Requested == [turn : Nat, view : Views, wire : Seq(Events), aborted : BOOLEAN,
              pending : BOOLEAN]

\* The store's variables fit each other: a turn has an id of its own, and the one
\* that streams, if any, is the last and the one listened for.
StoreInv(ts, flag, active, given) ==
    /\ ts \in Seq([id : Nat, body : Bodies]) /\ given \in Nat
    /\ \A i \in DOMAIN ts : ts[i].id <= given
    /\ \A i, k \in DOMAIN ts : i # k => ts[i].id # ts[k].id
    /\ flag = (active # None)
    /\ active # None => ts # << >> /\ ts[Len(ts)].id = active
    /\ \A i \in DOMAIN ts :
         (ts[i].body.status = "streaming") <=> (active = ts[i].id /\ i = Len(ts))

ClientInv ==
    /\ StoreInv(turns, streaming, activeId, issued)
    /\ attempts \in Seq(Requested)
    /\ latest # None => latest \in DOMAIN attempts

\* What a step may do to the turns.
Stays ==
    \A i \in DOMAIN turns :
        turns[i].body.status # "streaming" /\ turns' # << >> /\ i \in DOMAIN turns' =>
            turns'[i] = turns[i] \/ turns'[i].body = FreshBody

LEMMA EventKinds ==
    \A e \in Events : \/ e.name = "step" /\ e.index \in Nat /\ e.status \in {"run", "done"}
                      \/ e.name = "cards" \/ e.name = "sources" \/ e.name = "error"
                      \/ e.name \in {"delta", "done"} /\ e.text \in Texts
BY DEF Events, Step, Cards, Sources, Failure, Delta, Done

LEMMA FreshBodyType == FreshBody \in Bodies /\ FreshBody.status = "streaming"
BY DEF FreshBody, Bodies

LEMMA AfterType == ASSUME NEW v \in Views, NEW e \in Events PROVE After(v, e) \in Views
<1>1. CASE e.name = "step"
  <2>1. After(v, e) = [v EXCEPT !.running = (e.status = "run"),
                                !.shown = IF e.status = "done" THEN @ + 1 ELSE @]
    BY <1>1 DEF After
  <2> DEFINE b == (e.status = "run")
             n == IF e.status = "done" THEN v.shown + 1 ELSE v.shown
  <2>2. b \in BOOLEAN /\ n \in Nat
    BY DEF Views
  <2>3. After(v, e) = [v EXCEPT !.running = b, !.shown = n]
    BY <2>1
  <2> HIDE DEF b, n
  <2> QED
    BY <2>2, <2>3 DEF Views
<1>2. CASE e.name = "cards"
  BY <1>2 DEF After, Views
<1>3. CASE e.name = "delta"
  <2>1. e.text \in Texts
    BY <1>3, EventKinds
  <2>2. After(v, e) = [v EXCEPT !.said = @ \cup {e.text}]
    BY <1>3 DEF After
  <2> QED
    BY <2>1, <2>2 DEF Views
<1>4. CASE e.name = "sources"
  BY <1>4 DEF After, Views
<1>5. CASE e.name = "done"
  BY <1>5 DEF After, Views
<1>6. CASE e.name = "error"
  BY <1>6 DEF After, Views
<1> QED
  BY <1>1, <1>2, <1>3, <1>4, <1>5, <1>6, EventKinds

\* The last turn has an id that no other has.
LEMMA LastTurn ==
    ASSUME ClientInv, turns # << >>
    PROVE  /\ Len(turns) \in DOMAIN turns /\ Newest = turns[Len(turns)]
           /\ Newest \in [id : Nat, body : Bodies]
           /\ \A i \in DOMAIN turns : i # Len(turns) => turns[i].id # Newest.id
           /\ Body(Newest.id) = Newest.body
           /\ DOMAIN turns = 1..Len(turns) /\ Len(turns) \in Nat
<1> DEFINE n == Len(turns)
<1>1. /\ turns \in Seq([id : Nat, body : Bodies])
      /\ \A i, k \in DOMAIN turns : i # k => turns[i].id # turns[k].id
  BY DEF ClientInv, StoreInv
<1>2. n \in Nat /\ n # 0 /\ DOMAIN turns = 1..n
  BY <1>1, EmptySeq, LenProperties
<1>3. n \in 1..n
  BY <1>2
<1>4. turns[n] \in [id : Nat, body : Bodies]
  BY <1>1, <1>3, ElementOfSeq
<1>5. \A i \in DOMAIN turns : i # n => turns[i].id # turns[n].id
  BY <1>1, <1>2, <1>3
<1>6. (CHOOSE i \in DOMAIN turns : turns[i].id = turns[n].id) = n
  BY <1>2, <1>3, <1>5
<1> QED
  BY <1>2, <1>3, <1>4, <1>5, <1>6 DEF Newest, Body

\* A new body for the last turn changes nothing else.
LEMMA PatchedTurns ==
    ASSUME ClientInv, turns # << >>, NEW body \in Bodies
    PROVE  LET p == Patched(Newest.id, body)
           IN  /\ p \in Seq([id : Nat, body : Bodies]) /\ p # << >>
               /\ Len(p) = Len(turns) /\ DOMAIN p = DOMAIN turns
               /\ \A i \in DOMAIN turns : /\ p[i].id = turns[i].id
                                          /\ i # Len(turns) => p[i] = turns[i]
               /\ p[Len(turns)].body = body
<1> DEFINE p == Patched(Newest.id, body)
           n == Len(turns)
<1>1. /\ turns \in Seq([id : Nat, body : Bodies]) /\ DOMAIN turns = 1..n /\ n \in Nat /\ n \in 1..n
      /\ \A i \in 1..n : turns[i] \in [id : Nat, body : Bodies]
  BY LastTurn, ElementOfSeq DEF ClientInv, StoreInv
<1>2. /\ DOMAIN p = 1..n
      /\ \A i \in 1..n : p[i] = IF turns[i].id = Newest.id
                                THEN [turns[i] EXCEPT !.body = body] ELSE turns[i]
  BY <1>1 DEF Patched
<1>3. \A i \in 1..n : i # n => p[i] = turns[i]
  BY <1>1, <1>2, LastTurn
<1>4. p[n] = [turns[n] EXCEPT !.body = body]
  BY <1>1, <1>2, LastTurn
<1>5. p[n].id = turns[n].id /\ p[n].body = body /\ p[n] \in [id : Nat, body : Bodies]
  BY <1>1, <1>4
<1>6. \A i \in 1..n : p[i] \in [id : Nat, body : Bodies] /\ p[i].id = turns[i].id
  BY <1>1, <1>3, <1>5
<1>7. p = [i \in 1..n |-> p[i]]
  BY <1>1 DEF Patched
<1>8. p \in Seq([id : Nat, body : Bodies])
  BY <1>1, <1>6, <1>7
<1>9. Len(p) = n
  BY <1>1, <1>2, <1>8, LenProperties
<1>10. p # << >>
  BY <1>1, <1>9, EmptySeq
<1> QED
  BY <1>1, <1>2, <1>3, <1>5, <1>6, <1>8, <1>9, <1>10

\* While a turn is listened for it is the last one, and its body is its own.
LEMMA ActiveTurn ==
    ASSUME ClientInv, activeId # None
    PROVE  /\ turns # << >> /\ Newest.id = activeId
           /\ Body(activeId) = Newest.body /\ Body(activeId) \in Bodies
           /\ Newest.body.status = "streaming"
<1>1. turns # << >> /\ Newest.id = activeId
  BY DEF ClientInv, StoreInv, Newest
<1>2. Newest.body.status = "streaming"
  BY <1>1, LastTurn DEF ClientInv, StoreInv
<1> QED
  BY <1>1, <1>2, LastTurn

\* A handler that only changes what a streaming turn shows.
LEMMA ListenHolds ==
    ASSUME ClientInv, NEW id, NEW body, Hear(id, body),
           activeId = id /\ activeId # None => body \in Bodies /\ body.status = "streaming",
           id # None, UNCHANGED <<streaming, activeId, issued>>
    PROVE  StoreInv(turns', streaming', activeId', issued') /\ Stays
<1>1. CASE activeId # id
  BY <1>1 DEF Hear, ClientInv, Stays
<1>2. CASE activeId = id
  <2> DEFINE p == Patched(Newest.id, body)
  <2>1. /\ turns # << >> /\ Newest.id = activeId /\ turns' = p
        /\ body \in Bodies /\ body.status = "streaming" /\ Newest.body.status = "streaming"
    BY <1>2, ActiveTurn DEF Hear
  <2>2. /\ p \in Seq([id : Nat, body : Bodies]) /\ p # << >>
        /\ Len(p) = Len(turns) /\ DOMAIN p = DOMAIN turns
        /\ \A i \in DOMAIN turns : /\ p[i].id = turns[i].id
                                   /\ i # Len(turns) => p[i] = turns[i]
        /\ p[Len(turns)].body = body
    BY <2>1, PatchedTurns
  <2>3. Newest = turns[Len(turns)] /\ Len(turns) \in DOMAIN turns
    BY <2>1, LastTurn
  <2> HIDE DEF p
  <2>4. /\ issued \in Nat
        /\ \A i \in DOMAIN turns : turns[i].id <= issued
        /\ \A i, k \in DOMAIN turns : i # k => turns[i].id # turns[k].id
        /\ \A i \in DOMAIN turns :
             (turns[i].body.status = "streaming") <=> (activeId = turns[i].id /\ i = Len(turns))
        /\ streaming = (activeId # None)
    BY DEF ClientInv, StoreInv
  <2>5. /\ \A i \in DOMAIN p : p[i].id <= issued
        /\ \A i, k \in DOMAIN p : i # k => p[i].id # p[k].id
    BY <2>2, <2>4
  <2>6. \A i \in DOMAIN p :
          (p[i].body.status = "streaming") <=> (activeId = p[i].id /\ i = Len(p))
    BY <2>1, <2>2, <2>3, <2>4
  <2>7. p[Len(p)].id = activeId
    BY <2>1, <2>2, <2>3
  <2>8. StoreInv(turns', streaming', activeId', issued')
    BY <2>1, <2>2, <2>4, <2>5, <2>6, <2>7 DEF StoreInv
  <2>9. Stays
    BY <2>1, <2>2, <2>3 DEF Stays
  <2> QED
    BY <2>8, <2>9
<1> QED
  BY <1>1, <1>2

\* finish and fail: the turn that ends is no longer listened for.
LEMMA SettleHolds ==
    ASSUME ClientInv, NEW id, NEW body, Settle(id, body),
           activeId = id /\ activeId # None => body \in Bodies /\ body.status # "streaming",
           id # None, UNCHANGED issued
    PROVE  StoreInv(turns', streaming', activeId', issued') /\ Stays
<1>1. CASE activeId # id
  BY <1>1 DEF Settle, Hear, ClientInv, Stays
<1>2. CASE activeId = id
  <2> DEFINE p == Patched(Newest.id, body)
  <2>1. /\ turns # << >> /\ Newest.id = activeId /\ turns' = p
        /\ body \in Bodies /\ body.status # "streaming" /\ Newest.body.status = "streaming"
        /\ streaming' = FALSE /\ activeId' = None
    BY <1>2, ActiveTurn DEF Settle, Hear
  <2>2. /\ p \in Seq([id : Nat, body : Bodies]) /\ p # << >>
        /\ Len(p) = Len(turns) /\ DOMAIN p = DOMAIN turns
        /\ \A i \in DOMAIN turns : /\ p[i].id = turns[i].id
                                   /\ i # Len(turns) => p[i] = turns[i]
        /\ p[Len(turns)].body = body
    BY <2>1, PatchedTurns
  <2>3. Newest = turns[Len(turns)] /\ Len(turns) \in DOMAIN turns
    BY <2>1, LastTurn
  <2> HIDE DEF p
  <2>4. /\ issued \in Nat
        /\ \A i \in DOMAIN turns : turns[i].id <= issued
        /\ \A i, k \in DOMAIN turns : i # k => turns[i].id # turns[k].id
        /\ \A i \in DOMAIN turns :
             (turns[i].body.status = "streaming") <=> (activeId = turns[i].id /\ i = Len(turns))
        /\ streaming = (activeId # None)
    BY DEF ClientInv, StoreInv
  <2>5. /\ \A i \in DOMAIN p : p[i].id <= issued
        /\ \A i, k \in DOMAIN p : i # k => p[i].id # p[k].id
    BY <2>2, <2>4
  <2>6. \A i \in DOMAIN p : p[i].body.status # "streaming"
    BY <2>1, <2>2, <2>3, <2>4
  <2>7. \A i \in DOMAIN p : p[i].id \in Nat
    <3>1. \A i \in DOMAIN p : p[i] \in [id : Nat, body : Bodies]
      BY <2>2, ElementOfSeq, LenProperties
    <3> QED
      BY <3>1
  <2>8. \A i \in DOMAIN p :
          (p[i].body.status = "streaming") <=> (None = p[i].id /\ i = Len(p))
    BY <2>6, <2>7
  <2>9. StoreInv(p, FALSE, None, issued)
    BY <2>2, <2>4, <2>5, <2>8 DEF StoreInv
  <2>10. Stays
    BY <2>1, <2>2, <2>3 DEF Stays
  <2> QED
    BY <2>1, <2>9, <2>10
<1> QED
  BY <1>1, <1>2

-----------------------------------------------------------------------------
(* The invariant, and what each step does to it.                            *)

LEMMA InitHolds == ClientInit => ClientInv
<1> SUFFICES ASSUME ClientInit PROVE ClientInv
  OBVIOUS
<1>1. /\ turns = << >> /\ streaming = FALSE /\ activeId = None /\ issued = 0
      /\ attempts = << >> /\ latest = None
  BY DEF ClientInit
<1>2. DOMAIN turns = {} /\ turns \in Seq([id : Nat, body : Bodies]) /\ attempts \in Seq(Requested)
  BY <1>1, EmptySeq
<1>3. StoreInv(turns, streaming, activeId, issued)
  BY <1>1, <1>2 DEF StoreInv
<1> QED
  BY <1>1, <1>2, <1>3 DEF ClientInv

\* A request's turn is a turn id, never the mark of no turn.
LEMMA RequestOf ==
    ASSUME ClientInv, NEW a \in Attempts
    PROVE  attempts[a] \in Requested /\ attempts[a].turn # None
<1>1. attempts[a] \in Requested
  BY ElementOfSeq, LenProperties DEF ClientInv, Attempts
<1> QED
  BY <1>1 DEF Requested

\* The bodies the handlers write, while the turn streams and when it ends.
LEMMA BodiesWritten ==
    ASSUME NEW b \in Bodies, NEW a \in Nat
    PROVE  /\ \A e \in Events : e.name = "step" =>
                 Upserted(b, e) \in Bodies /\ Upserted(b, e).status = b.status
           /\ LET h == [b EXCEPT !.heard = @ \cup {a}]
              IN  h \in Bodies /\ h.status = b.status
           /\ LET c == [b EXCEPT !.cards = TRUE]
              IN  c \in Bodies /\ c.status = b.status
           /\ Finished(b, a) \in Bodies /\ Finished(b, a).status = "done"
           /\ LET f == [b EXCEPT !.status = "error"]
              IN  f \in Bodies /\ f.status = "error"
<1>1. \A e \in Events : e.name = "step" =>
         Upserted(b, e) \in Bodies /\ Upserted(b, e).status = b.status
  <2> SUFFICES ASSUME NEW e \in Events, e.name = "step"
               PROVE  Upserted(b, e) \in Bodies /\ Upserted(b, e).status = b.status
    OBVIOUS
  <2>1. e.index \in Nat
    BY EventKinds
  <2>2. CASE e.status = "run"
    BY <2>1, <2>2 DEF Upserted, Bodies
  <2>3. CASE e.status # "run"
    BY <2>1, <2>3 DEF Upserted, Bodies
  <2> QED
    BY <2>2, <2>3
<1>2. Finished(b, a) \in Bodies /\ Finished(b, a).status = "done"
  BY DEF Finished, Bodies
<1> QED
  BY <1>1, <1>2 DEF Bodies

\* A turn fails: by an error event, or when its request ends without an answer.
LEMMA FailHolds ==
    ASSUME ClientInv, NEW id \in Nat, Fail(id), UNCHANGED issued
    PROVE  StoreInv(turns', streaming', activeId', issued') /\ Stays
<1> DEFINE f == [Body(id) EXCEPT !.status = "error"]
<1>1. activeId = id /\ activeId # None => f \in Bodies /\ f.status # "streaming"
  BY ActiveTurn, BodiesWritten
<1>2. Settle(id, f)
  BY DEF Fail
<1> HIDE DEF f
<1> QED
  BY <1>1, <1>2, SettleHolds

\* Every event of a request, for the turn it was sent for.
LEMMA HandleHolds ==
    ASSUME ClientInv, NEW a \in Attempts, NEW e \in Events, Handle(a, e), UNCHANGED issued
    PROVE  StoreInv(turns', streaming', activeId', issued') /\ Stays
<1> DEFINE id == attempts[a].turn
           b == Body(id)
<1>1. a \in Nat /\ id \in Nat /\ id # None
  BY RequestOf, LenProperties DEF Requested, Attempts, ClientInv
<1>2. activeId = id /\ activeId # None => b \in Bodies /\ b.status = "streaming"
  BY ActiveTurn
<1>3. CASE e.name = "step"
  <2>1. Hear(id, Upserted(b, e)) /\ UNCHANGED <<streaming, activeId>>
    BY <1>3 DEF Handle
  <2>2. activeId = id /\ activeId # None =>
           Upserted(b, e) \in Bodies /\ Upserted(b, e).status = "streaming"
    BY <1>1, <1>2, <1>3, BodiesWritten
  <2> HIDE DEF id, b
  <2> QED
    BY <1>1, <2>1, <2>2, ListenHolds
<1>4. CASE e.name = "delta"
  <2> DEFINE h == [b EXCEPT !.heard = @ \cup {a}]
  <2>1. Hear(id, h) /\ UNCHANGED <<streaming, activeId>>
    BY <1>4 DEF Handle
  <2>2. activeId = id /\ activeId # None => h \in Bodies /\ h.status = "streaming"
    BY <1>1, <1>2, BodiesWritten
  <2> HIDE DEF id, b, h
  <2> QED
    BY <1>1, <2>1, <2>2, ListenHolds
<1>5. CASE e.name = "cards"
  <2> DEFINE c == [b EXCEPT !.cards = TRUE]
  <2>1. Hear(id, c) /\ UNCHANGED <<streaming, activeId>>
    BY <1>5 DEF Handle
  <2>2. activeId = id /\ activeId # None => c \in Bodies /\ c.status = "streaming"
    BY <1>1, <1>2, BodiesWritten
  <2> HIDE DEF id, b, c
  <2> QED
    BY <1>1, <2>1, <2>2, ListenHolds
<1>6. CASE e.name = "sources"
  <2>1. Hear(id, b) /\ UNCHANGED <<streaming, activeId>>
    BY <1>6 DEF Handle
  <2> HIDE DEF id, b
  <2> QED
    BY <1>1, <1>2, <2>1, ListenHolds
<1>7. CASE e.name = "done"
  <2>1. Settle(id, Finished(b, a))
    BY <1>7 DEF Handle
  <2>2. activeId = id /\ activeId # None =>
           Finished(b, a) \in Bodies /\ Finished(b, a).status # "streaming"
    BY <1>1, <1>2, BodiesWritten
  <2> HIDE DEF id, b
  <2> QED
    BY <1>1, <2>1, <2>2, SettleHolds
<1>8. CASE e.name = "error"
  <2>1. Fail(id)
    BY <1>8 DEF Handle
  <2> HIDE DEF id, b
  <2> QED
    BY <1>1, <2>1, FailHolds
<1> QED
  BY <1>3, <1>4, <1>5, <1>6, <1>7, <1>8, EventKinds

\* A question adds a turn with the next id, which is the one listened for.
LEMMA AskHolds ==
    ASSUME ClientInv, Ask
    PROVE  StoreInv(turns', streaming', activeId', issued') /\ Stays
<1> DEFINE n == Len(turns)
           new == Turn(issued + 1)
           p == Append(turns, new)
<1>1. /\ turns' = p /\ streaming' = TRUE /\ activeId' = issued + 1 /\ issued' = issued + 1
      /\ ~streaming
  BY DEF Ask
<1>2. /\ turns \in Seq([id : Nat, body : Bodies]) /\ issued \in Nat
      /\ \A i \in DOMAIN turns : turns[i].id <= issued
      /\ \A i, k \in DOMAIN turns : i # k => turns[i].id # turns[k].id
      /\ \A i \in DOMAIN turns : turns[i].id \in Nat /\ turns[i].body.status # "streaming"
  <2>1. activeId = None
    BY <1>1 DEF ClientInv, StoreInv
  <2>2. /\ turns \in Seq([id : Nat, body : Bodies]) /\ issued \in Nat
        /\ \A i \in DOMAIN turns : turns[i].id <= issued
        /\ \A i, k \in DOMAIN turns : i # k => turns[i].id # turns[k].id
        /\ \A i \in DOMAIN turns :
             (turns[i].body.status = "streaming") <=> (activeId = turns[i].id /\ i = Len(turns))
    BY DEF ClientInv, StoreInv
  <2>3. \A i \in DOMAIN turns : turns[i] \in [id : Nat, body : Bodies]
    BY <2>2, ElementOfSeq, LenProperties
  <2>4. \A i \in DOMAIN turns : turns[i].id \in Nat
    BY <2>3
  <2> QED
    BY <2>1, <2>2, <2>4
<1>3. /\ new \in [id : Nat, body : Bodies] /\ new.id = issued + 1 /\ new.body.status = "streaming"
  BY <1>2, FreshBodyType DEF Turn
<1> HIDE DEF new
<1>4. /\ p \in Seq([id : Nat, body : Bodies]) /\ Len(p) = n + 1 /\ n \in Nat
      /\ DOMAIN turns = 1..n /\ DOMAIN p = 1..(n + 1)
      /\ \A i \in 1..n : p[i] = turns[i]
      /\ p[n + 1] = new
  BY <1>2, <1>3, AppendProperties, LenProperties
<1>5. p # << >>
  BY <1>4, EmptySeq
<1> HIDE DEF p, n
<1>6. \A i \in 1..n : p[i] = turns[i] /\ turns[i].id \in Nat /\ turns[i].id <= issued
  BY <1>2, <1>4
<1>7. \A i \in DOMAIN p : p[i].id <= issued + 1
  BY <1>2, <1>3, <1>4, <1>6
<1>8. \A i, k \in DOMAIN p : i # k => p[i].id # p[k].id
  <2> SUFFICES ASSUME NEW i \in 1..(n + 1), NEW k \in 1..(n + 1), i # k
               PROVE  p[i].id # p[k].id
    BY <1>4
  <2>1. CASE i \in 1..n /\ k \in 1..n
    BY <1>2, <1>4, <2>1
  <2>2. CASE i = n + 1 /\ k \in 1..n
    BY <1>2, <1>3, <1>4, <1>6, <2>2
  <2>3. CASE k = n + 1 /\ i \in 1..n
    BY <1>2, <1>3, <1>4, <1>6, <2>3
  <2> QED
    BY <1>4, <2>1, <2>2, <2>3
<1>9. \A i \in DOMAIN p :
        (p[i].body.status = "streaming") <=> (issued + 1 = p[i].id /\ i = Len(p))
  <2>1. \A i \in 1..n : i # n + 1 /\ i \in DOMAIN turns
    BY <1>4
  <2>2. \A i \in 1..n : p[i] = turns[i] /\ turns[i].body.status # "streaming"
    BY <1>2, <1>4, <2>1
  <2>3. \A i \in DOMAIN p : i \in 1..n \/ i = n + 1
    BY <1>4
  <2> QED
    BY <1>3, <1>4, <2>1, <2>2, <2>3
<1>10. StoreInv(p, TRUE, issued + 1, issued + 1)
  BY <1>2, <1>3, <1>4, <1>5, <1>7, <1>8, <1>9 DEF StoreInv
<1>11. Stays
  BY <1>1, <1>4 DEF Stays
<1> QED
  BY <1>1, <1>10, <1>11

\* A retry begins the failed turn anew, and is listened for under the same id.
LEMMA RetryHolds ==
    ASSUME ClientInv, Retry
    PROVE  StoreInv(turns', streaming', activeId', issued') /\ Stays
<1> DEFINE p == Patched(Newest.id, FreshBody)
           n == Len(turns)
<1>1. /\ turns # << >> /\ turns' = p /\ streaming' = TRUE /\ activeId' = Newest.id
      /\ issued' = issued /\ ~streaming
  BY DEF Retry
<1>2. /\ p \in Seq([id : Nat, body : Bodies]) /\ p # << >>
      /\ Len(p) = n /\ DOMAIN p = DOMAIN turns
      /\ \A i \in DOMAIN turns : /\ p[i].id = turns[i].id
                                 /\ i # n => p[i] = turns[i]
      /\ p[n].body = FreshBody
  BY <1>1, PatchedTurns, FreshBodyType
<1>3. /\ n \in DOMAIN turns /\ Newest = turns[n] /\ Newest \in [id : Nat, body : Bodies]
      /\ \A i \in DOMAIN turns : i # n => turns[i].id # Newest.id
  BY <1>1, LastTurn
<1> HIDE DEF p, n
<1>4. /\ issued \in Nat
      /\ \A i \in DOMAIN turns : turns[i].id <= issued
      /\ \A i, k \in DOMAIN turns : i # k => turns[i].id # turns[k].id
      /\ \A i \in DOMAIN turns : i # n => turns[i].body.status # "streaming"
  BY DEF ClientInv, StoreInv, n
<1>5. /\ \A i \in DOMAIN p : p[i].id <= issued
      /\ \A i, k \in DOMAIN p : i # k => p[i].id # p[k].id
  BY <1>2, <1>4
<1>6. \A i \in DOMAIN p :
        (p[i].body.status = "streaming") <=> (Newest.id = p[i].id /\ i = Len(p))
  <2>1. \A i \in DOMAIN p : i # n => p[i].body.status # "streaming"
    BY <1>2, <1>4
  <2> QED
    BY <1>2, <1>3, <2>1, FreshBodyType
<1>7. Newest.id # None
  BY <1>3
<1>8. StoreInv(p, TRUE, Newest.id, issued)
  BY <1>2, <1>3, <1>4, <1>5, <1>6, <1>7 DEF StoreInv
<1>9. Stays
  BY <1>1, <1>2, <1>3 DEF Stays
<1> QED
  BY <1>1, <1>8, <1>9

\* A new chat forgets the turns, not the ids they had.
LEMMA NewChatHolds ==
    ASSUME ClientInv, NewChat
    PROVE  StoreInv(turns', streaming', activeId', issued') /\ Stays
<1>1. turns' = << >> /\ streaming' = FALSE /\ activeId' = None /\ issued' = issued
  BY DEF NewChat
<1>2. issued \in Nat /\ << >> \in Seq([id : Nat, body : Bodies]) /\ DOMAIN << >> = {}
  BY EmptySeq DEF ClientInv, StoreInv
<1>3. StoreInv(<< >>, FALSE, None, issued)
  BY <1>2 DEF StoreInv
<1> QED
  BY <1>1, <1>3 DEF Stays

LEMMA TurnsHold ==
    ASSUME ClientInv, [ClientNext]_clientVars
    PROVE  StoreInv(turns', streaming', activeId', issued') /\ [Stays]_clientVars
<1>1. CASE UNCHANGED clientVars
  BY <1>1 DEF clientVars, storeVars, ClientInv
<1>2. CASE Ask
  BY <1>2, AskHolds
<1>3. CASE Retry
  BY <1>3, RetryHolds
<1>4. CASE NewChat
  BY <1>4, NewChatHolds
<1>5. ASSUME NEW a \in Attempts, ServerSends(a) \/ Breaks(a) \/ Client(a)
      PROVE  StoreInv(turns', streaming', activeId', issued') /\ Stays
  <2>1. CASE ServerSends(a) \/ Breaks(a) \/ Aborts(a)
    BY <2>1 DEF ServerSends, Breaks, Aborts, storeVars, ClientInv, Stays
  <2>2. CASE Receive(a)
    <3>1. attempts[a].wire \in Seq(Events) /\ attempts[a].wire # << >>
      BY <2>2, RequestOf DEF Receive, Requested
    <3>2. Head(attempts[a].wire) \in Events
      BY <3>1, HeadTailProperties
    <3>3. Handle(a, Head(attempts[a].wire)) /\ UNCHANGED issued
      BY <2>2 DEF Receive
    <3> QED
      BY <3>2, <3>3, HandleHolds
  <2>3. CASE Resolves(a)
    <3>1. CASE UNCHANGED storeVars
      BY <3>1 DEF storeVars, ClientInv, Stays
    <3>2. CASE Fail(attempts[a].turn) /\ UNCHANGED issued
      <4>1. attempts[a].turn \in Nat
        BY RequestOf DEF Requested
      <4> QED
        BY <3>2, <4>1, FailHolds
    <3> QED
      BY <2>3, <3>1, <3>2 DEF Resolves
  <2>4. CASE Rejects(a)
    <3>1. attempts[a].turn \in Nat
      BY RequestOf DEF Requested
    <3>2. Fail(attempts[a].turn) /\ UNCHANGED issued
      BY <2>4 DEF Rejects
    <3> QED
      BY <3>1, <3>2, FailHolds
  <2> QED
    BY <1>5, <2>1, <2>2, <2>3, <2>4 DEF Client
<1> QED
  BY <1>1, <1>2, <1>3, <1>4, <1>5 DEF ClientNext

\* What is said of one request leaves the others as they are.
LEMMA OneChanged ==
    ASSUME NEW s \in Seq(Requested), NEW a \in DOMAIN s, NEW r \in Requested
    PROVE  LET t == [s EXCEPT ![a] = r]
           IN  t \in Seq(Requested) /\ DOMAIN t = DOMAIN s
OBVIOUS

\* A new request is added after the others.
LEMMA RunHolds ==
    ASSUME ClientInv, NEW id \in Nat, Run(id)
    PROVE  attempts' \in Seq(Requested) /\ latest' \in DOMAIN attempts'
<1>1. attempts \in Seq(Requested) /\ Attempt(id) \in Requested
  <2>1. Blank \in Views
    BY DEF Blank, Views
  <2>2. << >> \in Seq(Events)
    BY EmptySeq
  <2> QED
    BY <2>1, <2>2 DEF ClientInv, Attempt, Requested
<1>2. attempts' = Append(attempts, Attempt(id)) /\ latest' = Len(attempts) + 1
  BY DEF Run
<1> HIDE DEF Run, Attempt
<1>3. /\ Append(attempts, Attempt(id)) \in Seq(Requested)
      /\ Len(Append(attempts, Attempt(id))) = Len(attempts) + 1 /\ Len(attempts) \in Nat
      /\ DOMAIN Append(attempts, Attempt(id)) = 1..(Len(attempts) + 1)
  BY <1>1, AppendProperties, LenProperties
<1> QED
  BY <1>2, <1>3

LEMMA AttemptsHold ==
    ASSUME ClientInv, [ClientNext]_clientVars
    PROVE  attempts' \in Seq(Requested) /\ (latest' # None => latest' \in DOMAIN attempts')
<1>0. attempts \in Seq(Requested) /\ (latest # None => latest \in DOMAIN attempts)
  BY DEF ClientInv
<1>1. CASE UNCHANGED clientVars
  BY <1>0, <1>1 DEF clientVars
<1>2. CASE Ask
  <2>1. issued + 1 \in Nat /\ Run(issued + 1)
    BY <1>2 DEF Ask, ClientInv, StoreInv
  <2> QED
    BY <2>1, RunHolds
<1>3. CASE Retry
  <2>1. turns # << >> /\ Run(Newest.id)
    BY <1>3 DEF Retry
  <2>2. Newest.id \in Nat
    BY <2>1, LastTurn
  <2> QED
    BY <2>1, <2>2, RunHolds
<1>4. CASE NewChat
  <2>1. CASE latest = None
    BY <1>0, <1>4, <2>1 DEF NewChat
  <2>2. CASE latest # None
    <3> DEFINE r == [attempts[latest] EXCEPT !.aborted = TRUE]
    <3>1. attempts[latest] \in Requested
      BY <1>0, <2>2, ElementOfSeq, LenProperties
    <3>2. r \in Requested
      BY <3>1 DEF Requested
    <3>3. attempts' = [attempts EXCEPT ![latest] = r] /\ latest' = None
      BY <1>4, <2>2 DEF NewChat
    <3> HIDE DEF r
    <3> QED
      BY <1>0, <2>2, <3>2, <3>3, OneChanged
  <2> QED
    BY <2>1, <2>2
<1>5. ASSUME NEW a \in Attempts, ServerSends(a) \/ Breaks(a) \/ Client(a)
      PROVE  attempts' \in Seq(Requested) /\ (latest' # None => latest' \in DOMAIN attempts')
  <2>1. \E r \in Requested : attempts' = [attempts EXCEPT ![a] = r]
    <3>1. attempts[a] \in Requested
      BY RequestOf
    <3>2. CASE ServerSends(a)
      <4>1. PICK e \in Sent : attempts' = [attempts EXCEPT ![a].view = After(@, e),
                                                           ![a].wire = Append(@, e)]
        BY <3>2 DEF ServerSends
      <4> DEFINE v == After(attempts[a].view, e)
                 w == Append(attempts[a].wire, e)
                 r == [attempts[a] EXCEPT !.view = v, !.wire = w]
      <4>2. e \in Events
        BY DEF Sent
      <4>3. attempts[a].view \in Views /\ attempts[a].wire \in Seq(Events)
        BY <3>1 DEF Requested
      <4>4. v \in Views
        BY <4>2, <4>3, AfterType
      <4>5. w \in Seq(Events)
        BY <4>2, <4>3, AppendProperties
      <4>6. attempts' = [attempts EXCEPT ![a] = r]
        BY <4>1
      <4> HIDE DEF v, w
      <4>7. r \in Requested
        BY <3>1, <4>4, <4>5 DEF Requested
      <4> QED
        BY <4>6, <4>7
    <3>3. CASE Breaks(a)
      <4> DEFINE v == [attempts[a].view EXCEPT !.end = "cut"]
                 r == [attempts[a] EXCEPT !.view = v]
      <4>1. attempts' = [attempts EXCEPT ![a] = r]
        BY <3>3 DEF Breaks
      <4>2. attempts[a].view \in Views
        BY <3>1 DEF Requested
      <4>3. v \in Views
        BY <4>2 DEF Views
      <4> HIDE DEF v
      <4>4. r \in Requested
        BY <3>1, <4>3 DEF Requested
      <4> QED
        BY <4>1, <4>4
    <3>4. CASE Receive(a)
      <4> DEFINE w == Tail(attempts[a].wire)
                 r == [attempts[a] EXCEPT !.wire = w]
      <4>1. attempts' = [attempts EXCEPT ![a] = r] /\ attempts[a].wire # << >>
        BY <3>4 DEF Receive
      <4>2. w \in Seq(Events)
        BY <3>1, <4>1, HeadTailProperties DEF Requested
      <4> HIDE DEF w
      <4>3. r \in Requested
        BY <3>1, <4>2 DEF Requested
      <4> QED
        BY <4>1, <4>3
    <3>5. CASE Aborts(a)
      <4> DEFINE r == [attempts[a] EXCEPT !.pending = FALSE, !.wire = << >>]
      <4>1. attempts' = [attempts EXCEPT ![a] = r]
        BY <3>5 DEF Aborts
      <4>2. r \in Requested
        BY <3>1, EmptySeq DEF Requested
      <4> QED
        BY <4>1, <4>2
    <3>6. CASE Resolves(a) \/ Rejects(a)
      <4> DEFINE r == [attempts[a] EXCEPT !.pending = FALSE]
      <4>1. attempts' = [attempts EXCEPT ![a] = r]
        BY <3>6 DEF Resolves, Rejects
      <4>2. r \in Requested
        BY <3>1 DEF Requested
      <4> QED
        BY <4>1, <4>2
    <3> QED
      BY <1>5, <3>2, <3>3, <3>4, <3>5, <3>6 DEF Client
  <2>2. latest' = latest
    BY <1>5 DEF ServerSends, Breaks, Client, Receive, Aborts, Resolves, Rejects
  <2> QED
    BY <1>0, <2>1, <2>2, OneChanged DEF Attempts
<1> QED
  BY <1>1, <1>2, <1>3, <1>4, <1>5 DEF ClientNext

\* A turn that has ended stays as it is until it is retried or the chat is begun
\* anew: an event, or the end of a request, only reaches the last, streaming turn.
THEOREM EndedTurnsStay == ClientSpec => EndedStays
<1>1. ClientInv /\ [ClientNext]_clientVars => ClientInv' /\ [Stays]_clientVars
  <2> SUFFICES ASSUME ClientInv, [ClientNext]_clientVars PROVE ClientInv' /\ [Stays]_clientVars
    OBVIOUS
  <2> QED
    BY TurnsHold, AttemptsHold DEF ClientInv
<1>2. EndedStays <=> [][Stays]_clientVars
  BY DEF EndedStays, Stays
<1> QED
  BY <1>1, <1>2, InitHolds, PTL DEF ClientSpec

-----------------------------------------------------------------------------
(* Turns and requests are never mixed up, as long as the server sends no     *)
(* error events: a request that failed has then ended before it is retried.  *)

\* A request whose events the screen takes, and one that has brought its answer.
Live(r) == r.pending /\ ~r.aborted
Heard(r) == r.view.end = "done" /\ r.wire = << >>

\* A body shows what a reader of the stream holds; an answered one in the end.
Shows(b, v) ==
    /\ b.finished = 0..(v.shown - 1) /\ b.cards = v.cards
    /\ b.running = IF v.running THEN {v.shown} ELSE {}
ShowsEnd(b, v) ==
    /\ v.end = "done" /\ b.running = {} /\ b.cards = v.cards
    /\ Cardinality(b.finished) = v.shown + (IF v.running THEN 1 ELSE 0)

\* The events on their way lead from what the body shows to what the server sent.
Leads(vs, wire, v) ==
    /\ vs \in [0..Len(wire) -> Views]
    /\ \A i \in 1..Len(wire) : /\ May(vs[i - 1], wire[i]) /\ vs[i] = After(vs[i - 1], wire[i])
                               /\ wire[i].name # "error"
    /\ \/ v = vs[Len(wire)]
       \/ vs[Len(wire)].end = "open" /\ v = [vs[Len(wire)] EXCEPT !.end = "cut"]
Follows(r, b) == \E vs : Leads(vs, r.wire, r.view) /\ Shows(b, vs[0])

\* a is the latest request of the turn id.
LastFor(a, id) ==
    attempts[a].turn = id /\ \A b \in Attempts : attempts[b].turn = id => b <= a

TurnOk(t) ==
    /\ \E a \in Attempts : /\ LastFor(a, t.id) /\ t.body.heard \subseteq {a}
                           /\ t.body.status = "done" => ShowsEnd(t.body, attempts[a].view)
    /\ t.body.status = "error" => \A b \in Attempts : attempts[b].turn = t.id => ~Live(attempts[b])

\* A request that still has something to bring is the last one, and the store
\* listens for its turn.
RequestOk(a, r) ==
    /\ r.turn <= issued
    /\ Live(r) /\ ~Heard(r) => a = latest /\ activeId = r.turn /\ Follows(r, Newest.body)
    /\ Live(r) /\ Heard(r) => activeId # r.turn

RequestsOk == \A a \in Attempts : RequestOk(a, attempts[a])
TurnsOk == \A i \in DOMAIN turns : TurnOk(turns[i])
LatestOk == latest # None => latest = Len(attempts)

ApartInv == ClientInv /\ RequestsOk /\ TurnsOk /\ LatestOk

LEMMA ApartNext == ClientInv /\ [ClientNext]_clientVars => ClientInv'
BY TurnsHold, AttemptsHold DEF ClientInv

LEMMA OwnIs ==
    ASSUME ClientInv, NEW turn, NEW a \in Attempts, LastFor(a, turn.id)
    PROVE  OwnAttempt(turn) = a
<1>1. Attempts = 1..Len(attempts) /\ Len(attempts) \in Nat
  BY LenProperties DEF ClientInv, Attempts
<1>2. \A b \in Attempts : b \in Nat
  BY <1>1
<1> DEFINE P(b) == attempts[b].turn = turn.id
                   /\ \A c \in Attempts : attempts[c].turn = turn.id => c <= b
<1>3. P(a)
  BY DEF LastFor
<1>4. \A b \in Attempts : P(b) => b = a
  <2> SUFFICES ASSUME NEW b \in Attempts, P(b) PROVE b = a
    OBVIOUS
  <2>1. b <= a /\ a <= b
    BY <1>3
  <2> QED
    BY <1>2, <2>1
<1>5. OwnAttempt(turn) = CHOOSE b \in Attempts : P(b)
  BY DEF OwnAttempt
<1> HIDE DEF P
<1> QED
  BY <1>3, <1>4, <1>5

\* The property, from the invariant.
LEMMA ApartIs == ApartInv => TurnsAreApart
<1> SUFFICES ASSUME ApartInv PROVE TurnsAreApart
  OBVIOUS
<1>1. ClientInv
  BY DEF ApartInv
<1>2. /\ streaming = (activeId # None)
      /\ activeId # None => turns # << >> /\ Newest.id = activeId
      /\ \A i \in DOMAIN turns :
           (turns[i].body.status = "streaming") <=> (activeId = turns[i].id /\ i = Len(turns))
  BY <1>1 DEF ClientInv, StoreInv, Newest
<1>3. ASSUME NEW i \in DOMAIN turns
      PROVE  /\ turns[i].body.heard \subseteq {OwnAttempt(turns[i])}
             /\ IsDone(turns[i]) =>
                  ShowsEnd(turns[i].body, attempts[OwnAttempt(turns[i])].view)
  <2>1. PICK a \in Attempts :
           /\ LastFor(a, turns[i].id) /\ turns[i].body.heard \subseteq {a}
           /\ turns[i].body.status = "done" => ShowsEnd(turns[i].body, attempts[a].view)
    <3>1. TurnOk(turns[i])
      BY DEF ApartInv, TurnsOk
    <3> QED
      BY <3>1 DEF TurnOk
  <2>2. OwnAttempt(turns[i]) = a
    BY <1>1, <2>1, OwnIs
  <2> QED
    BY <2>1, <2>2 DEF IsDone
<1> HIDE DEF Newest, IsDone
<1> QED
  BY <1>2, <1>3 DEF TurnsAreApart, ShowsEnd

\* A turn is all right after a step of one request, as long as its answer stays.
LEMMA TurnOkStays ==
    ASSUME ClientInv, NEW t, TurnOk(t), NEW a \in Attempts, NEW r \in Requested,
           attempts' = [attempts EXCEPT ![a] = r], r.turn = attempts[a].turn,
           attempts[a].view.end = "done" => r.view = attempts[a].view,
           Live(r) => Live(attempts[a])
    PROVE  TurnOk(t)'
<1>1. attempts \in Seq(Requested) /\ Attempts' = Attempts
  BY OneChanged DEF ClientInv, Attempts
<1>2. \A b \in Attempts : attempts'[b] = IF b = a THEN r ELSE attempts[b]
  BY <1>1 DEF Attempts
<1>3. \A b \in Attempts : attempts'[b].turn = attempts[b].turn
  BY <1>2
<1>4. PICK c \in Attempts : /\ LastFor(c, t.id) /\ t.body.heard \subseteq {c}
                            /\ t.body.status = "done" => ShowsEnd(t.body, attempts[c].view)
  BY DEF TurnOk
<1>5. LastFor(c, t.id)'
  <2>1. attempts[c].turn = t.id /\ \A b \in Attempts : attempts[b].turn = t.id => b <= c
    BY <1>4 DEF LastFor
  <2>2. attempts'[c].turn = t.id /\ \A b \in Attempts : attempts'[b].turn = t.id => b <= c
    BY <1>3, <2>1
  <2> QED
    BY <1>1, <2>2 DEF LastFor
<1>6. t.body.status = "done" => ShowsEnd(t.body, attempts'[c].view)
  <2> SUFFICES ASSUME t.body.status = "done" PROVE ShowsEnd(t.body, attempts'[c].view)
    OBVIOUS
  <2>1. ShowsEnd(t.body, attempts[c].view) /\ attempts[c].view.end = "done"
    BY <1>4 DEF ShowsEnd
  <2>2. attempts'[c].view = attempts[c].view
    BY <1>2, <2>1
  <2> QED
    BY <2>1, <2>2
<1>7. t.body.status = "error" => \A b \in Attempts : attempts'[b].turn = t.id => ~Live(attempts'[b])
  BY <1>2, <1>3 DEF TurnOk
<1> QED
  BY <1>1, <1>4, <1>5, <1>6, <1>7 DEF TurnOk

\* What a handler writes shows what the reader of the stream then holds.
LEMMA HandlersShow ==
    ASSUME NEW b \in Bodies, NEW v \in Views, Shows(b, v), NEW e \in Events, May(v, e), NEW a
    PROVE  /\ v.end = "open"
           /\ e.name = "step" => Shows(Upserted(b, e), After(v, e))
           /\ e.name = "delta" => Shows([b EXCEPT !.heard = @ \cup {a}], After(v, e))
           /\ e.name = "cards" => Shows([b EXCEPT !.cards = TRUE], After(v, e))
           /\ e.name = "sources" => Shows(b, After(v, e))
           /\ e.name = "done" => ShowsEnd(Finished(b, a), After(v, e))
           /\ e.name \notin {"done", "error"} => After(v, e).end = "open"
<1>1. v.end = "open" /\ v.shown \in Nat /\ v.running \in BOOLEAN
  BY DEF May, Views
<1>2. ASSUME e.name = "step"
      PROVE  Shows(Upserted(b, e), After(v, e)) /\ After(v, e).end = "open"
  <2>1. e.index = v.shown /\ v.running = (e.status = "done") /\ e.status \in {"run", "done"}
    BY <1>2, EventKinds DEF May, MayStep
  <2>2. After(v, e) = [v EXCEPT !.running = (e.status = "run"),
                                !.shown = IF e.status = "done" THEN @ + 1 ELSE @]
    BY <1>2 DEF After
  <2>3. CASE e.status = "run"
    <3>1. v.running = FALSE /\ b.finished = 0..(v.shown - 1) /\ b.running = {} /\ b.cards = v.cards
      BY <2>1, <2>3 DEF Shows
    <3>2. After(v, e) = [v EXCEPT !.running = TRUE, !.shown = v.shown]
      BY <2>2, <2>3
    <3>3. After(v, e).running = TRUE /\ After(v, e).shown = v.shown /\ After(v, e).cards = v.cards
          /\ After(v, e).end = "open"
      BY <1>1, <3>2 DEF Views
    <3>4. v.shown \notin 0..(v.shown - 1)
      BY <1>1
    <3>5. /\ Upserted(b, e).running = {v.shown} /\ Upserted(b, e).finished = 0..(v.shown - 1)
          /\ Upserted(b, e).cards = v.cards
      BY <2>1, <2>3, <3>1, <3>4 DEF Upserted, Bodies
    <3> QED
      BY <3>3, <3>5 DEF Shows
  <2>4. CASE e.status = "done"
    <3>1. v.running = TRUE /\ b.finished = 0..(v.shown - 1) /\ b.running = {v.shown} /\ b.cards = v.cards
      BY <2>1, <2>4 DEF Shows
    <3>2. After(v, e) = [v EXCEPT !.running = FALSE, !.shown = v.shown + 1]
      BY <2>2, <2>4
    <3>3. After(v, e).running = FALSE /\ After(v, e).shown = v.shown + 1 /\ After(v, e).cards = v.cards
          /\ After(v, e).end = "open"
      BY <1>1, <3>2 DEF Views
    <3>4. (0..(v.shown - 1)) \cup {v.shown} = 0..((v.shown + 1) - 1)
      BY <1>1
    <3>5. /\ Upserted(b, e).running = {} /\ Upserted(b, e).cards = v.cards
          /\ Upserted(b, e).finished = (0..(v.shown - 1)) \cup {v.shown}
      BY <2>1, <2>4, <3>1 DEF Upserted, Bodies
    <3> QED
      BY <3>3, <3>4, <3>5 DEF Shows
  <2> QED
    BY <2>1, <2>3, <2>4
<1>3. ASSUME e.name = "delta"
      PROVE  Shows([b EXCEPT !.heard = @ \cup {a}], After(v, e)) /\ After(v, e).end = "open"
  <2>1. After(v, e) = [v EXCEPT !.said = @ \cup {e.text}]
    BY <1>3 DEF After
  <2> QED
    BY <1>1, <2>1 DEF Shows, Views, Bodies
<1>4. ASSUME e.name = "cards"
      PROVE  Shows([b EXCEPT !.cards = TRUE], After(v, e)) /\ After(v, e).end = "open"
  <2>1. After(v, e) = [v EXCEPT !.cards = TRUE]
    BY <1>4 DEF After
  <2> QED
    BY <1>1, <2>1 DEF Shows, Views, Bodies
<1>5. ASSUME e.name = "sources"
      PROVE  Shows(b, After(v, e)) /\ After(v, e).end = "open"
  <2>1. After(v, e) = [v EXCEPT !.sources = TRUE]
    BY <1>5 DEF After
  <2> QED
    BY <1>1, <2>1 DEF Shows, Views, Bodies
<1>6. ASSUME e.name = "done" PROVE ShowsEnd(Finished(b, a), After(v, e))
  <2>1. After(v, e) = [v EXCEPT !.end = "done"]
    BY <1>6 DEF After
  <2>2. After(v, e).end = "done" /\ After(v, e).shown = v.shown /\ After(v, e).running = v.running
        /\ After(v, e).cards = v.cards
    BY <2>1 DEF Views
  <2>3. Finished(b, a).running = {} /\ Finished(b, a).cards = b.cards
        /\ Finished(b, a).finished = b.finished \cup b.running
    BY DEF Finished, Bodies
  <2>4. CASE v.running = TRUE
    <3>1. b.finished \cup b.running = 0..v.shown
      BY <1>1, <2>4 DEF Shows
    <3>2. Cardinality(0..v.shown) = v.shown + 1
      BY <1>1, FS_Interval
    <3> QED
      BY <2>2, <2>3, <2>4, <3>1, <3>2 DEF ShowsEnd, Shows
  <2>5. CASE v.running = FALSE
    <3>1. b.finished \cup b.running = 0..(v.shown - 1)
      BY <2>5 DEF Shows
    <3>2. Cardinality(0..(v.shown - 1)) = v.shown + 0
      BY <1>1, FS_Interval
    <3> QED
      BY <2>2, <2>3, <2>5, <3>1, <3>2 DEF ShowsEnd, Shows
  <2> QED
    BY <1>1, <2>4, <2>5
<1> QED
  BY <1>1, <1>2, <1>3, <1>4, <1>5, <1>6, EventKinds

LEMMA FollowsNew ==
    ASSUME NEW id
    PROVE  Follows(Attempt(id), FreshBody) /\ Live(Attempt(id)) /\ ~Heard(Attempt(id))
<1> DEFINE vs == [i \in 0..0 |-> Blank]
<1>1. Blank \in Views /\ Blank.shown = 0 /\ Blank.running = FALSE /\ Blank.cards = FALSE /\ Blank.end = "open"
  BY DEF Blank, Views
<1>2. Attempt(id).wire = << >> /\ Attempt(id).view = Blank /\ Live(Attempt(id)) /\ ~Heard(Attempt(id))
  BY <1>1 DEF Attempt, Live, Heard
<1>3. Len(<< >>) = 0 /\ 1..0 = {}
  BY EmptySeq
<1>4. Leads(vs, << >>, Blank)
  BY <1>1, <1>3 DEF Leads
<1>5. Shows(FreshBody, vs[0])
  <2>1. vs[0] = Blank /\ 0..(0 - 1) = {}
    OBVIOUS
  <2>2. FreshBody.finished = {} /\ FreshBody.running = {} /\ FreshBody.cards = FALSE
    BY DEF FreshBody
  <2> QED
    BY <1>1, <2>1, <2>2 DEF Shows
<1> HIDE DEF vs
<1> QED
  BY <1>2, <1>4, <1>5 DEF Follows

LEMMA FollowsSend ==
    ASSUME ~ErrorEvents, NEW r \in Requested, NEW b, Follows(r, b), NEW e \in Sent, May(r.view, e),
           NEW r2, r2.view = After(r.view, e), r2.wire = Append(r.wire, e)
    PROVE  Follows(r2, b)
<1> DEFINE n == Len(r.wire)
<1>1. r.wire \in Seq(Events) /\ r.view \in Views /\ e \in Events /\ n \in Nat
  BY LenProperties DEF Requested, Sent
<1>2. PICK vs : Leads(vs, r.wire, r.view) /\ Shows(b, vs[0])
  BY DEF Follows
<1> DEFINE us == [i \in 0..(n + 1) |-> IF i = n + 1 THEN After(r.view, e) ELSE vs[i]]
           wire == Append(r.wire, e)
<1>3. /\ Len(wire) = n + 1 /\ wire[n + 1] = e /\ \A i \in 1..n : wire[i] = r.wire[i]
  BY <1>1, AppendProperties
<1> HIDE DEF n, wire
<1>4. /\ vs \in [0..n -> Views]
      /\ \A i \in 1..n : /\ May(vs[i - 1], r.wire[i]) /\ vs[i] = After(vs[i - 1], r.wire[i])
                         /\ r.wire[i].name # "error"
      /\ \/ r.view = vs[n]
         \/ vs[n].end = "open" /\ r.view = [vs[n] EXCEPT !.end = "cut"]
  BY <1>2 DEF Leads, n
<1>5. r.view = vs[n]
  <2>1. r.view.end = "open"
    BY DEF May
  <2>2. vs[n] \in Views
    BY <1>1, <1>4
  <2>3. [vs[n] EXCEPT !.end = "cut"].end = "cut"
    BY <2>2 DEF Views
  <2> QED
    BY <1>4, <2>1, <2>3
<1>6. us \in [0..(n + 1) -> Views] /\ us[n + 1] = After(r.view, e) /\ us[0] = vs[0]
      /\ \A i \in 0..n : us[i] = vs[i]
  <2>1. After(r.view, e) \in Views
    BY <1>1, AfterType
  <2>2. \A i \in 0..(n + 1) : i # n + 1 => i \in 0..n
    BY <1>1
  <2>3. \A i \in 0..n : i \in 0..(n + 1) /\ i # n + 1
    BY <1>1
  <2>4. 0 \in 0..n /\ n + 1 \in 0..(n + 1)
    BY <1>1
  <2> QED
    BY <1>4, <2>1, <2>2, <2>3, <2>4
<1> HIDE DEF us
<1>7. ASSUME NEW i \in 1..(n + 1)
      PROVE  May(us[i - 1], wire[i]) /\ us[i] = After(us[i - 1], wire[i]) /\ wire[i].name # "error"
  <2>1. CASE i = n + 1
    <3>1. us[i - 1] = r.view /\ us[i] = After(r.view, e) /\ wire[i] = e
      BY <1>1, <1>3, <1>5, <1>6, <2>1
    <3>2. e.name # "error"
      BY DEF Sent
    <3> QED
      BY <3>1, <3>2
  <2>2. CASE i # n + 1
    <3>1. i \in 1..n /\ i - 1 \in 0..n /\ i \in 0..n
      BY <1>1, <2>2
    <3> QED
      BY <1>3, <1>4, <1>6, <3>1
  <2> QED
    BY <2>1, <2>2
<1>8. Leads(us, wire, After(r.view, e))
  BY <1>3, <1>6, <1>7 DEF Leads
<1> QED
  BY <1>2, <1>6, <1>8 DEF Follows, wire

LEMMA FollowsCut ==
    ASSUME NEW r \in Requested, NEW b, Follows(r, b), r.view.end = "open",
           NEW r2, r2.view = [r.view EXCEPT !.end = "cut"], r2.wire = r.wire
    PROVE  Follows(r2, b)
<1>1. PICK vs : Leads(vs, r.wire, r.view) /\ Shows(b, vs[0])
  BY DEF Follows
<1> DEFINE n == Len(r.wire)
<1>2. n \in Nat /\ n \in 0..n
  <2>1. r.wire \in Seq(Events)
    BY DEF Requested
  <2> QED
    BY <2>1, LenProperties
<1>3. vs[n] \in Views
  BY <1>1, <1>2 DEF Leads
<1>4. r.view = vs[n]
  <2>1. [vs[n] EXCEPT !.end = "cut"].end = "cut"
    BY <1>3 DEF Views
  <2> QED
    BY <1>1, <2>1 DEF Leads
<1>5. Leads(vs, r2.wire, r2.view)
  BY <1>1, <1>4 DEF Leads
<1> QED
  BY <1>1, <1>5 DEF Follows

\* The next event is one that the stream may bring to the reader of what b shows,
\* and r2, the request without it, goes on from there.
Brings(r2, b, e) ==
    /\ e \in Events /\ e.name # "error"
    /\ \E v \in Views : /\ Shows(b, v) /\ May(v, e)
                        /\ \A b2 : Shows(b2, After(v, e)) => Follows(r2, b2)
                        /\ e.name = "done" => r2.wire = << >> /\ r2.view = After(v, e)
                        /\ After(v, e).end = "open" => ~Heard(r2)

LEMMA FollowsReceive ==
    ASSUME NEW r \in Requested, NEW b, Follows(r, b), r.wire # << >>,
           NEW r2, r2.view = r.view, r2.wire = Tail(r.wire), NEW e, e = Head(r.wire)
    PROVE  Brings(r2, b, e)
<1> DEFINE n == Len(r.wire)
           rest == Tail(r.wire)
<1>1. r.wire \in Seq(Events) /\ r.view \in Views /\ n \in Nat /\ n > 0
  BY LenProperties, EmptySeq DEF Requested
<1>2. /\ e \in Events /\ e = r.wire[1] /\ rest \in Seq(Events) /\ Len(rest) = n - 1
      /\ \A i \in 1..(n - 1) : rest[i] = r.wire[i + 1]
  BY <1>1, HeadTailProperties
<1>3. PICK vs : Leads(vs, r.wire, r.view) /\ Shows(b, vs[0])
  BY DEF Follows
<1> HIDE DEF n, rest
<1>4. rest = << >> <=> n = 1
  <2>1. rest = << >> <=> Len(rest) = 0
    BY <1>2, EmptySeq
  <2> QED
    BY <1>1, <1>2, <2>1
<1>5. /\ vs \in [0..n -> Views]
      /\ \A i \in 1..n : /\ May(vs[i - 1], r.wire[i]) /\ vs[i] = After(vs[i - 1], r.wire[i])
                         /\ r.wire[i].name # "error"
      /\ \/ r.view = vs[n]
         \/ vs[n].end = "open" /\ r.view = [vs[n] EXCEPT !.end = "cut"]
  BY <1>3 DEF Leads, n
<1>6. 1 \in 1..n /\ 0 \in 0..n /\ 1 \in 0..n /\ 1 - 1 = 0
  BY <1>1
<1>7. May(vs[0], e) /\ vs[1] = After(vs[0], e) /\ e.name # "error" /\ vs[0] \in Views /\ vs[1] \in Views
  BY <1>2, <1>5, <1>6
<1> DEFINE us == [i \in 0..(n - 1) |-> vs[i + 1]]
<1>8. /\ us \in [0..(n - 1) -> Views] /\ us[0] = vs[1] /\ us[n - 1] = vs[n]
      /\ \A i \in 0..(n - 1) : us[i] = vs[i + 1]
  <2>1. \A i \in 0..(n - 1) : i + 1 \in 0..n
    BY <1>1
  <2>2. 0 \in 0..(n - 1) /\ n - 1 \in 0..(n - 1) /\ 0 + 1 = 1 /\ (n - 1) + 1 = n
    BY <1>1
  <2> QED
    BY <1>5, <2>1, <2>2
<1> HIDE DEF us
<1>9. ASSUME NEW i \in 1..(n - 1)
      PROVE  May(us[i - 1], rest[i]) /\ us[i] = After(us[i - 1], rest[i]) /\ rest[i].name # "error"
  <2>1. i + 1 \in 1..n /\ i - 1 \in 0..(n - 1) /\ i \in 0..(n - 1) /\ (i + 1) - 1 = i /\ (i - 1) + 1 = i
    BY <1>1
  <2>2. us[i - 1] = vs[i] /\ us[i] = vs[i + 1] /\ rest[i] = r.wire[i + 1]
    BY <1>2, <1>8, <2>1
  <2> QED
    BY <1>5, <2>1, <2>2
<1>10. Leads(us, rest, r.view)
  BY <1>2, <1>5, <1>8, <1>9 DEF Leads
<1>11. ASSUME NEW b2, Shows(b2, After(vs[0], e)) PROVE Follows(r2, b2)
  <2>1. Shows(b2, us[0])
    BY <1>7, <1>8, <1>11
  <2>2. r2.wire = rest /\ r2.view = r.view
    BY DEF rest
  <2> QED
    BY <1>10, <2>1, <2>2 DEF Follows
<1>12. ASSUME e.name = "done" PROVE rest = << >> /\ r.view = vs[1]
  <2>1. vs[1].end = "done"
    BY <1>7, <1>12 DEF After, Views
  <2>2. n = 1
    <3> SUFFICES ASSUME n # 1 PROVE FALSE
      OBVIOUS
    <3>1. 2 \in 1..n /\ 2 - 1 = 1
      BY <1>1
    <3>2. May(vs[1], r.wire[2])
      BY <1>5, <3>1
    <3> QED
      BY <2>1, <3>2 DEF May
  <2> QED
    BY <1>4, <1>5, <2>1, <2>2
<1>13. ASSUME After(vs[0], e).end = "open" PROVE ~Heard(r2)
  <2> SUFFICES ASSUME rest = << >> PROVE r.view.end # "done"
    BY DEF Heard, rest
  <2>1. n = 1
    BY <1>4
  <2>2. [vs[1] EXCEPT !.end = "cut"].end = "cut"
    BY <1>7 DEF Views
  <2> QED
    BY <1>5, <1>7, <1>13, <2>1, <2>2
<1> QED
  BY <1>2, <1>3, <1>7, <1>11, <1>12, <1>13 DEF rest, Brings

\* What the others are while a request's turn is listened for.
LEMMA LiveOne ==
    ASSUME ApartInv, NEW a \in Attempts, Live(attempts[a]),
           activeId = attempts[a].turn \/ ~Heard(attempts[a])
    PROVE  /\ a = latest /\ activeId = attempts[a].turn /\ activeId # None
           /\ ~Heard(attempts[a]) /\ Follows(attempts[a], Newest.body)
           /\ LastFor(a, Newest.id) /\ Newest.body.heard \subseteq {a}
           /\ \A b \in Attempts : b # a /\ Live(attempts[b]) =>
                 Heard(attempts[b]) /\ attempts[b].turn # activeId
<1>1. /\ ClientInv /\ (latest # None => latest = Len(attempts))
      /\ \A i \in DOMAIN turns : TurnOk(turns[i])
  BY DEF ApartInv, TurnsOk, LatestOk
<1>2. \A b \in Attempts :
        /\ Live(attempts[b]) /\ ~Heard(attempts[b]) =>
              b = latest /\ activeId = attempts[b].turn /\ Follows(attempts[b], Newest.body)
        /\ Live(attempts[b]) /\ Heard(attempts[b]) => activeId # attempts[b].turn
  BY DEF ApartInv, RequestsOk, RequestOk
<1>3. /\ a = latest /\ activeId = attempts[a].turn
      /\ ~Heard(attempts[a]) /\ Follows(attempts[a], Newest.body)
  BY <1>2
<1>4. activeId # None
  BY <1>1, <1>3, RequestOf
<1>5. \A b \in Attempts : b # a /\ Live(attempts[b]) =>
         Heard(attempts[b]) /\ attempts[b].turn # activeId
  BY <1>2, <1>3
<1>6. Newest.id = activeId /\ Len(turns) \in DOMAIN turns /\ Newest = turns[Len(turns)]
  BY <1>1, <1>4, ActiveTurn, LastTurn
<1>7. a = Len(attempts) /\ Attempts = 1..Len(attempts) /\ Len(attempts) \in Nat
  <2>1. a # None
    BY <1>1, LenProperties DEF ClientInv, Attempts
  <2> QED
    BY <1>1, <1>3, <2>1, LenProperties DEF ClientInv, Attempts
<1>8. \A b \in Attempts : b <= a
  BY <1>7
<1>9. PICK c \in Attempts : LastFor(c, Newest.id) /\ Newest.body.heard \subseteq {c}
  <2>1. TurnOk(Newest)
    BY <1>1, <1>6
  <2> QED
    BY <2>1 DEF TurnOk
<1>10. c = a
  <2>1. c <= a
    BY <1>8
  <2>2. a <= c
    BY <1>3, <1>6, <1>9 DEF LastFor
  <2> QED
    BY <1>7, <2>1, <2>2
<1> QED
  BY <1>3, <1>4, <1>5, <1>9, <1>10

\* A step of one request that leaves the store alone.
LEMMA RequestSteps ==
    ASSUME ApartInv, UNCHANGED <<storeVars, latest>>, NEW a \in Attempts, NEW r \in Requested,
           attempts' = [attempts EXCEPT ![a] = r], r.turn = attempts[a].turn,
           attempts[a].view.end = "done" => r.view = attempts[a].view,
           Live(r) => Live(attempts[a]),
           Live(r) /\ Heard(r) => Heard(attempts[a]),
           Live(r) /\ ~Heard(r) =>
              /\ ~Heard(attempts[a])
              /\ Follows(attempts[a], Newest.body) => Follows(r, Newest.body)
    PROVE  RequestsOk' /\ TurnsOk' /\ LatestOk'
<1>1. ClientInv /\ RequestsOk /\ TurnsOk /\ LatestOk
  BY DEF ApartInv
<1>2. /\ Attempts' = Attempts /\ Len(attempts') = Len(attempts)
      /\ \A b \in Attempts : attempts'[b] = IF b = a THEN r ELSE attempts[b]
  BY <1>1 DEF ClientInv, Attempts
<1>3. turns' = turns /\ activeId' = activeId /\ issued' = issued /\ latest' = latest
  BY DEF storeVars
<1>4. ASSUME NEW b \in Attempts, NEW me, me = attempts'[b] PROVE RequestOk(b, me)'
  <2>1. RequestOk(b, me)
    <3>1. CASE b = a
      BY <1>1, <1>2, <1>4, <3>1 DEF RequestsOk, RequestOk
    <3>2. CASE b # a
      BY <1>1, <1>2, <1>4, <3>2 DEF RequestsOk
    <3> QED
      BY <3>1, <3>2
  <2> QED
    BY <1>3, <2>1 DEF RequestOk, Newest
<1>5. RequestsOk'
  <2> SUFFICES ASSUME NEW b \in Attempts PROVE RequestOk(b, attempts[b])'
    BY <1>2 DEF RequestsOk
  <2>1. PICK me : me = attempts'[b]
    OBVIOUS
  <2>2. RequestOk(b, me)'
    BY <1>4, <2>1
  <2> QED
    BY <2>1, <2>2
<1>6. TurnsOk'
  <2> SUFFICES ASSUME NEW i \in DOMAIN turns PROVE TurnOk(turns[i])'
    BY <1>3 DEF TurnsOk
  <2>1. PICK t : t = turns[i]
    OBVIOUS
  <2>2. TurnOk(t)
    BY <1>1, <2>1 DEF TurnsOk
  <2>3. TurnOk(t)'
    BY <1>1, <2>2, TurnOkStays
  <2> QED
    BY <1>3, <2>1, <2>3
<1> QED
  BY <1>1, <1>2, <1>3, <1>5, <1>6 DEF LatestOk

\* A step of the request that is listened for, which gives its turn a new body.
LEMMA LiveSteps ==
    ASSUME ApartInv, NEW a \in Attempts, Live(attempts[a]), activeId = attempts[a].turn,
           NEW r \in Requested, attempts' = [attempts EXCEPT ![a] = r],
           r.turn = attempts[a].turn, r.view = attempts[a].view,
           NEW body \in Bodies, turns' = Patched(Newest.id, body), body.heard \subseteq {a},
           body.status = "done" => ShowsEnd(body, r.view),
           body.status = "error" => ~Live(r),
           UNCHANGED <<issued, latest>>,
           \/ activeId' = activeId /\ (Live(r) => ~Heard(r) /\ Follows(r, body))
           \/ activeId' = None /\ (Live(r) => Heard(r))
    PROVE  RequestsOk' /\ TurnsOk' /\ LatestOk'
<1>1. ClientInv /\ RequestsOk /\ TurnsOk /\ LatestOk
  BY DEF ApartInv
<1>2. /\ Attempts' = Attempts /\ Len(attempts') = Len(attempts)
      /\ \A b \in Attempts : attempts'[b] = IF b = a THEN r ELSE attempts[b]
  BY <1>1 DEF ClientInv, Attempts
<1>3. /\ a = latest /\ activeId # None
      /\ LastFor(a, Newest.id)
      /\ \A b \in Attempts : b # a /\ Live(attempts[b]) =>
            Heard(attempts[b]) /\ attempts[b].turn # activeId
  BY LiveOne
<1>4. turns # << >> /\ Newest.id = activeId
  BY <1>1, <1>3, ActiveTurn
<1> DEFINE n == Len(turns)
<1>5. /\ Len(turns') = n /\ DOMAIN turns' = DOMAIN turns /\ n \in DOMAIN turns
      /\ \A i \in DOMAIN turns : i # n => turns'[i] = turns[i]
      /\ turns'[n].body = body /\ turns'[n].id = activeId
  BY <1>1, <1>4, PatchedTurns, LastTurn
<1> HIDE DEF n
<1>6. Newest'.body = body
  BY <1>5 DEF Newest
<1>7. RequestsOk'
  <2> SUFFICES ASSUME NEW b \in Attempts PROVE RequestOk(b, attempts[b])'
    BY <1>2 DEF RequestsOk
  <2>1. PICK me : me = attempts'[b]
    OBVIOUS
  <2>2. CASE b = a
    <3>1. me = r
      BY <1>2, <2>1, <2>2
    <3>2. r.turn <= issued
      BY <1>1, <2>2 DEF RequestsOk, RequestOk
    <3>3. r.turn # None
      BY <1>1, RequestOf
    <3>4. Live(r) /\ ~Heard(r) => activeId' = r.turn /\ Follows(r, body)
      OBVIOUS
    <3>5. Live(r) /\ Heard(r) => activeId' # r.turn
      BY <3>3
    <3>6. RequestOk(b, me)'
      BY <1>3, <1>6, <2>2, <3>1, <3>2, <3>4, <3>5 DEF RequestOk
    <3> QED
      BY <2>1, <3>6
  <2>3. CASE b # a
    <3>1. me = attempts[b]
      BY <1>2, <2>1, <2>3
    <3>2. me.turn <= issued
      BY <1>1, <3>1 DEF RequestsOk, RequestOk
    <3>3. Live(me) => Heard(me) /\ me.turn # activeId /\ me.turn # None
      BY <1>1, <1>3, <2>3, <3>1, RequestOf
    <3>4. RequestOk(b, me)'
      BY <3>2, <3>3 DEF RequestOk
    <3> QED
      BY <2>1, <3>4
  <2> QED
    BY <2>2, <2>3
<1>8. TurnsOk'
  <2> SUFFICES ASSUME NEW i \in DOMAIN turns PROVE TurnOk(turns[i])'
    BY <1>5 DEF TurnsOk
  <2>1. PICK t : t = turns'[i]
    OBVIOUS
  <2>2. CASE i # n
    <3>1. TurnOk(t)
      BY <1>1, <1>5, <2>1, <2>2 DEF TurnsOk
    <3>2. Live(r) => Live(attempts[a])
      OBVIOUS
    <3>3. TurnOk(t)'
      BY <1>1, <3>1, <3>2, TurnOkStays
    <3> QED
      BY <2>1, <3>3
  <2>3. CASE i = n
    <3>1. t.id = activeId /\ t.body = body
      BY <1>5, <2>1, <2>3
    <3>2. \A b \in Attempts : attempts'[b].turn = attempts[b].turn
      BY <1>2
    <3>3. LastFor(a, t.id)'
      BY <1>2, <1>3, <1>4, <3>1, <3>2 DEF LastFor
    <3>4. attempts'[a].view = r.view
      BY <1>2
    <3>5. body.status = "error" =>
             \A b \in Attempts : attempts'[b].turn = t.id => ~Live(attempts'[b])
      BY <1>2, <1>3, <3>1
    <3>6. TurnOk(t)'
      BY <1>2, <3>1, <3>3, <3>4, <3>5 DEF TurnOk
    <3> QED
      BY <2>1, <3>6
  <2> QED
    BY <2>2, <2>3
<1> QED
  BY <1>1, <1>2, <1>7, <1>8 DEF LatestOk

\* An event of a request the screen takes.
LEMMA ReceiveApart ==
    ASSUME ApartInv, ~ErrorEvents, NEW a \in Attempts, Receive(a)
    PROVE  RequestsOk' /\ TurnsOk' /\ LatestOk'
<1> DEFINE old == attempts[a]
           e == Head(old.wire)
           w == Tail(old.wire)
           r == [old EXCEPT !.wire = w]
           b == Newest.body
<1>1. /\ ClientInv /\ old \in Requested /\ old.wire # << >> /\ Live(old) /\ ~Heard(old)
      /\ attempts' = [attempts EXCEPT ![a] = r] /\ Handle(a, e) /\ UNCHANGED <<issued, latest>>
  BY RequestOf DEF ApartInv, Receive, Live, Heard
<1>2. /\ activeId = old.turn /\ activeId # None /\ Follows(old, b) /\ b.heard \subseteq {a}
  BY <1>1, LiveOne
<1>3. Newest.id = activeId /\ Body(activeId) = b /\ b \in Bodies /\ b.status = "streaming" /\ a \in Nat
  BY <1>1, <1>2, ActiveTurn, LenProperties DEF ClientInv, Attempts
<1>4. /\ r \in Requested /\ r.turn = old.turn /\ r.view = old.view /\ r.wire = w
      /\ Live(r) <=> Live(old)
  <2>1. w \in Seq(Events)
    BY <1>1, HeadTailProperties DEF Requested
  <2> HIDE DEF w
  <2> QED
    BY <1>1, <2>1 DEF Requested, Live
<1>5. Brings(r, b, e)
  <2>1. /\ old \in Requested /\ Follows(old, b) /\ old.wire # << >>
        /\ r.view = old.view /\ r.wire = Tail(old.wire) /\ e = Head(old.wire)
    BY <1>1, <1>2, <1>4
  <2> HIDE DEF old, e, w, r, b
  <2> QED
    BY <2>1, FollowsReceive
<1>6. PICK v \in Views : /\ Shows(b, v) /\ May(v, e)
                         /\ \A b2 : Shows(b2, After(v, e)) => Follows(r, b2)
                         /\ e.name = "done" => r.wire = << >> /\ r.view = After(v, e)
                         /\ After(v, e).end = "open" => ~Heard(r)
  BY <1>5 DEF Brings
<1>7. e \in Events /\ e.name # "error"
  BY <1>5 DEF Brings
<1> DEFINE h == [b EXCEPT !.heard = @ \cup {a}]
           c == [b EXCEPT !.cards = TRUE]
<1>8. /\ e.name = "step" => Shows(Upserted(b, e), After(v, e))
      /\ e.name = "delta" => Shows(h, After(v, e))
      /\ e.name = "cards" => Shows(c, After(v, e))
      /\ e.name = "sources" => Shows(b, After(v, e))
      /\ e.name = "done" => ShowsEnd(Finished(b, a), After(v, e))
      /\ e.name # "done" => After(v, e).end = "open"
  BY <1>3, <1>6, <1>7, HandlersShow
<1>9. /\ e.name = "step" => /\ Upserted(b, e) \in Bodies /\ Upserted(b, e).status = b.status
                            /\ Upserted(b, e).heard = b.heard
      /\ h \in Bodies /\ h.status = b.status /\ h.heard = b.heard \cup {a}
      /\ c \in Bodies /\ c.status = b.status /\ c.heard = b.heard
      /\ Finished(b, a) \in Bodies /\ Finished(b, a).status = "done"
      /\ Finished(b, a).heard = {a}
  <2>1. e.name = "step" => Upserted(b, e).heard = b.heard
    BY <1>3 DEF Upserted, Bodies
  <2>2. Finished(b, a).heard = {a}
    BY <1>3 DEF Finished, Bodies
  <2>3. h.heard = b.heard \cup {a} /\ c.heard = b.heard
    BY <1>3 DEF Bodies
  <2> QED
    BY <1>3, <1>7, <2>1, <2>2, <2>3, BodiesWritten
<1>10. CASE e.name # "done"
  <2>1. PICK body \in Bodies :
          /\ Hear(old.turn, body) /\ activeId' = activeId /\ body.status = "streaming"
          /\ body.heard \subseteq {a} /\ Shows(body, After(v, e))
    <3>1. CASE e.name = "step"
      <4>1. Hear(old.turn, Upserted(b, e)) /\ activeId' = activeId
        BY <1>1, <1>2, <1>3, <3>1 DEF Handle
      <4> QED
        BY <1>2, <1>3, <1>8, <1>9, <3>1, <4>1
    <3>2. CASE e.name = "delta"
      <4>1. Hear(old.turn, h) /\ activeId' = activeId
        BY <1>1, <1>2, <1>3, <3>2 DEF Handle
      <4> QED
        BY <1>2, <1>3, <1>8, <1>9, <3>2, <4>1
    <3>3. CASE e.name = "cards"
      <4>1. Hear(old.turn, c) /\ activeId' = activeId
        BY <1>1, <1>2, <1>3, <3>3 DEF Handle
      <4> QED
        BY <1>2, <1>3, <1>8, <1>9, <3>3, <4>1
    <3>4. CASE e.name = "sources"
      <4>1. Hear(old.turn, b) /\ activeId' = activeId
        BY <1>1, <1>2, <1>3, <3>4 DEF Handle
      <4> QED
        BY <1>2, <1>3, <1>8, <3>4, <4>1
    <3> QED
      BY <1>7, <1>10, <3>1, <3>2, <3>3, <3>4, EventKinds
  <2>2. turns' = Patched(Newest.id, body)
    BY <1>2, <1>3, <2>1 DEF Hear
  <2>3. ~Heard(r) /\ Follows(r, body)
    BY <1>6, <1>8, <1>10, <2>1
  <2> HIDE DEF old, e, w, r, b, h, c
  <2> QED
    BY <1>1, <1>2, <1>4, <2>1, <2>2, <2>3, LiveSteps DEF old
<1>11. CASE e.name = "done"
  <2> DEFINE body == Finished(b, a)
  <2>1. Settle(old.turn, body)
    BY <1>1, <1>2, <1>3, <1>11 DEF Handle
  <2>2. turns' = Patched(Newest.id, body) /\ activeId' = None
    BY <1>2, <1>3, <2>1 DEF Settle, Hear
  <2>3. ShowsEnd(body, r.view) /\ Heard(r)
    <3>1. ShowsEnd(body, After(v, e)) /\ r.view = After(v, e) /\ r.wire = << >>
      BY <1>6, <1>8, <1>11
    <3> QED
      BY <3>1 DEF ShowsEnd, Heard
  <2>4. body \in Bodies /\ body.status = "done" /\ body.heard \subseteq {a}
    BY <1>9
  <2> HIDE DEF old, e, w, r, b, h, c, body
  <2> QED
    BY <1>1, <1>2, <1>4, <2>2, <2>3, <2>4, LiveSteps DEF old
<1> QED
  BY <1>10, <1>11

\* A turn whose request is over and has no answer fails.
LEMMA FailApart ==
    ASSUME ApartInv, NEW a \in Attempts, AtEnd(a),
           attempts' = [attempts EXCEPT ![a].pending = FALSE],
           Fail(attempts[a].turn), UNCHANGED <<issued, latest>>
    PROVE  RequestsOk' /\ TurnsOk' /\ LatestOk'
<1> DEFINE old == attempts[a]
           r == [old EXCEPT !.pending = FALSE]
           b == Newest.body
           f == [b EXCEPT !.status = "error"]
<1>1. ClientInv /\ old \in Requested /\ Live(old) /\ attempts' = [attempts EXCEPT ![a] = r]
  BY RequestOf DEF ApartInv, AtEnd, Live
<1>2. r \in Requested /\ r.turn = old.turn /\ r.view = old.view /\ ~Live(r)
  BY <1>1 DEF Requested, Live
<1>3. CASE activeId = old.turn
  <2>1. activeId # None /\ b.heard \subseteq {a}
    BY <1>1, <1>3, LiveOne
  <2>2. Newest.id = activeId /\ Body(activeId) = b /\ b \in Bodies
    BY <1>1, <2>1, ActiveTurn
  <2>3. f \in Bodies /\ f.status = "error" /\ f.heard = b.heard
    BY <2>2 DEF Bodies
  <2>4. turns' = Patched(Newest.id, f) /\ activeId' = None
    BY <1>3, <2>2 DEF Fail, Settle, Hear
  <2> HIDE DEF old, r, b, f
  <2> QED
    BY <1>1, <1>2, <1>3, <2>1, <2>3, <2>4, LiveSteps DEF old
<1>4. CASE activeId # old.turn
  <2>1. UNCHANGED <<storeVars, latest>>
    BY <1>4 DEF Fail, Settle, Hear, storeVars
  <2> HIDE DEF old, r
  <2> QED
    BY <1>1, <1>2, <2>1, RequestSteps DEF old
<1> QED
  BY <1>3, <1>4

\* The other steps of a request leave the store as it is.
LEMMA StreamApart ==
    ASSUME ApartInv, ~ErrorEvents, NEW a \in Attempts,
           ServerSends(a) \/ Breaks(a) \/ Client(a)
    PROVE  RequestsOk' /\ TurnsOk' /\ LatestOk'
<1> DEFINE old == attempts[a]
           b == Newest.body
<1>1. ClientInv /\ old \in Requested /\ old.view \in Views /\ old.wire \in Seq(Events)
  BY RequestOf DEF ApartInv, Requested
<1>2. CASE ServerSends(a)
  <2>1. PICK e \in Sent :
          /\ May(old.view, e) /\ UNCHANGED <<storeVars, latest>>
          /\ attempts' = [attempts EXCEPT ![a].view = After(@, e), ![a].wire = Append(@, e)]
    BY <1>2 DEF ServerSends
  <2> DEFINE v == After(old.view, e)
             w == Append(old.wire, e)
             r == [old EXCEPT !.view = v, !.wire = w]
  <2>2. attempts' = [attempts EXCEPT ![a] = r] /\ old.view.end = "open"
    BY <2>1 DEF May
  <2>3. v \in Views /\ w \in Seq(Events) /\ w # << >>
    <3>1. e \in Events
      BY DEF Sent
    <3> QED
      BY <1>1, <3>1, AfterType, AppendProperties, EmptySeq
  <2> HIDE DEF v, w
  <2>4. /\ r \in Requested /\ r.turn = old.turn /\ r.view = v /\ r.wire = w
        /\ Live(r) <=> Live(old)
    BY <1>1, <2>3 DEF Requested, Live
  <2>5. ~Heard(r) /\ ~Heard(old)
    BY <2>2, <2>3, <2>4 DEF Heard
  <2>6. Follows(old, b) => Follows(r, b)
    <3> SUFFICES ASSUME Follows(old, b) PROVE Follows(r, b)
      OBVIOUS
    <3>1. r.view = After(old.view, e) /\ r.wire = Append(old.wire, e)
      BY <2>4 DEF v, w
    <3> HIDE DEF old, b, r
    <3> QED
      BY <1>1, <2>1, <3>1, FollowsSend
  <2> HIDE DEF r
  <2> QED
    BY <1>1, <2>1, <2>2, <2>4, <2>5, <2>6, RequestSteps
<1>3. CASE Breaks(a)
  <2> DEFINE v == [old.view EXCEPT !.end = "cut"]
             r == [old EXCEPT !.view = v]
  <2>1. /\ attempts' = [attempts EXCEPT ![a] = r] /\ old.view.end = "open"
        /\ UNCHANGED <<storeVars, latest>>
    BY <1>3 DEF Breaks
  <2>2. v \in Views /\ v.end = "cut"
    BY <1>1 DEF Views
  <2> HIDE DEF v
  <2>3. /\ r \in Requested /\ r.turn = old.turn /\ r.view = v /\ r.wire = old.wire
        /\ Live(r) <=> Live(old)
    BY <1>1, <2>2 DEF Requested, Live
  <2>4. ~Heard(r) /\ ~Heard(old)
    BY <2>1, <2>2, <2>3 DEF Heard
  <2>5. Follows(old, b) => Follows(r, b)
    <3> SUFFICES ASSUME Follows(old, b) PROVE Follows(r, b)
      OBVIOUS
    <3>1. r.view = [old.view EXCEPT !.end = "cut"]
      BY <2>3 DEF v
    <3> HIDE DEF old, b, r
    <3> QED
      BY <1>1, <2>1, <2>3, <3>1, FollowsCut
  <2> HIDE DEF r
  <2> QED
    BY <1>1, <2>1, <2>3, <2>4, <2>5, RequestSteps
<1>4. CASE Receive(a)
  BY <1>4, ReceiveApart
<1>5. CASE Aborts(a)
  <2> DEFINE r == [old EXCEPT !.pending = FALSE, !.wire = << >>]
  <2>1. attempts' = [attempts EXCEPT ![a] = r] /\ UNCHANGED <<storeVars, latest>>
    BY <1>5 DEF Aborts
  <2>2. r \in Requested /\ r.turn = old.turn /\ r.view = old.view /\ ~Live(r)
    BY <1>1, EmptySeq DEF Requested, Live
  <2> HIDE DEF r
  <2> QED
    BY <1>1, <2>1, <2>2, RequestSteps
<1>6. CASE Rejects(a)
  BY <1>6, FailApart DEF Rejects
<1>7. CASE Resolves(a)
  <2>1. CASE Fail(old.turn) /\ UNCHANGED issued
    BY <1>7, <2>1, FailApart DEF Resolves
  <2>2. CASE UNCHANGED storeVars
    <3> DEFINE r == [old EXCEPT !.pending = FALSE]
    <3>1. attempts' = [attempts EXCEPT ![a] = r] /\ UNCHANGED <<storeVars, latest>>
      BY <1>7, <2>2 DEF Resolves
    <3>2. r \in Requested /\ r.turn = old.turn /\ r.view = old.view /\ ~Live(r)
      BY <1>1 DEF Requested, Live
    <3> HIDE DEF r
    <3> QED
      BY <1>1, <3>1, <3>2, RequestSteps
  <2> QED
    BY <1>7, <2>1, <2>2 DEF Resolves
<1> QED
  BY <1>2, <1>3, <1>4, <1>5, <1>6, <1>7 DEF Client

\* A request is sent for the last turn, while the store listens for none and no
\* request for that turn is alive.
LEMMA RunApart ==
    ASSUME ApartInv, NEW id \in Nat, Run(id), activeId = None, activeId' = id,
           \A b \in Attempts : attempts[b].turn = id => ~Live(attempts[b]),
           issued \in Nat, issued' \in Nat, issued <= issued', id <= issued',
           NEW m, m = Len(turns'), turns'[m].id = id, turns'[m].body = FreshBody,
           \A i \in DOMAIN turns' : i # m =>
              i \in DOMAIN turns /\ turns'[i] = turns[i] /\ turns[i].id # id
    PROVE  RequestsOk' /\ TurnsOk' /\ LatestOk'
<1> DEFINE n == Len(attempts) + 1
           new == Attempt(id)
<1>1. ClientInv /\ RequestsOk /\ TurnsOk
  BY DEF ApartInv
<1>2. /\ Attempts = 1..(n - 1) /\ n \in Nat /\ n > 0 /\ Attempts' = 1..n /\ Len(attempts') = n
      /\ attempts'[n] = new /\ latest' = n
      /\ \A b \in Attempts : attempts'[b] = attempts[b]
  <2>1. attempts \in Seq(Requested) /\ new \in Requested
    <3>1. Blank \in Views
      BY DEF Blank, Views
    <3>2. << >> \in Seq(Events)
      BY EmptySeq
    <3> QED
      BY <1>1, <3>1, <3>2 DEF ClientInv, Attempt, Requested
  <2>2. attempts' = Append(attempts, new) /\ latest' = n
    BY DEF Run
  <2> HIDE DEF new
  <2>3. attempts' \in Seq(Requested) /\ Len(attempts') = n /\ attempts'[n] = new
        /\ Len(attempts) \in Nat /\ \A b \in 1..Len(attempts) : attempts'[b] = attempts[b]
    BY <2>1, <2>2, AppendProperties, LenProperties
  <2>4. Attempts = 1..(n - 1) /\ Attempts' = 1..n
    BY <2>1, <2>3, LenProperties DEF Attempts
  <2> QED
    BY <2>2, <2>3, <2>4
<1>3. new.turn = id /\ Live(new) /\ ~Heard(new) /\ Follows(new, FreshBody)
  <2>1. new.turn = id
    BY DEF Attempt
  <2> QED
    BY <2>1, FollowsNew
<1> HIDE DEF n, new
<1>4. Newest'.body = FreshBody
  BY DEF Newest
<1>5. \A b \in Attempts' : b = n \/ b \in Attempts
  BY <1>2
<1>6. \A b \in Attempts : b <= n /\ b # n
  BY <1>2
<1>7. RequestsOk'
  <2> SUFFICES ASSUME NEW b \in Attempts' PROVE RequestOk(b, attempts[b])'
    BY DEF RequestsOk
  <2>1. PICK me : me = attempts'[b]
    OBVIOUS
  <2>2. CASE b = n
    <3>1. me = new
      BY <1>2, <2>1, <2>2
    <3>2. RequestOk(b, me)'
      BY <1>2, <1>3, <1>4, <2>2, <3>1 DEF RequestOk
    <3> QED
      BY <2>1, <3>2
  <2>3. CASE b \in Attempts
    <3>1. me = attempts[b] /\ me \in Requested
      BY <1>1, <1>2, <2>1, <2>3, RequestOf
    <3>2. RequestOk(b, me)
      BY <1>1, <2>3, <3>1 DEF RequestsOk
    <3>3. me.turn \in Nat /\ me.turn <= issued'
      BY <3>1, <3>2 DEF RequestOk, Requested
    <3>4. Live(me) => Heard(me) /\ me.turn # id
      BY <2>3, <3>1, <3>2, <3>3 DEF RequestOk
    <3>5. RequestOk(b, me)'
      BY <3>3, <3>4 DEF RequestOk
    <3> QED
      BY <2>1, <3>5
  <2> QED
    BY <1>5, <2>2, <2>3
<1>8. TurnsOk'
  <2> SUFFICES ASSUME NEW i \in DOMAIN turns' PROVE TurnOk(turns[i])'
    BY DEF TurnsOk
  <2>1. PICK t : t = turns'[i]
    OBVIOUS
  <2>2. CASE i = m
    <3>1. t.id = id /\ t.body.heard = {} /\ t.body.status = "streaming"
      BY <2>1, <2>2 DEF FreshBody
    <3>2. PICK k : k = n
      OBVIOUS
    <3>3. k \in Attempts' /\ attempts'[k].turn = id /\ \A b \in Attempts' : b <= k
      BY <1>2, <1>3, <3>2
    <3>4. LastFor(k, t.id)'
      BY <3>1, <3>3 DEF LastFor
    <3>5. TurnOk(t)'
      BY <3>1, <3>3, <3>4 DEF TurnOk
    <3> QED
      BY <2>1, <3>5
  <2>3. CASE i # m
    <3>1. TurnOk(t) /\ t.id # id
      BY <1>1, <2>1, <2>3 DEF TurnsOk
    <3>2. PICK c \in Attempts : /\ LastFor(c, t.id) /\ t.body.heard \subseteq {c}
                                /\ t.body.status = "done" => ShowsEnd(t.body, attempts[c].view)
      BY <3>1 DEF TurnOk
    <3>3. c \in Attempts' /\ attempts'[c] = attempts[c]
      BY <1>2
    <3>4. \A b \in Attempts' : attempts'[b].turn = t.id => b \in Attempts /\ attempts'[b] = attempts[b]
      BY <1>2, <1>3, <1>5, <3>1
    <3>5. LastFor(c, t.id)'
      BY <3>2, <3>3, <3>4 DEF LastFor
    <3>6. t.body.status = "error" =>
             \A b \in Attempts' : attempts'[b].turn = t.id => ~Live(attempts'[b])
      BY <3>1, <3>4 DEF TurnOk
    <3>7. TurnOk(t)'
      BY <3>2, <3>3, <3>5, <3>6 DEF TurnOk
    <3> QED
      BY <2>1, <3>7
  <2> QED
    BY <2>2, <2>3
<1> QED
  BY <1>2, <1>7, <1>8 DEF LatestOk

LEMMA AskApart == ASSUME ApartInv, Ask PROVE RequestsOk' /\ TurnsOk' /\ LatestOk'
<1> DEFINE id == issued + 1
           m == Len(turns) + 1
<1>1. /\ ClientInv /\ RequestsOk /\ ~streaming /\ issued' = id /\ activeId' = id
      /\ turns' = Append(turns, Turn(id)) /\ Run(id)
  BY DEF ApartInv, Ask
<1>2. /\ activeId = None /\ issued \in Nat /\ turns \in Seq([id : Nat, body : Bodies])
      /\ \A i \in DOMAIN turns : turns[i].id <= issued
  BY <1>1 DEF ClientInv, StoreInv
<1>3. Turn(id) \in [id : Nat, body : Bodies] /\ Turn(id).id = id /\ Turn(id).body = FreshBody
  BY <1>2, FreshBodyType DEF Turn
<1>4. /\ Len(turns') = m /\ DOMAIN turns' = 1..m /\ DOMAIN turns = 1..(m - 1) /\ m \in Nat
      /\ turns'[m] = Turn(id) /\ \A i \in 1..(m - 1) : turns'[i] = turns[i]
  <2> DEFINE t == Turn(id)
  <2>1. t \in [id : Nat, body : Bodies] /\ turns' = Append(turns, t)
    BY <1>1, <1>3
  <2> HIDE DEF t
  <2>2. /\ turns' \in Seq([id : Nat, body : Bodies]) /\ Len(turns') = m /\ turns'[m] = t
        /\ Len(turns) \in Nat /\ \A i \in 1..Len(turns) : turns'[i] = turns[i]
    BY <1>2, <2>1, AppendProperties, LenProperties
  <2> QED
    BY <1>2, <2>2, LenProperties DEF t
<1>5. \A i \in DOMAIN turns' : i # m =>
         i \in DOMAIN turns /\ turns'[i] = turns[i] /\ turns[i].id # id
  <2>1. \A i \in DOMAIN turns : turns[i].id \in Nat
    <3>1. \A i \in DOMAIN turns : turns[i] \in [id : Nat, body : Bodies]
      BY <1>2, ElementOfSeq, LenProperties
    <3> QED
      BY <3>1
  <2>2. \A i \in DOMAIN turns : turns[i].id # id
    BY <1>2, <2>1
  <2>3. \A i \in 1..m : i # m => i \in 1..(m - 1)
    BY <1>4
  <2> QED
    BY <1>4, <2>2, <2>3
<1>6. \A b \in Attempts : attempts[b].turn # id
  <2>1. \A b \in Attempts : attempts[b].turn \in Nat
    BY <1>1, RequestOf DEF Requested
  <2>2. \A b \in Attempts : attempts[b].turn <= issued
    BY <1>1 DEF RequestsOk, RequestOk
  <2> QED
    BY <1>2, <2>1, <2>2
<1>7. id \in Nat /\ issued <= id /\ id <= id
  BY <1>2
<1> HIDE DEF id, m
<1> QED
  BY <1>1, <1>2, <1>3, <1>4, <1>5, <1>6, <1>7, RunApart

LEMMA RetryApart == ASSUME ApartInv, Retry PROVE RequestsOk' /\ TurnsOk' /\ LatestOk'
<1> DEFINE id == Newest.id
           m == Len(turns)
<1>1. /\ ClientInv /\ TurnsOk /\ ~streaming /\ turns # << >> /\ Newest.body.status = "error"
      /\ issued' = issued /\ activeId' = id /\ turns' = Patched(id, FreshBody) /\ Run(id)
  BY DEF ApartInv, Retry
<1>2. /\ activeId = None /\ issued \in Nat
      /\ \A i \in DOMAIN turns : turns[i].id <= issued
  BY <1>1 DEF ClientInv, StoreInv
<1>3. /\ m \in DOMAIN turns /\ Newest = turns[m] /\ id \in Nat
      /\ \A i \in DOMAIN turns : i # m => turns[i].id # id
  BY <1>1, LastTurn
<1>4. /\ Len(turns') = m /\ DOMAIN turns' = DOMAIN turns
      /\ turns'[m].id = id /\ turns'[m].body = FreshBody
      /\ \A i \in DOMAIN turns : i # m => turns'[i] = turns[i]
  BY <1>1, <1>3, PatchedTurns, FreshBodyType
<1>5. \A b \in Attempts : attempts[b].turn = id => ~Live(attempts[b])
  <2>1. TurnOk(Newest)
    BY <1>1, <1>3 DEF TurnsOk
  <2> QED
    BY <1>1, <2>1 DEF TurnOk
<1>6. id <= issued
  BY <1>2, <1>3
<1> HIDE DEF id, m
<1> QED
  BY <1>1, <1>2, <1>3, <1>4, <1>5, <1>6, RunApart

LEMMA NewChatApart == ASSUME ApartInv, NewChat PROVE RequestsOk' /\ TurnsOk' /\ LatestOk'
<1>1. /\ ClientInv /\ RequestsOk /\ turns' = << >> /\ activeId' = None /\ latest' = None
      /\ issued' = issued
      /\ attempts' = IF latest = None THEN attempts
                     ELSE [attempts EXCEPT ![latest].aborted = TRUE]
  BY DEF ApartInv, NewChat
<1>2. Attempts' = Attempts
  BY <1>1 DEF Attempts
<1>3. ASSUME NEW b \in Attempts, NEW me, me = attempts'[b] PROVE RequestOk(b, me)'
  <2>1. attempts[b] \in Requested /\ attempts[b].turn # None
    BY <1>1, RequestOf
  <2>2. me.turn = attempts[b].turn /\ (Live(me) => b # latest /\ me = attempts[b])
    <3>1. CASE latest = b
      <4>1. me = [attempts[b] EXCEPT !.aborted = TRUE]
        <5>1. latest # None
          BY <1>1, <3>1, LenProperties DEF ClientInv, Attempts
        <5> QED
          BY <1>1, <1>3, <3>1, <5>1 DEF ClientInv, Attempts
      <4> QED
        BY <2>1, <4>1 DEF Requested, Live
    <3>2. CASE latest # b
      BY <1>1, <1>3, <3>2 DEF ClientInv, Attempts
    <3> QED
      BY <3>1, <3>2
  <2>3. RequestOk(b, attempts[b])
    BY <1>1 DEF RequestsOk
  <2>4. me.turn <= issued /\ me.turn # None /\ (Live(me) => Heard(me))
    BY <2>1, <2>2, <2>3 DEF RequestOk
  <2> QED
    BY <1>1, <2>4 DEF RequestOk
<1>4. RequestsOk'
  <2> SUFFICES ASSUME NEW b \in Attempts PROVE RequestOk(b, attempts[b])'
    BY <1>2 DEF RequestsOk
  <2>1. PICK me : me = attempts'[b]
    OBVIOUS
  <2>2. RequestOk(b, me)'
    BY <1>3, <2>1
  <2> QED
    BY <2>1, <2>2
<1>5. TurnsOk'
  BY <1>1 DEF TurnsOk
<1> QED
  BY <1>1, <1>4, <1>5 DEF LatestOk

LEMMA InitApart == ClientInit => ApartInv
<1> SUFFICES ASSUME ClientInit PROVE ApartInv
  OBVIOUS
<1>1. turns = << >> /\ attempts = << >> /\ latest = None
  BY DEF ClientInit
<1> QED
  BY <1>1, InitHolds DEF ApartInv, RequestsOk, TurnsOk, LatestOk, Attempts

\* Turns and requests are never mixed up, however the events of any number of
\* requests, their ends, retries and new chats interleave, if the server ends its
\* turns without an error event.
THEOREM TurnsStayApart == ASSUME ~ErrorEvents PROVE ClientSpec => []TurnsAreApart
<1>1. ApartInv /\ [ClientNext]_clientVars => ApartInv'
  <2> SUFFICES ASSUME ApartInv, [ClientNext]_clientVars PROVE ApartInv'
    OBVIOUS
  <2>1. ClientInv'
    BY ApartNext DEF ApartInv
  <2>2. RequestsOk' /\ TurnsOk' /\ LatestOk'
    <3>1. CASE UNCHANGED clientVars
      BY <3>1 DEF clientVars, storeVars, ApartInv, RequestsOk, RequestOk, TurnsOk, TurnOk, LastFor,
                  LatestOk, Attempts, Newest
    <3>2. CASE Ask
      BY <3>2, AskApart
    <3>3. CASE Retry
      BY <3>3, RetryApart
    <3>4. CASE NewChat
      BY <3>4, NewChatApart
    <3>5. ASSUME NEW a \in Attempts, ServerSends(a) \/ Breaks(a) \/ Client(a)
          PROVE  RequestsOk' /\ TurnsOk' /\ LatestOk'
      BY <3>5, StreamApart
    <3> QED
      BY <3>1, <3>2, <3>3, <3>4, <3>5 DEF ClientNext
  <2> QED
    BY <2>1, <2>2 DEF ApartInv
<1> QED
  BY <1>1, InitApart, ApartIs, PTL DEF ClientSpec
================================================================================
