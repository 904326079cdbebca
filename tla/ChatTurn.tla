------------------------------- MODULE ChatTurn -------------------------------
(****************************************************************************)
(* One turn of POST /agent/chat on the server.  Two tasks run in it: the     *)
(* search (chat.py _search -> search.py run -> toolloop.py route), which     *)
(* lets the router model pick tools and runs them under caps on calls and    *)
(* on time, and the event generator (chat.py events), which drains the       *)
(* search's step signals and then writes the answer.  The queue of the       *)
(* Emitter joins them.  A tool call is a model value, its name with its      *)
(* arguments, so two calls are equal when their fingerprints are.            *)
(****************************************************************************)
EXTENDS ChatEvents, Sequences, FiniteSets

CONSTANTS
    Calls,             \* the tool calls the router may ask for
    Unknown,           \* those whose name is not in the catalog
    Factual,           \* those of tools whose observation is itself the answer
    Openings,          \* what a turn may open with: a call fixed by code, or None
    MaxCallsPerRound, TotalBudget, ToolTimeout,
    DecideLimit,       \* the longest one router request takes, its retry included
    MaxPieces          \* bound: pieces of prose the writer model streams

ASSUME ChatAssumption ==
    /\ None \notin Calls /\ Openings \subseteq Calls \cup {None}
    /\ Unknown \subseteq Calls /\ Factual \subseteq Calls
    /\ MaxCallsPerRound \in Nat \ {0} /\ TotalBudget \in Nat \ {0}
    /\ ToolTimeout \in Nat \ {0} /\ DecideLimit \in Nat \ {0}
    /\ MaxPieces \in Nat \ {0}
    /\ ToolTimeout < TotalBudget

VARIABLES
    opening,   \* the call this turn opens with, or None
    stage,     \* where the search task is
    picked,    \* calls of the current round still to be looked at
    running,   \* the call whose tool is running, or None
    fired,     \* fingerprints of the calls made
    trace,     \* what the search has gathered
    asked,     \* the router has been asked in this turn
    routed,    \* a round has begun: a decision named calls (trace.rounds > 0)
    elapsed,   \* time since the search began
    waiting,   \* time spent in the await under way
    queue,     \* signals sent and not drained; Close ends it
    outcome,   \* how the search ended
    cancelled, \* the generator has cancelled the search task
    phase,     \* where the event generator is
    streamed,  \* steps the generator has drained as done
    pieces,    \* pieces the writer has streamed
    written,   \* what they add up to
    told,      \* what the reader holds after the events yielded so far
    cut        \* the stream was left before its done

searchVars == <<opening, picked, running, fired, trace, asked, routed, stage,
                elapsed, waiting, outcome>>
writerVars == <<pieces, written>>
eventVars == <<phase, streamed, writerVars, told, cut, cancelled>>
vars == <<searchVars, queue, eventVars>>

Close == [name |-> "close"]

Outcomes == {"talk", "facts", "zero", "found", "refused", "limited", "broken", "cancelled"}

\* class Trace: its calls, whether rows, facts and anchors were found, the
\* steps finished, and why the loop stopped.
NoTrace == [calls |-> 0, rows |-> FALSE, facts |-> FALSE, anchors |-> FALSE,
            halt |-> FALSE, steps |-> 0, stopped |-> "running"]

\* Replies to a decision: the loop keeps the first MaxCallsPerRound of them.
Offers == UNION {[1..n -> Calls] : n \in 1..(MaxCallsPerRound + 1)}

Kept(offer) == SubSeq(offer, 1, IF Len(offer) < MaxCallsPerRound
                                  THEN Len(offer) ELSE MaxCallsPerRound)

Init ==
    /\ opening \in Openings
    /\ stage = "opening" /\ picked = << >> /\ running = None /\ fired = {}
    /\ trace = NoTrace /\ asked = FALSE /\ routed = FALSE
    /\ elapsed = 0 /\ waiting = 0 /\ queue = << >> /\ outcome = None
    /\ phase = "drain" /\ streamed = 0 /\ pieces = 0 /\ written = "nothing"
    /\ told = Blank /\ cut = FALSE /\ cancelled = FALSE

-----------------------------------------------------------------------------
(* The search task.  It gives up the event loop only at its awaits: before   *)
(* it starts, while the router is asked, and while a tool runs.              *)

Suspended == stage \notin {"head", "round"}

\* _search ends: its outcome is set and the Emitter is closed, always.
Ends(how) ==
    /\ stage' = "closed" /\ outcome' = how
    /\ running' = None /\ picked' = << >> /\ elapsed' = 0 /\ waiting' = 0
    /\ queue' = Append(queue, Close)

\* Slip: facts are answered with before the rows are looked at.
ResponsesFactsFirst(t) ==
    IF t.calls = 0 THEN {"talk"} ELSE IF t.facts THEN {"facts"}
    ELSE IF ~t.rows THEN {"zero", "refused"} ELSE {"found"}

\* respond(): what the gathered trace is answered with.  Nothing found under
\* no condition that can be named raises AgentNoResults.
Responses(t) ==
    IF t.calls = 0 THEN {"talk"}
    ELSE IF t.facts /\ ~t.rows THEN {"facts"}
    ELSE IF ~t.rows THEN {"zero", "refused"}
    ELSE {"found"}

\* The loop of route() is left, and the response assembled.
Conclude(t, why) ==
    /\ trace' = [t EXCEPT !.stopped = why]
    /\ \E how \in Responses(t) : Ends(how)
    /\ UNCHANGED <<opening, fired, asked, routed, eventVars>>

\* Slip: no look at the halt.
RefusesPastHalt(call) == trace.calls >= MaxToolCalls \/ call \in fired

\* _observe() refuses a call after a halt, past the cap, or made before.
Refuses(call) ==
    \/ trace.halt
    \/ trace.calls >= MaxToolCalls
    \/ call \in fired

\* After a call: the next one of its round, or the head of the loop.
NextStage == IF routed THEN "round" ELSE "head"

\* _observe() of one call: refused, unknown to the catalog, or its tool starts
\* and its step is announced.
Observe(call) ==
    /\ IF Refuses(call)
         THEN stage' = NextStage /\ UNCHANGED <<running, fired, trace, queue>>
         ELSE /\ fired' = fired \cup {call}
              /\ trace' = [trace EXCEPT !.calls = @ + 1]
              /\ IF call \in Unknown
                   THEN stage' = NextStage /\ UNCHANGED <<running, queue>>
                   ELSE /\ stage' = "tool" /\ running' = call
                        /\ queue' = Append(queue, Step(trace.steps, "run"))
    /\ waiting' = 0
    /\ UNCHANGED <<opening, asked, routed, elapsed, outcome, eventVars>>

\* A chip, a card tap or a photo names the first call; free text names none.
Open ==
    /\ stage = "opening" /\ ~cancelled
    /\ picked' = picked
    /\ \/ opening # None /\ Observe(opening)
       \/ /\ opening = None /\ stage' = "head"
          /\ UNCHANGED <<opening, running, fired, trace, asked, routed, elapsed,
                         waiting, queue, outcome, eventVars>>

\* The head of the loop looks at the caps, then asks the router.
CallLimit == stage = "head" /\ trace.calls >= MaxToolCalls /\ Conclude(trace, "call_limit")

OutOfTime ==
    /\ stage = "head" /\ trace.calls < MaxToolCalls /\ elapsed >= TotalBudget
    /\ Conclude(trace, "budget")

AskModel ==
    /\ stage = "head" /\ trace.calls < MaxToolCalls /\ elapsed < TotalBudget
    /\ stage' = "asking" /\ asked' = TRUE /\ waiting' = 0
    /\ UNCHANGED <<opening, picked, running, fired, trace, routed, elapsed, queue,
                   outcome, eventVars>>

Awaiting(where) == stage = where /\ ~cancelled

\* The router has no more to ask for.
DecideDone == Awaiting("asking") /\ Conclude(trace, "done")

\* The router names calls, perhaps more than a round may run.
DecidePick ==
    /\ Awaiting("asking")
    /\ \E offer \in Offers : picked' = Kept(offer)
    /\ stage' = "round" /\ routed' = TRUE
    /\ UNCHANGED <<opening, running, fired, trace, asked, elapsed, waiting, queue,
                   outcome, eventVars>>

\* AgentIntentUnavailable: the loop ends with what was found.
RouterDown == Awaiting("asking") /\ Conclude(trace, "llm_down")

\* The request's own timeout, after its retry, makes it unavailable.
RouterTimedOut == waiting = DecideLimit /\ RouterDown

\* Slip: the Emitter is not closed when the search raises.
RaisesSilently(how) ==
    /\ stage' = "closed" /\ outcome' = how
    /\ running' = None /\ picked' = << >> /\ elapsed' = 0 /\ waiting' = 0
    /\ UNCHANGED <<opening, fired, trace, asked, routed, queue, eventVars>>

\* Raises that no handler of route() catches end the search: a refusal is an
\* AppError, anything else breaks the stream.
Raises(how) == Ends(how) /\ UNCHANGED <<opening, fired, trace, asked, routed, eventVars>>

\* decide() turns a 429 of the router's provider into RateLimited.
RouterLimited == Awaiting("asking") /\ Raises("limited")

NextCall ==
    /\ stage = "round" /\ picked # << >>
    /\ picked' = Tail(picked) /\ Observe(Head(picked))

\* The round is over: a halt ends the loop, else back to its head.
RoundHalted == stage = "round" /\ picked = << >> /\ trace.halt /\ Conclude(trace, "halted")

RoundOver ==
    /\ stage = "round" /\ picked = << >> /\ ~trace.halt
    /\ stage' = "head"
    /\ UNCHANGED <<opening, picked, running, fired, trace, asked, routed, elapsed,
                   waiting, queue, outcome, eventVars>>

\* A tool is over: its step is done, and the trace holds what it brought.
ToolOver(t) ==
    /\ trace' = [t EXCEPT !.steps = @ + 1]
    /\ queue' = Append(queue, Step(trace.steps, "done"))
    /\ stage' = NextStage /\ running' = None /\ waiting' = 0
    /\ UNCHANGED <<opening, picked, fired, asked, routed, elapsed, outcome, eventVars>>

\* The tool answers with rows, or for a factual tool with its observation; it
\* may add a fact, name anchors, or say that the turn is to stop.
ToolReturns ==
    /\ Awaiting("tool")
    /\ \E rows, fact, anchors, stop \in BOOLEAN :
         ToolOver([trace EXCEPT !.rows = @ \/ (rows /\ running \notin Factual),
                                !.facts = @ \/ fact \/ running \in Factual,
                                !.anchors = @ \/ anchors,
                                !.halt = @ \/ stop])

\* wait_for() gives the tool up.
ToolTimedOut == Awaiting("tool") /\ waiting = ToolTimeout /\ ToolOver(trace)

\* Out of scope, no festival feed: an AppError that recoverable() lets through.
ToolRefuses == Awaiting("tool") /\ Raises("refused")

\* Any other exception of a tool, the database's for one.
ToolBreaks == Awaiting("tool") /\ Raises("broken")

\* CancelledError at the await; a task not yet started never runs its finally.
Cancelled ==
    /\ cancelled /\ stage \in {"opening", "asking", "tool"}
    /\ stage' = "closed" /\ outcome' = "cancelled"
    /\ running' = None /\ picked' = << >> /\ elapsed' = 0 /\ waiting' = 0
    /\ queue' = IF stage = "opening" THEN queue ELSE Append(queue, Close)
    /\ UNCHANGED <<opening, fired, trace, asked, routed, eventVars>>

\* Time passes in an await, up to its limit.
Tick ==
    /\ \/ stage = "asking" /\ waiting < DecideLimit
       \/ stage = "tool" /\ waiting < ToolTimeout
    /\ elapsed' = elapsed + 1 /\ waiting' = waiting + 1
    /\ UNCHANGED <<opening, stage, picked, running, fired, trace, asked, routed,
                   queue, outcome, eventVars>>

\* What the loop does by itself, and what the router and the tools answer.
LoopStep ==
    \/ Open \/ CallLimit \/ OutOfTime \/ AskModel \/ NextCall \/ RoundHalted \/ RoundOver
    \/ RouterTimedOut \/ ToolTimedOut \/ Cancelled

Answer ==
    \/ DecideDone \/ DecidePick \/ RouterDown \/ RouterLimited
    \/ ToolReturns \/ ToolRefuses \/ ToolBreaks

-----------------------------------------------------------------------------
(* The event generator.  Each yield reaches the reader as one event.         *)

Yield(e) == told' = After(told, e)

\* drain(): the next signal becomes a step event.
DrainStep ==
    /\ phase = "drain" /\ Suspended /\ queue # << >> /\ Head(queue) # Close
    /\ Yield(Head(queue)) /\ queue' = Tail(queue)
    /\ streamed' = IF Head(queue).status = "done" /\ Head(queue).index + 1 > streamed
                     THEN Head(queue).index + 1 ELSE streamed
    /\ UNCHANGED <<searchVars, phase, writerVars, cut, cancelled>>

\* The queue is closed, so the search is over: its result, its AppError (told
\* in a fixed reply with no cards) or its exception (the stream breaks off).
DrainClose ==
    /\ phase = "drain" /\ Suspended /\ queue # << >> /\ Head(queue) = Close
    /\ queue' = Tail(queue)
    /\ phase' = CASE outcome \in {"refused", "limited"} -> "canned"
                  [] outcome = "broken" -> "over"
                  [] OTHER -> "replay"
    /\ cut' = (outcome = "broken")
    /\ UNCHANGED <<searchVars, streamed, writerVars, told, cancelled>>

\* Steps of the response that were never streamed are sent now, run and done.
Replay ==
    /\ phase = "replay"
    /\ IF streamed < trace.steps
         THEN /\ Yield(Step(streamed, IF told.running THEN "done" ELSE "run"))
              /\ streamed' = IF told.running THEN streamed + 1 ELSE streamed
              /\ phase' = phase
         ELSE phase' = "cards" /\ UNCHANGED <<streamed, told>>
    /\ UNCHANGED <<searchVars, queue, writerVars, cut, cancelled>>

\* result.spots: the rows found, or the places the facts are about.
HasCards == outcome = "found" \/ (outcome = "facts" /\ trace.anchors)

ShowCards ==
    /\ phase = "cards"
    /\ IF HasCards THEN Yield(Cards) ELSE told' = told
    /\ phase' = IF outcome = "talk" THEN "canned" ELSE "write"
    /\ UNCHANGED <<searchVars, queue, streamed, writerVars, cut, cancelled>>

\* _canned(): a fixed reply as one delta, then done.
Canned ==
    /\ phase = "canned" /\ written = "nothing"
    /\ Yield(Delta("canned")) /\ written' = "canned" /\ phase' = "done"
    /\ UNCHANGED <<searchVars, queue, streamed, pieces, cut, cancelled>>

\* The writer model streams a piece, of words or of whitespace.
WriterPiece ==
    /\ phase = "write" /\ pieces < MaxPieces
    /\ \E t \in {"blank", "prose"} :
         /\ Yield(Delta(t))
         /\ written' = IF written = "prose" THEN written ELSE t
    /\ pieces' = pieces + 1
    /\ UNCHANGED <<searchVars, queue, phase, streamed, cut, cancelled>>

\* Slip: a prose answer skips the sources.
WriterStopsUnsourced ==
    /\ phase = "write"
    /\ phase' = IF written = "prose" THEN "done" ELSE "rescue"
    /\ UNCHANGED <<searchVars, queue, streamed, writerVars, told, cut, cancelled>>

\* The writer's stream ends, fails, or is idle too long: what it wrote is the
\* answer, and if that is blank the response's own sentences are.
WriterStops ==
    /\ phase = "write"
    /\ phase' = IF written = "prose" THEN "sources" ELSE "rescue"
    /\ UNCHANGED <<searchVars, queue, streamed, writerVars, told, cut, cancelled>>

Rescue ==
    /\ phase = "rescue"
    /\ Yield(Delta("rescue")) /\ written' = "rescue" /\ phase' = "sources"
    /\ UNCHANGED <<searchVars, queue, streamed, pieces, cut, cancelled>>

ShowSources ==
    /\ phase = "sources"
    /\ Yield(Sources) /\ phase' = "done"
    /\ UNCHANGED <<searchVars, queue, streamed, writerVars, cut, cancelled>>

Finish ==
    /\ phase = "done"
    /\ Yield(Done(written)) /\ phase' = "over"
    /\ UNCHANGED <<searchVars, queue, streamed, writerVars, cut, cancelled>>

\* The client goes away.  Only a generator still draining cancels the search.
Disconnect ==
    /\ phase # "over" /\ Suspended
    /\ phase' = "over" /\ cut' = TRUE /\ cancelled' = (phase = "drain")
    /\ UNCHANGED <<searchVars, queue, streamed, writerVars, told>>

EventStep ==
    \/ DrainStep \/ DrainClose \/ Replay \/ ShowCards \/ Canned
    \/ WriterPiece \/ WriterStops \/ Rescue \/ ShowSources \/ Finish

Next == LoopStep \/ Answer \/ Tick \/ EventStep \/ Disconnect

\* Both tasks are run by the event loop, and time passes in every wait.  What
\* the router and the tools answer, if at all, and whether the client stays,
\* is left open.
Fairness == WF_vars(LoopStep) /\ SF_vars(Tick) /\ WF_vars(EventStep)

Spec == Init /\ [][Next]_vars
FairSpec == Spec /\ Fairness

-----------------------------------------------------------------------------
(* Properties.                                                               *)

\* What the reader holds, a stream that was left before its done included.
View == IF cut THEN [told EXCEPT !.end = "cut"] ELSE told

Stream == INSTANCE ChatStream WITH view <- View

\* Whatever the tools, the router, the writer and the client do, the events of
\* chat.py come in the order the stream promises: no step twice or after the
\* cards, no second cards, no done without the answer it repeats.
ImplementsStream == Stream!Spec

\* Every turn comes to its end, and no search is left running behind it.
TurnEnds == <>(phase = "over" /\ stage = "closed")

\* The budget is looked at only between rounds, so the search may outlive it
\* by one question to the router and one full round of tools, and no more.
SearchLimit == TotalBudget - 1 + DecideLimit + MaxCallsPerRound * ToolTimeout

\* What the screen tells of the search is true, and came in time.  Once the drain
\* is over the steps on it are exactly the tools that ran, none missing, shown
\* twice, or shown for a call that was refused; rows that the search reports are
\* on it when the turn is done, also when facts came with them and when the
\* router died after they were found; and it never waits beyond SearchLimit.
ShownWithinBudget ==
    /\ phase \notin {"drain", "replay"} /\ ~cut =>
         View.shown + (IF View.running THEN 1 ELSE 0) = Cardinality(fired \ Unknown)
    /\ View.end = "done" /\ trace.rows /\ outcome \notin {"refused", "limited"} => View.cards
    /\ elapsed <= SearchLimit

\* Nothing starts after a stop.  After a tool has said stop no tool starts and
\* nothing more is gathered, neither for the calls left in its round nor for a
\* later round; and when the client leaves during the search, the search starts
\* no tool and asks the router nothing.
SearchIsStopped ==
    [][/\ trace.halt /\ stage # "tool" =>
            /\ stage' # "tool"
            /\ trace' = [trace EXCEPT !.stopped = trace'.stopped]
       /\ phase = "over" /\ stage' # stage => stage' = "closed"]_vars
===============================================================================
