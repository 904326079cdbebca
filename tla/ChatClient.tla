------------------------------ MODULE ChatClient ------------------------------
(****************************************************************************)
(* The travel tab of the mobile app: the chat store (chat-store.ts) and the  *)
(* screen that sends a question, a refinement chip or a retry and feeds the  *)
(* events of the reply into the store (travel.tsx run, onRefine, onRetry,    *)
(* onNewChat; api.ts streamChat; sse.ts).  Every call of run is an attempt   *)
(* with a stream of its own, and the server end of each stream is any        *)
(* behaviour that ChatStream allows.                                         *)
(****************************************************************************)
EXTENDS ChatEvents, Sequences, FiniteSets

CONSTANTS
    SentTexts,    \* the kinds of prose the server sends in these runs
    ErrorEvents,  \* the server may send an error event
    MaxTurns,     \* bound: turns begun
    MaxAttempts,  \* bound: requests sent
    MaxWire       \* bound: events on their way in one stream

ASSUME ClientAssumption ==
    /\ None \notin Nat /\ SentTexts \subseteq Texts /\ ErrorEvents \in BOOLEAN
    /\ MaxTurns \in Nat \ {0} /\ MaxAttempts \in Nat \ {0} /\ MaxWire \in Nat \ {0}

VARIABLES
    turns,      \* the store's turns
    streaming,  \* the store's flag
    activeId,   \* the turn the store is listening for
    issued,     \* how many turn ids were given out
    attempts,   \* every call of run: its turn, its request, its stream
    latest      \* abortRef: the attempt the screen can still abort

storeVars == <<turns, streaming, activeId, issued>>
clientVars == <<storeVars, attempts, latest>>

Attempts == DOMAIN attempts
Sent == {e \in Events : /\ e.name \in {"delta", "done"} => e.text \in SentTexts
                        /\ e.name = "error" => ErrorEvents}

\* A turn's body when a request for it starts.  steps: the indexes on the
\* screen still running, and done; heard: the attempts its words came from.
FreshBody == [status |-> "streaming", running |-> {}, finished |-> {},
              heard |-> {}, cards |-> FALSE]

Turn(id) == [id |-> id, body |-> FreshBody]

\* One call of run: view is what the server has sent, wire what is still on
\* its way, pending that the promise is neither resolved nor rejected.
Attempt(id) == [turn |-> id, view |-> Blank, wire |-> << >>, aborted |-> FALSE,
                pending |-> TRUE]

ClientInit ==
    /\ turns = << >> /\ streaming = FALSE /\ activeId = None /\ issued = 0
    /\ attempts = << >> /\ latest = None

-----------------------------------------------------------------------------
(* The store.                                                                *)

Newest == turns[Len(turns)]
IsDone(turn) == turn.body.status = "done"

Body(id) == turns[CHOOSE i \in DOMAIN turns : turns[i].id = id].body

\* patchTurn: the turn with this id gets a new body, no turn if there is none.
Patched(id, body) ==
    [i \in DOMAIN turns |->
        IF turns[i].id = id THEN [turns[i] EXCEPT !.body = body] ELSE turns[i]]

\* Slip: events are taken for whichever turn they name.
HearAll(id, body) == turns' = Patched(id, body)

\* Every event handler drops what is not for the turn listened to.
Hear(id, body) == turns' = IF activeId = id THEN Patched(id, body) ELSE turns

\* finish and fail also stop the listening.
Settle(id, body) ==
    /\ Hear(id, body)
    /\ streaming' = IF activeId = id THEN FALSE ELSE streaming
    /\ activeId' = IF activeId = id THEN None ELSE activeId

Fail(id) == Settle(id, [Body(id) EXCEPT !.status = "error"])

\* upsertStep: a step has one entry, with the status of its latest event.
Upserted(b, e) ==
    IF e.status = "run"
      THEN [b EXCEPT !.running = @ \cup {e.index}, !.finished = @ \ {e.index}]
      ELSE [b EXCEPT !.running = @ \ {e.index}, !.finished = @ \cup {e.index}]

\* finish: the server's answer replaces the text, and every step is done.
Finished(b, a) ==
    [b EXCEPT !.status = "done", !.heard = {a}, !.running = {},
              !.finished = @ \cup b.running]

\* The handlers run() passes to streamChat, for one event of attempt a.
Handle(a, e) ==
    LET id == attempts[a].turn
        Listen(body) == Hear(id, body) /\ UNCHANGED <<streaming, activeId>>
    IN  CASE e.name = "step"  -> Listen(Upserted(Body(id), e))
          [] e.name = "delta" -> Listen([Body(id) EXCEPT !.heard = @ \cup {a}])
          [] e.name = "cards" -> Listen([Body(id) EXCEPT !.cards = TRUE])
          [] e.name = "sources" -> Listen(Body(id))
          [] e.name = "done"  -> Settle(id, Finished(Body(id), a))
          [] e.name = "error" -> Fail(id)

-----------------------------------------------------------------------------
(* The user.                                                                 *)

\* run: a new request, which becomes the one that can be aborted.
Run(id) ==
    /\ Len(attempts) < MaxAttempts
    /\ attempts' = Append(attempts, Attempt(id))
    /\ latest' = Len(attempts) + 1

\* dispatch and onRefine: a question, or a chip, which asks in the same way.
Ask ==
    /\ ~streaming /\ issued < MaxTurns
    /\ issued' = issued + 1
    /\ streaming' = TRUE /\ activeId' = issued + 1
    /\ turns' = Append(turns, Turn(issued + 1))
    /\ Run(issued + 1)

\* Slip: the failed body is kept under the new request.
RetryKeeping ==
    /\ ~streaming /\ turns # << >> /\ Newest.body.status = "error"
    /\ streaming' = TRUE /\ activeId' = Newest.id
    /\ turns' = Patched(Newest.id, [Newest.body EXCEPT !.status = "streaming"])
    /\ UNCHANGED issued
    /\ Run(Newest.id)

\* onRetry: the last turn, if it failed, is asked again under its own id.
Retry ==
    /\ ~streaming /\ turns # << >> /\ Newest.body.status = "error"
    /\ streaming' = TRUE /\ activeId' = Newest.id
    /\ turns' = Patched(Newest.id, FreshBody)
    /\ UNCHANGED issued
    /\ Run(Newest.id)

\* onNewChat: the latest request is aborted, and the turns are cleared.
NewChat ==
    /\ turns # << >>
    /\ attempts' = IF latest = None THEN attempts
                   ELSE [attempts EXCEPT ![latest].aborted = TRUE]
    /\ latest' = None
    /\ turns' = << >> /\ streaming' = FALSE /\ activeId' = None
    /\ UNCHANGED issued

-----------------------------------------------------------------------------
(* The streams.                                                              *)

\* The server sends one more event that ChatStream allows, or the stream breaks.
ServerSends(a) ==
    /\ Len(attempts[a].wire) < MaxWire /\ ~attempts[a].aborted
    /\ \E e \in Sent :
         /\ May(attempts[a].view, e)
         /\ attempts' = [attempts EXCEPT ![a].view = After(@, e),
                                         ![a].wire = Append(@, e)]
    /\ UNCHANGED <<storeVars, latest>>

Breaks(a) ==
    /\ attempts[a].view.end = "open"
    /\ attempts' = [attempts EXCEPT ![a].view.end = "cut"]
    /\ UNCHANGED <<storeVars, latest>>

\* readSseStream: the next event goes to the handlers, unless aborted.
Receive(a) ==
    /\ attempts[a].pending /\ ~attempts[a].aborted /\ attempts[a].wire # << >>
    /\ Handle(a, Head(attempts[a].wire))
    /\ attempts' = [attempts EXCEPT ![a].wire = Tail(@)]
    /\ UNCHANGED <<issued, latest>>

\* An aborted promise comes back and does nothing.
Aborts(a) ==
    /\ attempts[a].pending /\ attempts[a].aborted
    /\ attempts' = [attempts EXCEPT ![a].pending = FALSE, ![a].wire = << >>]
    /\ UNCHANGED <<storeVars, latest>>

AtEnd(a) ==
    /\ attempts[a].pending /\ ~attempts[a].aborted
    /\ attempts[a].wire = << >> /\ attempts[a].view.end # "open"

\* Slip: a stream that ends without done leaves its turn as it is.
ResolvesSilently(a) ==
    /\ AtEnd(a)
    /\ attempts' = [attempts EXCEPT ![a].pending = FALSE]
    /\ UNCHANGED <<storeVars, latest>>

\* .then: the stream has ended; a turn still streaming under its id fails.
Resolves(a) ==
    /\ AtEnd(a)
    /\ attempts' = [attempts EXCEPT ![a].pending = FALSE]
    /\ LET id == attempts[a].turn
       IN  IF \E i \in DOMAIN turns : turns[i].id = id /\ turns[i].body.status = "streaming"
             THEN Fail(id) /\ UNCHANGED issued
             ELSE UNCHANGED storeVars
    /\ UNCHANGED latest

\* .catch: the request was refused, or the network failed, be it after done.
Rejects(a) ==
    /\ AtEnd(a)
    /\ attempts' = [attempts EXCEPT ![a].pending = FALSE]
    /\ Fail(attempts[a].turn)
    /\ UNCHANGED <<issued, latest>>

Client(a) == Receive(a) \/ Aborts(a) \/ Resolves(a) \/ Rejects(a)

ClientNext ==
    \/ Ask
    \/ Retry \/ NewChat
    \/ \E a \in Attempts : ServerSends(a) \/ Breaks(a) \/ Client(a)

ClientSpec == ClientInit /\ [][ClientNext]_clientVars

\* The app reads its streams.  The server ends every turn (ChatTurn, TurnEnds);
\* a connection lost on the way is taken to be noticed in the end.
ClientFairness ==
    \A a \in 1..MaxAttempts :
        /\ WF_clientVars(a \in Attempts /\ Client(a))
        /\ WF_clientVars(a \in Attempts /\ Breaks(a))

ClientFairSpec == ClientSpec /\ ClientFairness

-----------------------------------------------------------------------------
(* Properties.                                                               *)

\* The attempt a turn is waiting for, or waited for last.
OwnAttempt(turn) ==
    CHOOSE a \in Attempts :
        /\ attempts[a].turn = turn.id
        /\ \A b \in Attempts : attempts[b].turn = turn.id => b <= a

\* A turn that has ended stays as it is, whatever arrives, until the user
\* retries it or starts a new chat.
EndedStays ==
    [][\A i \in DOMAIN turns :
         turns[i].body.status # "streaming" /\ turns' # << >> /\ i \in DOMAIN turns' =>
            turns'[i] = turns[i] \/ turns'[i].body = FreshBody]_clientVars

\* The composer is never blocked for ever: a turn that streams comes to an end.
TurnSettles == streaming ~> ~streaming

\* Turns and requests are never mixed up.  At most one turn streams, the last
\* one, the one the store listens for, and the flag that blocks the composer says
\* so; the words of a turn come from its latest request alone, never from one
\* sent for another turn or before a new chat; and an answered turn shows every
\* step of its stream, none of them spinning, though a search that was refused
\* never reports its last step done.
TurnsAreApart ==
    /\ streaming = (activeId # None)
    /\ activeId # None => turns # << >> /\ Newest.id = activeId
    /\ \A i \in DOMAIN turns :
         /\ (turns[i].body.status = "streaming") = (activeId = turns[i].id /\ i = Len(turns))
         /\ turns[i].body.heard \subseteq {OwnAttempt(turns[i])}
         /\ IsDone(turns[i]) =>
              LET v == attempts[OwnAttempt(turns[i])].view
              IN  /\ v.end = "done" /\ turns[i].body.running = {}
                  /\ Cardinality(turns[i].body.finished) = v.shown + (IF v.running THEN 1 ELSE 0)
                  /\ turns[i].body.cards = v.cards
===============================================================================
