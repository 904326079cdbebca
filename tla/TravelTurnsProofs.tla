-------------------------- MODULE TravelTurnsProofs --------------------------
(***************************************************************************)
(* What every turn of a conversation keeps, for any calls the model may    *)
(* choose, users, spots and limits, whatever the pipeline hides meanwhile. *)
(***************************************************************************)
EXTENDS TravelTurns, SpotsProofs

---------------------------------------------------------------------------
\* What the model is told.

Names == Seq(ToolNames)
Turn == [role : {"user", "call", "observation"}, names : Names]
MessageIds == Seq(Nat \X Nat)
Message == [role : {"user", "assistant", "tool"}, ids : MessageIds, names : Names]
OpenAiAcc == [messages : Seq(Message), pending : MessageIds]
NothingSaid == [messages |-> <<>>, pending |-> <<>>]

\* The messages turn by turn.
SaysOpenAi(said, told) ==
    said = [n \in 0..Len(told) |->
              IF n = 0 THEN NothingSaid ELSE OpenAiTurn(said[n - 1], n, told[n])]

LEMMA IdsTyped ==
    ASSUME NEW index \in Nat, NEW names \in Names
    PROVE  [position \in DOMAIN names |-> OpenAiId(index, position)] \in MessageIds
<1>1. DOMAIN names = 1..Len(names) /\ Len(names) \in Nat
  BY LenProperties DEF Names
<1>2. [position \in DOMAIN names |-> OpenAiId(index, position)] \in [1..Len(names) -> Nat \X Nat]
  BY <1>1 DEF OpenAiId
<1> QED
  BY <1>1, <1>2, SeqDef DEF MessageIds

LEMMA OpenAiTurnTyped ==
    ASSUME NEW acc \in OpenAiAcc, NEW index \in Nat, NEW turn \in Turn
    PROVE  OpenAiTurn(acc, index, turn) \in OpenAiAcc
<1> DEFINE ids == [position \in DOMAIN turn.names |-> OpenAiId(index, position)]
           said(role, of) == Append(acc.messages, [role |-> role, ids |-> of, names |-> turn.names])
<1>1. ids \in MessageIds
  BY IdsTyped DEF Turn
<1>2. acc.messages \in Seq(Message) /\ acc.pending \in MessageIds /\ turn.names \in Names
  BY DEF OpenAiAcc, Turn
<1>3. ASSUME NEW role \in {"user", "assistant", "tool"}, NEW of \in MessageIds
      PROVE  said(role, of) \in Seq(Message)
  <2>1. [role |-> role, ids |-> of, names |-> turn.names] \in Message
    BY <1>2 DEF Message
  <2> QED
    BY <1>2, <2>1, AppendProperties
<1>4. <<>> \in MessageIds /\ <<<<index, 0>>>> \in MessageIds
  BY DEF MessageIds
<1>5. acc.pending # <<>> => <<Head(acc.pending)>> \in MessageIds /\ Tail(acc.pending) \in MessageIds
  BY <1>2, HeadTailProperties DEF MessageIds
<1> HIDE DEF ids
<1>6. CASE turn.role = "user"
  <2>1. OpenAiTurn(acc, index, turn) = [messages |-> said("user", <<>>), pending |-> acc.pending]
    BY <1>6 DEF OpenAiTurn
  <2> QED
    BY <1>2, <1>3, <1>4, <2>1 DEF OpenAiAcc
<1>7. CASE turn.role = "call"
  <2>1. OpenAiTurn(acc, index, turn) = [messages |-> said("assistant", ids), pending |-> ids]
    BY <1>7 DEF OpenAiTurn, ids
  <2> QED
    BY <1>1, <1>3, <2>1 DEF OpenAiAcc
<1>8. CASE turn.role = "observation" /\ acc.pending = <<>>
  <2>1. PICK of \in MessageIds : of = <<<<index, 0>>>>
    BY <1>4
  <2>2. OpenAiTurn(acc, index, turn) = [messages |-> said("tool", of), pending |-> <<>>]
    BY <1>8, <2>1 DEF OpenAiTurn
  <2>3. said("tool", of) \in Seq(Message)
    BY <1>3
  <2> HIDE DEF said
  <2> QED
    BY <1>4, <2>2, <2>3 DEF OpenAiAcc
<1>9. CASE turn.role = "observation" /\ acc.pending # <<>>
  <2>1. PICK of \in MessageIds : of = <<Head(acc.pending)>>
    BY <1>5, <1>9
  <2>2. OpenAiTurn(acc, index, turn)
          = [messages |-> said("tool", of), pending |-> Tail(acc.pending)]
    BY <1>9, <2>1 DEF OpenAiTurn
  <2>3. said("tool", of) \in Seq(Message)
    BY <1>3
  <2> HIDE DEF said
  <2> QED
    BY <1>5, <1>9, <2>2, <2>3 DEF OpenAiAcc
<1> QED
  BY <1>6, <1>7, <1>8, <1>9 DEF Turn

LEMMA OpenAiSays ==
    ASSUME NEW told \in Seq(Turn)
    PROVE  \E said : /\ SaysOpenAi(said, told)
                     /\ OpenAiSaid(told) = said[Len(told)]
                     /\ \A n \in 0..Len(told) : said[n] \in OpenAiAcc
<1> DEFINE N == Len(told)
           X == OpenAiAcc
           step == [i \in 1..N |-> [acc \in X |-> OpenAiTurn(acc, i, told[i])]]
<1>1. N \in Nat /\ \A i \in 1..N : told[i] \in Turn
  BY LenProperties, ElementOfSeq
<1>2. NothingSaid \in X
  BY DEF NothingSaid, OpenAiAcc, MessageIds
<1>3. step \in [1..N -> [X -> X]]
  <2> HIDE DEF X
  <2>1. ASSUME NEW i \in 1..N, NEW acc \in X PROVE OpenAiTurn(acc, i, told[i]) \in X
    BY <1>1, OpenAiTurnTyped DEF X
  <2> QED
    BY <2>1
<1>4. PICK f : f \in [0..N -> X] /\ f[0] = NothingSaid /\ \A i \in 1..N : f[i] = step[i][f[i - 1]]
  <2> HIDE DEF step, X, N
  <2>1. PICK f : Steps(f, N, X, NothingSaid, step)
    BY <1>1, <1>2, <1>3, Iterated
  <2> QED
    BY <2>1 DEF Steps
<1>5. \A i \in 1..N : f[i] = OpenAiTurn(f[i - 1], i, told[i])
  <2> SUFFICES ASSUME NEW i \in 1..N PROVE f[i] = OpenAiTurn(f[i - 1], i, told[i])
    OBVIOUS
  <2>1. f[i - 1] \in X
    BY <1>1, <1>4
  <2> HIDE DEF X
  <2> QED
    BY <1>4, <2>1
<1>6. SaysOpenAi(f, told)
  <2> HIDE DEF X, step
  <2>1. \A n \in 0..N : f[n] = IF n = 0 THEN NothingSaid ELSE OpenAiTurn(f[n - 1], n, told[n])
    BY <1>1, <1>4, <1>5
  <2> QED
    BY <1>4, <2>1 DEF SaysOpenAi
<1>7. PICK said : said = CHOOSE h : SaysOpenAi(h, told)
  OBVIOUS
<1>8. SaysOpenAi(said, told)
  BY <1>6, <1>7
<1>9. OpenAiSaid(told) = said[Len(told)]
  BY <1>7 DEF OpenAiSaid, SaysOpenAi, NothingSaid
<1>10. said[0] = f[0] /\ \A i \in 1..N : said[i - 1] = f[i - 1] => said[i] = f[i]
  <2>1. \A n \in 0..N : said[n] = IF n = 0 THEN NothingSaid ELSE OpenAiTurn(said[n - 1], n, told[n])
    BY <1>8 DEF SaysOpenAi
  <2> HIDE DEF X, step
  <2> QED
    BY <1>1, <1>4, <1>5, <2>1
<1>11. \A n \in 0..N : said[n] = f[n]
  <2>1. N \in Nat
    BY <1>1
  <2> HIDE DEF N, step, X
  <2>2. KeepsPace(said, f, N)
    BY ONLY <1>10 DEF KeepsPace
  <2>3. AgreeUpTo(said, f, N)
    BY ONLY <2>1, <2>2, IteratedAlike
  <2> QED
    BY ONLY <2>3 DEF AgreeUpTo
<1> QED
  BY <1>4, <1>8, <1>9, <1>11

LEMMA OpenAiAppend ==
    ASSUME NEW told \in Seq(Turn), NEW turn \in Turn
    PROVE  /\ OpenAiSaid(told) \in OpenAiAcc
           /\ OpenAiSaid(Append(told, turn)) = OpenAiTurn(OpenAiSaid(told), Len(told) + 1, turn)
<1> DEFINE N == Len(told)
<1>1. PICK more : more = Append(told, turn)
  OBVIOUS
<1>2. more \in Seq(Turn) /\ Len(more) = N + 1 /\ N \in Nat
      /\ more[N + 1] = turn /\ \A i \in 1..N : more[i] = told[i]
  BY <1>1, AppendProperties, LenProperties
<1>3. PICK said : /\ SaysOpenAi(said, told) /\ OpenAiSaid(told) = said[Len(told)]
                  /\ \A n \in 0..Len(told) : said[n] \in OpenAiAcc
  BY OpenAiSays
<1>4. PICK next : SaysOpenAi(next, more) /\ OpenAiSaid(more) = next[Len(more)]
  BY <1>2, OpenAiSays
<1>5. \A n \in 0..N : said[n] = IF n = 0 THEN NothingSaid ELSE OpenAiTurn(said[n - 1], n, told[n])
  BY <1>3 DEF SaysOpenAi
<1>6. \A n \in 0..(N + 1) : next[n] = IF n = 0 THEN NothingSaid ELSE OpenAiTurn(next[n - 1], n, more[n])
  BY <1>2, <1>4 DEF SaysOpenAi
<1> HIDE DEF N
<1>7. next[0] = said[0] /\ \A i \in 1..N : next[i - 1] = said[i - 1] => next[i] = said[i]
  BY <1>2, <1>5, <1>6
<1>8. \A n \in 0..N : next[n] = said[n]
  <2>1. N \in Nat
    BY <1>2
  <2>2. KeepsPace(next, said, N)
    BY ONLY <1>7 DEF KeepsPace
  <2>3. AgreeUpTo(next, said, N)
    BY ONLY <2>1, <2>2, IteratedAlike
  <2> QED
    BY ONLY <2>3 DEF AgreeUpTo
<1>9. next[N + 1] = OpenAiTurn(next[N], N + 1, turn)
  <2>1. N + 1 \in 0..(N + 1) /\ N + 1 # 0 /\ (N + 1) - 1 = N
    BY <1>2
  <2> QED
    BY <1>2, <1>6, <2>1
<1>10. next[N] = said[N] /\ said[N] \in OpenAiAcc
  BY <1>2, <1>3, <1>8 DEF N
<1> QED
  BY <1>1, <1>2, <1>3, <1>4, <1>9, <1>10 DEF N

LEMMA OpenAiEmpty == OpenAiSaid(<<>>) = NothingSaid
<1>1. <<>> \in Seq(Turn) /\ Len(<<>>) = 0
  BY EmptySeq
<1>2. PICK said : SaysOpenAi(said, <<>>) /\ OpenAiSaid(<<>>) = said[0]
  BY <1>1, OpenAiSays
<1> QED
  BY <1>1, <1>2 DEF SaysOpenAi

\* The messages of a dialogue whose last round has the calls `left` still to be
\* observed: a call has the id of its message and its place, those observed are
\* answered next to it in their order, the others are those the ids still await.
Spoken(m, j, k) == j \in 1..Len(m) /\ m[j].role = "assistant" /\ k \in 1..Len(m[j].ids)

OwnIds(m) ==
    /\ \A j \in 1..Len(m) : m[j].role = "assistant" => Len(m[j].names) = Len(m[j].ids)
    /\ \A j, k \in Nat : Spoken(m, j, k) => m[j].ids[k] = <<j, k>>

AnsweredTo(m, j, k) == [role |-> "tool", ids |-> <<m[j].ids[k]>>, names |-> <<m[j].names[k]>>]

Answered(m) == \A j, k \in Nat : Spoken(m, j, k) /\ j + k <= Len(m) => m[j + k] = AnsweredTo(m, j, k)

Awaited(m, pending, left) ==
    /\ Len(pending) = Len(left)
    /\ \A j, k \in Nat : Spoken(m, j, k) /\ j + k > Len(m) =>
          /\ (j + k) - Len(m) \in 1..Len(left)
          /\ pending[(j + k) - Len(m)] = m[j].ids[k]
          /\ left[(j + k) - Len(m)] = m[j].names[k]

\* Position n of the messages is for an answer to the calls of message j.
AnswerAt(m, j, n) == j \in 1..Len(m) /\ m[j].role = "assistant" /\ j < n /\ n <= j + Len(m[j].ids)

Prompted(m, left) ==
    /\ \A n \in 1..Len(m) : m[n].role = "tool" => \E j \in Nat : AnswerAt(m, j, n)
    /\ \A d \in 1..Len(left) : \E j \in Nat : AnswerAt(m, j, Len(m) + d)

OpenAiSound(acc, left) ==
    /\ acc \in OpenAiAcc /\ left \in Names
    /\ OwnIds(acc.messages) /\ Answered(acc.messages)
    /\ Awaited(acc.messages, acc.pending, left) /\ Prompted(acc.messages, left)

LEMMA Longer ==
    ASSUME NEW m \in Seq(Message), NEW x \in Message
    PROVE  /\ Append(m, x) \in Seq(Message) /\ Len(m) \in Nat /\ Len(Append(m, x)) = Len(m) + 1
           /\ Append(m, x)[Len(m) + 1] = x
           /\ \A i \in 1..Len(m) : Append(m, x)[i] = m[i] /\ m[i] \in Message
BY AppendProperties, LenProperties, ElementOfSeq

LEMMA PartsOfMessage ==
    ASSUME NEW x \in Message
    PROVE  /\ x.ids \in MessageIds /\ DOMAIN x.ids = 1..Len(x.ids) /\ Len(x.ids) \in Nat
           /\ x.names \in Names
<1>1. x.ids \in MessageIds /\ x.names \in Names
  BY DEF Message
<1> QED
  BY <1>1, LenProperties DEF MessageIds

LEMMA NothingAwaited ==
    ASSUME NEW m \in Seq(Message), NEW pending, Awaited(m, pending, <<>>)
    PROVE  \A j, k \in Nat : Spoken(m, j, k) => j \in 1..Len(m) /\ k >= 1 /\ j + k <= Len(m)
<1> SUFFICES ASSUME NEW j \in Nat, NEW k \in Nat, Spoken(m, j, k)
             PROVE  j \in 1..Len(m) /\ k >= 1 /\ j + k <= Len(m)
  OBVIOUS
<1>1. Len(m) \in Nat /\ j \in 1..Len(m) /\ m[j] \in Message
  BY LenProperties, ElementOfSeq DEF Spoken
<1>2. Len(m[j].ids) \in Nat
  BY <1>1, PartsOfMessage
<1>3. k >= 1
  BY <1>2 DEF Spoken
<1>4. j + k > Len(m) => (j + k) - Len(m) \in 1..0
  <2>1. Len(<<>>) = 0
    OBVIOUS
  <2> QED
    BY <2>1 DEF Awaited
<1> QED
  BY <1>1, <1>3, <1>4

LEMMA OpenAiDone ==
    ASSUME NEW acc, OpenAiSound(acc, <<>>), NEW told, OpenAiMessages(told) = acc.messages
    PROVE  OpenAiAccepts(told)
<1> DEFINE m == OpenAiMessages(told)
           spoken == {i \in DOMAIN m : m[i].role = "assistant"}
           idsOf(i) == {m[i].ids[k] : k \in DOMAIN m[i].ids}
<1>1. m = acc.messages
  OBVIOUS
<1> HIDE DEF m
<1>2. m \in Seq(Message) /\ DOMAIN m = 1..Len(m) /\ Len(m) \in Nat
  BY <1>1, LenProperties DEF OpenAiSound, OpenAiAcc
<1>3. \A i \in DOMAIN m : DOMAIN m[i].ids = 1..Len(m[i].ids) /\ Len(m[i].ids) \in Nat
  <2> SUFFICES ASSUME NEW i \in DOMAIN m PROVE DOMAIN m[i].ids = 1..Len(m[i].ids) /\ Len(m[i].ids) \in Nat
    OBVIOUS
  <2>1. m[i] \in Message
    BY <1>2, ElementOfSeq
  <2> QED
    BY <2>1, PartsOfMessage
<1>4. OwnIds(m) /\ Answered(m) /\ Awaited(m, acc.pending, <<>>) /\ Prompted(m, <<>>)
  BY <1>1 DEF OpenAiSound
<1>5. \A j, k \in Nat : Spoken(m, j, k) => j \in 1..Len(m) /\ k >= 1 /\ j + k <= Len(m)
  BY <1>2, <1>4, NothingAwaited
<1>6. ASSUME NEW i \in spoken, NEW j \in spoken, i # j PROVE idsOf(i) \cap idsOf(j) = {}
  <2> SUFFICES ASSUME NEW k \in DOMAIN m[i].ids, NEW l \in DOMAIN m[j].ids, m[i].ids[k] = m[j].ids[l]
               PROVE  FALSE
    OBVIOUS
  <2>1. k \in Nat /\ l \in Nat /\ i \in Nat /\ j \in Nat /\ Spoken(m, i, k) /\ Spoken(m, j, l)
    BY <1>2, <1>3 DEF Spoken
  <2>2. m[i].ids[k] = <<i, k>> /\ m[j].ids[l] = <<j, l>>
    BY <1>4, <2>1 DEF OwnIds
  <2>3. <<i, k>> = <<j, l>>
    BY <2>2
  <2>4. <<i, k>>[1] = i /\ <<j, l>>[1] = j
    OBVIOUS
  <2> QED
    BY ONLY <1>6, <2>3, <2>4
<1>7. ASSUME NEW i \in spoken, NEW k \in DOMAIN m[i].ids
      PROVE  i + k \in DOMAIN m /\ m[i + k] = AnsweredTo(m, i, k)
  <2>1. Spoken(m, i, k) /\ i \in Nat /\ k \in Nat
    BY <1>2, <1>3, <1>7 DEF Spoken
  <2>2. i + k <= Len(m) /\ k >= 1 /\ i >= 1
    BY <1>5, <2>1
  <2>3. m[i + k] = AnsweredTo(m, i, k)
    BY <1>4, <2>1, <2>2 DEF Answered
  <2> QED
    BY <1>2, <2>1, <2>2, <2>3
<1>8. ASSUME NEW i \in DOMAIN m, m[i].role = "tool"
      PROVE  \E j \in spoken : j < i /\ i <= j + Len(m[j].ids)
  BY <1>2, <1>4, <1>8 DEF Prompted, AnswerAt
<1>9. /\ \A i, j \in spoken : i # j => idsOf(i) \cap idsOf(j) = {}
      /\ \A i \in spoken : \A k \in DOMAIN m[i].ids : i + k \in DOMAIN m /\ m[i + k] = AnsweredTo(m, i, k)
      /\ \A i \in DOMAIN m : m[i].role = "tool" => \E j \in spoken : j < i /\ i <= j + Len(m[j].ids)
  <2> HIDE DEF spoken, idsOf
  <2> QED
    BY <1>6, <1>7, <1>8
<1> QED
  BY ONLY <1>9 DEF OpenAiAccepts, AnsweredTo, m

LEMMA OpenAiAsked ==
    ASSUME NEW acc, OpenAiSound(acc, <<>>)
    PROVE  LET next == OpenAiTurn(acc, Len(acc.messages) + 1, UserTurn)
           IN  OpenAiSound(next, <<>>) /\ Len(next.messages) = Len(acc.messages) + 1
<1>1. PICK next : next = OpenAiTurn(acc, Len(acc.messages) + 1, UserTurn)
  OBVIOUS
<1>2. PICK m : m = acc.messages
  OBVIOUS
<1>3. PICK x : x = [role |-> "user", ids |-> <<>>, names |-> <<>>]
  OBVIOUS
<1>4. x \in Message /\ m \in Seq(Message)
  BY <1>2, <1>3 DEF Message, MessageIds, Names, OpenAiSound, OpenAiAcc
<1>5. PICK m2 : m2 = Append(m, x)
  OBVIOUS
<1>6. m2 \in Seq(Message) /\ Len(m) \in Nat /\ Len(m2) = Len(m) + 1
      /\ m2[Len(m) + 1] = x /\ \A i \in 1..Len(m) : m2[i] = m[i]
  BY <1>4, <1>5, Longer
<1>7. next = [messages |-> m2, pending |-> acc.pending]
  BY <1>1, <1>2, <1>3, <1>5 DEF OpenAiTurn, UserTurn
<1>8. next \in OpenAiAcc /\ next.messages = m2 /\ next.pending = acc.pending
  BY <1>6, <1>7 DEF OpenAiSound, OpenAiAcc
<1>9. OwnIds(m) /\ Answered(m) /\ Awaited(m, acc.pending, <<>>) /\ Prompted(m, <<>>) /\ Len(<<>>) = 0
      /\ <<>> \in Names
  BY <1>2 DEF OpenAiSound
<1>10. \A j, k \in Nat : Spoken(m2, j, k) => Spoken(m, j, k) /\ j \in 1..Len(m) /\ m2[j] = m[j]
  BY <1>3, <1>6 DEF Spoken
<1>11. \A j, k \in Nat : Spoken(m, j, k) => j \in 1..Len(m) /\ k >= 1 /\ j + k <= Len(m)
  BY <1>4, <1>9, NothingAwaited
<1>12. OwnIds(m2)
  <2>1. ASSUME NEW j \in 1..Len(m2), m2[j].role = "assistant" PROVE Len(m2[j].names) = Len(m2[j].ids)
    <3>1. j \in 1..Len(m) /\ m2[j] = m[j]
      BY <1>3, <1>6, <2>1
    <3> QED
      BY <1>9, <2>1, <3>1 DEF OwnIds
  <2>2. ASSUME NEW j \in Nat, NEW k \in Nat, Spoken(m2, j, k) PROVE m2[j].ids[k] = <<j, k>>
    BY <1>9, <1>10, <2>2 DEF OwnIds
  <2> QED
    BY <2>1, <2>2 DEF OwnIds
<1>13. Answered(m2)
  <2> SUFFICES ASSUME NEW j \in Nat, NEW k \in Nat, Spoken(m2, j, k) PROVE m2[j + k] = AnsweredTo(m2, j, k)
    BY DEF Answered
  <2>1. Spoken(m, j, k) /\ m2[j] = m[j] /\ j + k <= Len(m) /\ j \in 1..Len(m) /\ k >= 1
    BY <1>10, <1>11
  <2>2. m2[j + k] = m[j + k]
    BY <1>6, <2>1
  <2> QED
    BY <1>9, <2>1, <2>2 DEF Answered, AnsweredTo
<1>14. Awaited(m2, acc.pending, <<>>)
  BY <1>6, <1>9, <1>10, <1>11 DEF Awaited
<1>15. Prompted(m2, <<>>)
  <2>1. \A n \in 1..Len(m2) : m2[n].role = "tool" => n \in 1..Len(m) /\ m[n].role = "tool"
    BY <1>3, <1>6
  <2>2. \A j, n \in Nat : AnswerAt(m, j, n) => AnswerAt(m2, j, n)
    BY <1>6 DEF AnswerAt
  <2> QED
    BY <1>6, <1>9, <2>1, <2>2 DEF Prompted
<1> QED
  BY <1>1, <1>2, <1>6, <1>8, <1>9, <1>12, <1>13, <1>14, <1>15 DEF OpenAiSound

LEMMA OpenAiCalled ==
    ASSUME NEW acc, OpenAiSound(acc, <<>>), NEW names \in Names
    PROVE  LET next == OpenAiTurn(acc, Len(acc.messages) + 1, [role |-> "call", names |-> names])
           IN  OpenAiSound(next, names) /\ Len(next.messages) = Len(acc.messages) + 1
<1>1. PICK next : next = OpenAiTurn(acc, Len(acc.messages) + 1, [role |-> "call", names |-> names])
  OBVIOUS
<1>2. PICK m : m = acc.messages
  OBVIOUS
<1>3. PICK ids : ids = [position \in DOMAIN names |-> OpenAiId(Len(m) + 1, position)]
  OBVIOUS
<1>4. PICK x : x = [role |-> "assistant", ids |-> ids, names |-> names]
  OBVIOUS
<1>5. m \in Seq(Message) /\ Len(m) \in Nat
  BY <1>2, LenProperties DEF OpenAiSound, OpenAiAcc
<1>6. ids \in MessageIds
  BY <1>3, <1>5, IdsTyped
<1>7. x \in Message
  BY <1>4, <1>6 DEF Message
<1>8. PICK m2 : m2 = Append(m, x)
  OBVIOUS
<1>9. m2 \in Seq(Message) /\ Len(m2) = Len(m) + 1
      /\ m2[Len(m) + 1] = x /\ \A i \in 1..Len(m) : m2[i] = m[i]
  BY <1>5, <1>7, <1>8, Longer
<1>10. next = [messages |-> m2, pending |-> ids]
  BY <1>1, <1>2, <1>3, <1>4, <1>8 DEF OpenAiTurn
<1>11. next \in OpenAiAcc /\ next.messages = m2 /\ next.pending = ids
  BY <1>6, <1>9, <1>10 DEF OpenAiAcc
<1>12. OwnIds(m) /\ Answered(m) /\ Awaited(m, acc.pending, <<>>) /\ Prompted(m, <<>>) /\ Len(<<>>) = 0
  BY <1>2 DEF OpenAiSound
<1>13. /\ DOMAIN names = 1..Len(names) /\ Len(names) \in Nat
       /\ Len(ids) = Len(names) /\ \A k \in 1..Len(names) : ids[k] = <<Len(m) + 1, k>>
  <2>1. DOMAIN names = 1..Len(names) /\ Len(names) \in Nat
    BY LenProperties DEF Names
  <2>2. DOMAIN ids = 1..Len(ids) /\ Len(ids) \in Nat
    BY <1>6, LenProperties DEF MessageIds
  <2>3. DOMAIN ids = 1..Len(names)
    BY <1>3, <2>1
  <2>4. Len(ids) = Len(names)
    <3>1. 1..Len(ids) = 1..Len(names)
      BY <2>2, <2>3
    <3> QED
      BY ONLY <2>1, <2>2, <3>1, SameEnd
  <2>5. ASSUME NEW k \in 1..Len(names) PROVE ids[k] = <<Len(m) + 1, k>>
    BY <1>3, <2>1 DEF OpenAiId
  <2> QED
    BY <2>1, <2>4, <2>5
<1>14. x.role = "assistant" /\ x.ids = ids /\ x.names = names
  BY <1>4
<1>15. \A j, k \in Nat : Spoken(m2, j, k) =>
          \/ Spoken(m, j, k) /\ j \in 1..Len(m) /\ m2[j] = m[j]
          \/ j = Len(m) + 1 /\ m2[j] = x /\ k \in 1..Len(names)
  BY <1>5, <1>9, <1>13, <1>14 DEF Spoken
<1>16. \A j, k \in Nat : Spoken(m, j, k) => j \in 1..Len(m) /\ k >= 1 /\ j + k <= Len(m)
  BY <1>5, <1>12, NothingAwaited
<1>17. OwnIds(m2)
  <2>1. ASSUME NEW j \in 1..Len(m2), m2[j].role = "assistant" PROVE Len(m2[j].names) = Len(m2[j].ids)
    <3>1. CASE j \in 1..Len(m)
      <4>1. m2[j] = m[j]
        BY <1>9, <3>1
      <4> QED
        BY <1>12, <2>1, <3>1, <4>1 DEF OwnIds
    <3>2. CASE j = Len(m) + 1
      BY <1>9, <1>13, <1>14, <3>2
    <3> QED
      BY <1>5, <1>9, <3>1, <3>2
  <2>2. ASSUME NEW j \in Nat, NEW k \in Nat, Spoken(m2, j, k) PROVE m2[j].ids[k] = <<j, k>>
    BY <1>12, <1>13, <1>14, <1>15, <2>2 DEF OwnIds
  <2> QED
    BY <2>1, <2>2 DEF OwnIds
<1>18. Answered(m2)
  <2> SUFFICES ASSUME NEW j \in Nat, NEW k \in Nat, Spoken(m2, j, k), j + k <= Len(m2)
               PROVE  m2[j + k] = AnsweredTo(m2, j, k)
    BY DEF Answered
  <2>1. Spoken(m, j, k) /\ m2[j] = m[j] /\ j + k <= Len(m) /\ j \in 1..Len(m) /\ k >= 1
    <3>1. CASE j = Len(m) + 1 /\ k \in 1..Len(names)
      BY <1>5, <1>9, <1>13, <3>1
    <3>2. CASE Spoken(m, j, k) /\ m2[j] = m[j]
      BY <1>16, <3>2
    <3> QED
      BY <1>15, <3>1, <3>2
  <2>2. m2[j + k] = m[j + k]
    BY <1>9, <2>1
  <2> QED
    BY <1>12, <2>1, <2>2 DEF Answered, AnsweredTo
<1>19. Awaited(m2, ids, names)
  <2> SUFFICES ASSUME NEW j \in Nat, NEW k \in Nat, Spoken(m2, j, k), j + k > Len(m2)
               PROVE  /\ (j + k) - Len(m2) \in 1..Len(names)
                      /\ ids[(j + k) - Len(m2)] = m2[j].ids[k]
                      /\ names[(j + k) - Len(m2)] = m2[j].names[k]
    BY <1>13 DEF Awaited
  <2>1. j = Len(m) + 1 /\ m2[j] = x /\ k \in 1..Len(names)
    BY <1>5, <1>9, <1>15, <1>16
  <2>2. (j + k) - Len(m2) = k
    BY <1>5, <1>9, <2>1
  <2> QED
    BY <1>14, <2>1, <2>2
<1>20. Prompted(m2, names)
  <2>1. ASSUME NEW n \in 1..Len(m2), m2[n].role = "tool" PROVE \E j \in Nat : AnswerAt(m2, j, n)
    <3>1. n \in 1..Len(m) /\ m[n].role = "tool"
      BY <1>5, <1>9, <1>14, <2>1
    <3>2. PICK j \in Nat : AnswerAt(m, j, n)
      BY <1>12, <3>1 DEF Prompted
    <3> QED
      BY <1>5, <1>9, <3>2 DEF AnswerAt
  <2>2. ASSUME NEW d \in 1..Len(names) PROVE AnswerAt(m2, Len(m) + 1, Len(m2) + d)
    BY <1>5, <1>9, <1>13, <1>14 DEF AnswerAt
  <2> QED
    BY <1>5, <2>1, <2>2 DEF Prompted
<1> QED
  BY <1>1, <1>2, <1>9, <1>11, <1>17, <1>18, <1>19, <1>20 DEF OpenAiSound

LEMMA OpenAiObserved ==
    ASSUME NEW acc, NEW left, OpenAiSound(acc, left), left # <<>>
    PROVE  LET next == OpenAiTurn(acc, Len(acc.messages) + 1,
                                  [role |-> "observation", names |-> <<Head(left)>>])
           IN  OpenAiSound(next, Tail(left)) /\ Len(next.messages) = Len(acc.messages) + 1
<1>1. PICK next : next = OpenAiTurn(acc, Len(acc.messages) + 1,
                                    [role |-> "observation", names |-> <<Head(left)>>])
  OBVIOUS
<1>2. PICK m : m = acc.messages
  OBVIOUS
<1>3. PICK pending : pending = acc.pending
  OBVIOUS
<1>4. m \in Seq(Message) /\ Len(m) \in Nat /\ pending \in MessageIds /\ left \in Names
  BY <1>2, <1>3, LenProperties DEF OpenAiSound, OpenAiAcc
<1>5. OwnIds(m) /\ Answered(m) /\ Awaited(m, pending, left) /\ Prompted(m, left)
  BY <1>2, <1>3 DEF OpenAiSound
<1>6. /\ Head(left) = left[1] /\ Head(left) \in ToolNames /\ Tail(left) \in Names
      /\ Len(left) \in Nat \ {0} /\ Len(Tail(left)) = Len(left) - 1
      /\ \A i \in 1..(Len(left) - 1) : Tail(left)[i] = left[i + 1]
  BY <1>4, HeadTailProperties, LenProperties, EmptySeq, ElementOfSeq DEF Names
<1>7. pending # <<>> /\ Len(pending) = Len(left)
  <2>1. Len(<<>>) = 0
    OBVIOUS
  <2> QED
    BY <1>5, <1>6, <2>1 DEF Awaited
<1>8. /\ Head(pending) = pending[1] /\ Head(pending) \in Nat \X Nat /\ Tail(pending) \in MessageIds
      /\ Len(Tail(pending)) = Len(left) - 1
      /\ \A i \in 1..(Len(left) - 1) : Tail(pending)[i] = pending[i + 1]
  BY <1>4, <1>6, <1>7, HeadTailProperties, LenProperties, ElementOfSeq DEF MessageIds
<1>9. PICK x : x = [role |-> "tool", ids |-> <<Head(pending)>>, names |-> <<Head(left)>>]
  OBVIOUS
<1>10. x \in Message /\ x.role = "tool"
  BY <1>6, <1>8, <1>9 DEF Message, MessageIds, Names
<1>11. PICK m2 : m2 = Append(m, x)
  OBVIOUS
<1>12. m2 \in Seq(Message) /\ Len(m2) = Len(m) + 1
       /\ m2[Len(m) + 1] = x /\ \A i \in 1..Len(m) : m2[i] = m[i]
  BY <1>4, <1>10, <1>11, Longer
<1>13. next = [messages |-> m2, pending |-> Tail(pending)]
  BY <1>1, <1>2, <1>3, <1>7, <1>9, <1>11 DEF OpenAiTurn
<1>14. next \in OpenAiAcc /\ next.messages = m2 /\ next.pending = Tail(pending)
  BY <1>8, <1>12, <1>13 DEF OpenAiAcc
<1>15. \A j, k \in Nat : Spoken(m2, j, k) => Spoken(m, j, k) /\ j \in 1..Len(m) /\ m2[j] = m[j]
  BY <1>4, <1>10, <1>12 DEF Spoken
<1>16. OwnIds(m2)
  <2>1. ASSUME NEW j \in 1..Len(m2), m2[j].role = "assistant" PROVE Len(m2[j].names) = Len(m2[j].ids)
    <3>1. j \in 1..Len(m) /\ m2[j] = m[j]
      BY <1>4, <1>10, <1>12, <2>1
    <3> QED
      BY <1>5, <2>1, <3>1 DEF OwnIds
  <2>2. ASSUME NEW j \in Nat, NEW k \in Nat, Spoken(m2, j, k) PROVE m2[j].ids[k] = <<j, k>>
    BY <1>5, <1>15, <2>2 DEF OwnIds
  <2> QED
    BY <2>1, <2>2 DEF OwnIds
<1>17. Answered(m2)
  <2> SUFFICES ASSUME NEW j \in Nat, NEW k \in Nat, Spoken(m2, j, k), j + k <= Len(m2)
               PROVE  m2[j + k] = AnsweredTo(m2, j, k)
    BY DEF Answered
  <2>1. Spoken(m, j, k) /\ m2[j] = m[j] /\ j \in 1..Len(m) /\ k >= 1
    BY <1>15 DEF Spoken
  <2>2. CASE j + k <= Len(m)
    <3>1. m2[j + k] = m[j + k]
      BY <1>12, <2>1, <2>2
    <3> QED
      BY <1>5, <2>1, <2>2, <3>1 DEF Answered, AnsweredTo
  <2>3. CASE j + k = Len(m) + 1
    <3>1. j + k > Len(m) /\ (j + k) - Len(m) = 1
      BY <1>4, <2>3
    <3>2. pending[1] = m[j].ids[k] /\ left[1] = m[j].names[k]
      BY <1>5, <2>1, <3>1 DEF Awaited
    <3> QED
      BY <1>6, <1>8, <1>9, <1>12, <2>1, <2>3, <3>2 DEF AnsweredTo
  <2> QED
    BY <1>4, <1>12, <2>1, <2>2, <2>3
<1>18. Awaited(m2, Tail(pending), Tail(left))
  <2> SUFFICES ASSUME NEW j \in Nat, NEW k \in Nat, Spoken(m2, j, k), j + k > Len(m2)
               PROVE  /\ (j + k) - Len(m2) \in 1..Len(Tail(left))
                      /\ Tail(pending)[(j + k) - Len(m2)] = m2[j].ids[k]
                      /\ Tail(left)[(j + k) - Len(m2)] = m2[j].names[k]
    BY <1>6, <1>8 DEF Awaited
  <2>1. Spoken(m, j, k) /\ m2[j] = m[j] /\ j + k > Len(m)
    BY <1>4, <1>12, <1>15
  <2>2. /\ (j + k) - Len(m) \in 1..Len(left)
        /\ pending[(j + k) - Len(m)] = m[j].ids[k] /\ left[(j + k) - Len(m)] = m[j].names[k]
    BY <1>5, <2>1 DEF Awaited
  <2>3. PICK e \in Int : e = (j + k) - Len(m)
    BY <1>4
  <2>4. e \in 1..Len(left) /\ (j + k) - Len(m2) = e - 1
    BY <1>4, <1>12, <2>2, <2>3
  <2>5. e > 1
    BY <1>4, <1>12, <2>3
  <2>6. e - 1 \in 1..(Len(left) - 1) /\ (e - 1) + 1 = e
    BY <1>6, <2>4, <2>5
  <2> QED
    BY <1>6, <1>8, <2>1, <2>2, <2>3, <2>4, <2>6
<1>19. Prompted(m2, Tail(left))
  <2>1. \A j, n \in Nat : AnswerAt(m, j, n) => AnswerAt(m2, j, n)
    BY <1>4, <1>12 DEF AnswerAt
  <2>2. ASSUME NEW n \in 1..Len(m2), m2[n].role = "tool" PROVE \E j \in Nat : AnswerAt(m2, j, n)
    <3>1. CASE n \in 1..Len(m)
      BY <1>5, <1>12, <2>1, <2>2, <3>1 DEF Prompted
    <3>2. CASE n = Len(m) + 1
      <4>1. 1 \in 1..Len(left)
        BY <1>6
      <4>2. PICK j \in Nat : AnswerAt(m, j, Len(m) + 1)
        BY <1>5, <4>1 DEF Prompted
      <4> QED
        BY <1>4, <2>1, <3>2, <4>2
    <3> QED
      BY <1>4, <1>12, <3>1, <3>2
  <2>3. ASSUME NEW d \in 1..Len(Tail(left)) PROVE \E j \in Nat : AnswerAt(m2, j, Len(m2) + d)
    <3>1. d + 1 \in 1..Len(left) /\ Len(m2) + d = Len(m) + (d + 1) /\ Len(m2) + d \in Nat
      BY <1>4, <1>6, <1>12
    <3>2. PICK j \in Nat : AnswerAt(m, j, Len(m) + (d + 1))
      BY <1>5, <3>1 DEF Prompted
    <3> QED
      BY <2>1, <3>1, <3>2
  <2> QED
    BY <2>2, <2>3 DEF Prompted
<1> QED
  BY <1>1, <1>2, <1>6, <1>12, <1>14, <1>16, <1>17, <1>18, <1>19 DEF OpenAiSound

---------------------------------------------------------------------------
\* The contents, in the same way.

Content == [role : {"user", "model"}, of : {"text", "call", "response"}, names : Names]
GeminiAcc == [contents : Seq(Content), pending : Names]
NoContents == [contents |-> <<>>, pending |-> <<>>]

SaysGemini(said, told) ==
    said = [n \in 0..Len(told) |-> IF n = 0 THEN NoContents ELSE GeminiTurn(said[n - 1], told[n])]

ContentOf(turn) ==
    IF turn.role = "call" THEN [role |-> "model", of |-> "call", names |-> turn.names]
    ELSE [role |-> "user", of |-> "text", names |-> <<>>]

LEMMA FlushedTyped ==
    ASSUME NEW acc \in GeminiAcc
    PROVE  Flushed(acc) \in Seq(Content)
<1>1. acc.contents \in Seq(Content) /\ acc.pending \in Names
  BY DEF GeminiAcc
<1>2. [role |-> "user", of |-> "response", names |-> acc.pending] \in Content
  BY <1>1 DEF Content
<1>3. Append(acc.contents, [role |-> "user", of |-> "response", names |-> acc.pending]) \in Seq(Content)
  BY <1>1, <1>2, AppendProperties
<1> QED
  BY <1>1, <1>3 DEF Flushed

LEMMA GeminiTurnTyped ==
    ASSUME NEW acc \in GeminiAcc, NEW turn \in Turn
    PROVE  GeminiTurn(acc, turn) \in GeminiAcc
<1>1. acc.contents \in Seq(Content) /\ acc.pending \in Names /\ turn.names \in Names
  BY DEF GeminiAcc, Turn
<1>2. CASE turn.role = "observation"
  <2>1. GeminiTurn(acc, turn) = [contents |-> acc.contents, pending |-> acc.pending \o turn.names]
    BY <1>2 DEF GeminiTurn
  <2>2. acc.pending \o turn.names \in Names
    BY <1>1, ConcatProperties DEF Names
  <2> QED
    BY <1>1, <2>1, <2>2 DEF GeminiAcc
<1>3. CASE turn.role # "observation"
  <2>1. GeminiTurn(acc, turn) = [contents |-> Append(Flushed(acc), ContentOf(turn)), pending |-> <<>>]
    BY <1>3 DEF GeminiTurn, ContentOf
  <2>2. ContentOf(turn) \in Content /\ <<>> \in Names
    BY <1>1 DEF ContentOf, Content, Names
  <2>3. Append(Flushed(acc), ContentOf(turn)) \in Seq(Content)
    BY <2>2, FlushedTyped, AppendProperties
  <2> QED
    BY <2>1, <2>2, <2>3 DEF GeminiAcc
<1> QED
  BY <1>2, <1>3

LEMMA GeminiSays ==
    ASSUME NEW told \in Seq(Turn)
    PROVE  \E said : /\ SaysGemini(said, told)
                     /\ GeminiSaid(told) = said[Len(told)]
                     /\ \A n \in 0..Len(told) : said[n] \in GeminiAcc
<1> DEFINE N == Len(told)
           X == GeminiAcc
           step == [i \in 1..N |-> [acc \in X |-> GeminiTurn(acc, told[i])]]
<1>1. N \in Nat /\ \A i \in 1..N : told[i] \in Turn
  BY LenProperties, ElementOfSeq
<1>2. NoContents \in X
  BY DEF NoContents, GeminiAcc, Names
<1>3. step \in [1..N -> [X -> X]]
  <2> HIDE DEF X
  <2>1. ASSUME NEW i \in 1..N, NEW acc \in X PROVE GeminiTurn(acc, told[i]) \in X
    BY <1>1, GeminiTurnTyped DEF X
  <2> QED
    BY <2>1
<1>4. PICK f : f \in [0..N -> X] /\ f[0] = NoContents /\ \A i \in 1..N : f[i] = step[i][f[i - 1]]
  <2> HIDE DEF step, X, N
  <2>1. PICK f : Steps(f, N, X, NoContents, step)
    BY <1>1, <1>2, <1>3, Iterated
  <2> QED
    BY <2>1 DEF Steps
<1>5. \A i \in 1..N : f[i] = GeminiTurn(f[i - 1], told[i])
  <2> SUFFICES ASSUME NEW i \in 1..N PROVE f[i] = GeminiTurn(f[i - 1], told[i])
    OBVIOUS
  <2>1. f[i - 1] \in X
    BY <1>1, <1>4
  <2> HIDE DEF X
  <2> QED
    BY <1>4, <2>1
<1>6. SaysGemini(f, told)
  <2> HIDE DEF X, step
  <2>1. \A n \in 0..N : f[n] = IF n = 0 THEN NoContents ELSE GeminiTurn(f[n - 1], told[n])
    BY <1>1, <1>4, <1>5
  <2> QED
    BY <1>4, <2>1 DEF SaysGemini
<1>7. PICK said : said = CHOOSE h : SaysGemini(h, told)
  OBVIOUS
<1>8. SaysGemini(said, told)
  BY <1>6, <1>7
<1>9. GeminiSaid(told) = said[Len(told)]
  BY <1>7 DEF GeminiSaid, SaysGemini, NoContents
<1>10. said[0] = f[0] /\ \A i \in 1..N : said[i - 1] = f[i - 1] => said[i] = f[i]
  <2>1. \A n \in 0..N : said[n] = IF n = 0 THEN NoContents ELSE GeminiTurn(said[n - 1], told[n])
    BY <1>8 DEF SaysGemini
  <2> HIDE DEF X, step
  <2> QED
    BY <1>1, <1>4, <1>5, <2>1
<1>11. \A n \in 0..N : said[n] = f[n]
  <2>1. N \in Nat
    BY <1>1
  <2> HIDE DEF N, step, X
  <2>2. KeepsPace(said, f, N)
    BY ONLY <1>10 DEF KeepsPace
  <2>3. AgreeUpTo(said, f, N)
    BY ONLY <2>1, <2>2, IteratedAlike
  <2> QED
    BY ONLY <2>3 DEF AgreeUpTo
<1> QED
  BY <1>4, <1>8, <1>9, <1>11

LEMMA GeminiAppend ==
    ASSUME NEW told \in Seq(Turn), NEW turn \in Turn
    PROVE  /\ GeminiSaid(told) \in GeminiAcc
           /\ GeminiSaid(Append(told, turn)) = GeminiTurn(GeminiSaid(told), turn)
<1> DEFINE N == Len(told)
<1>1. PICK more : more = Append(told, turn)
  OBVIOUS
<1>2. more \in Seq(Turn) /\ Len(more) = N + 1 /\ N \in Nat
      /\ more[N + 1] = turn /\ \A i \in 1..N : more[i] = told[i]
  BY <1>1, AppendProperties, LenProperties
<1>3. PICK said : /\ SaysGemini(said, told) /\ GeminiSaid(told) = said[Len(told)]
                  /\ \A n \in 0..Len(told) : said[n] \in GeminiAcc
  BY GeminiSays
<1>4. PICK next : SaysGemini(next, more) /\ GeminiSaid(more) = next[Len(more)]
  BY <1>2, GeminiSays
<1>5. \A n \in 0..N : said[n] = IF n = 0 THEN NoContents ELSE GeminiTurn(said[n - 1], told[n])
  BY <1>3 DEF SaysGemini
<1>6. \A n \in 0..(N + 1) : next[n] = IF n = 0 THEN NoContents ELSE GeminiTurn(next[n - 1], more[n])
  BY <1>2, <1>4 DEF SaysGemini
<1> HIDE DEF N
<1>7. next[0] = said[0] /\ \A i \in 1..N : next[i - 1] = said[i - 1] => next[i] = said[i]
  BY <1>2, <1>5, <1>6
<1>8. \A n \in 0..N : next[n] = said[n]
  <2>1. N \in Nat
    BY <1>2
  <2>2. KeepsPace(next, said, N)
    BY ONLY <1>7 DEF KeepsPace
  <2>3. AgreeUpTo(next, said, N)
    BY ONLY <2>1, <2>2, IteratedAlike
  <2> QED
    BY ONLY <2>3 DEF AgreeUpTo
<1>9. next[N + 1] = GeminiTurn(next[N], turn)
  <2>1. N + 1 \in 0..(N + 1) /\ N + 1 # 0 /\ (N + 1) - 1 = N
    BY <1>2
  <2> QED
    BY <1>2, <1>6, <2>1
<1>10. next[N] = said[N] /\ said[N] \in GeminiAcc
  BY <1>2, <1>3, <1>8 DEF N
<1> QED
  BY <1>1, <1>2, <1>3, <1>4, <1>9, <1>10 DEF N

LEMMA GeminiEmpty == GeminiSaid(<<>>) = NoContents
<1>1. <<>> \in Seq(Turn) /\ Len(<<>>) = 0
  BY EmptySeq
<1>2. PICK said : SaysGemini(said, <<>>) /\ GeminiSaid(<<>>) = said[0]
  BY <1>1, GeminiSays
<1> QED
  BY <1>1, <1>2 DEF SaysGemini

\* Each content with calls but the last is followed by the one with all their
\* answers, and nothing else answers; if the last content is calls, they are those
\* that were observed, then those that were not.
Responded(c) ==
    /\ \A i \in 1..Len(c) : c[i].of = "call" =>
          /\ c[i].names # <<>>
          /\ i < Len(c) => c[i + 1] = [role |-> "user", of |-> "response", names |-> c[i].names]
    /\ \A i \in 1..Len(c) : c[i].of = "response" => i > 1 /\ c[i - 1].of = "call"

Asks(c) == c # <<>> /\ c[Len(c)].of = "call"

GeminiSound(acc, left) ==
    /\ acc \in GeminiAcc /\ left \in Names
    /\ Responded(acc.contents)
    /\ Asks(acc.contents) => acc.contents[Len(acc.contents)].names = acc.pending \o left
    /\ ~Asks(acc.contents) => acc.pending = <<>> /\ left = <<>>

\* A content that answers nothing, put after contents whose calls were answered.
LEMMA Appended ==
    ASSUME NEW c \in Seq(Content), Responded(c), NEW x \in Content,
           x.of = "response" => Asks(c) /\ x = [role |-> "user", of |-> "response", names |-> c[Len(c)].names],
           x.of # "response" => ~Asks(c),
           x.of = "call" => x.names # <<>>
    PROVE  /\ Responded(Append(c, x)) /\ Append(c, x) \in Seq(Content)
           /\ Append(c, x)[Len(Append(c, x))] = x /\ Append(c, x) # <<>>
<1>1. PICK d : d = Append(c, x)
  OBVIOUS
<1>2. d \in Seq(Content) /\ Len(c) \in Nat /\ Len(d) = Len(c) + 1 /\ d[Len(c) + 1] = x
      /\ \A i \in 1..Len(c) : d[i] = c[i]
  BY <1>1, AppendProperties, LenProperties
<1>3. c # <<>> <=> Len(c) > 0
  BY EmptySeq, <1>2
<1>4. ASSUME NEW i \in 1..Len(d), d[i].of = "call"
      PROVE  /\ d[i].names # <<>>
             /\ i < Len(d) => d[i + 1] = [role |-> "user", of |-> "response", names |-> d[i].names]
  <2>1. CASE i = Len(c) + 1
    BY <1>2, <1>4, <2>1
  <2>2. CASE i = Len(c) /\ i \in 1..Len(c)
    <3>1. d[i] = c[i] /\ d[i + 1] = x /\ Asks(c)
      BY <1>2, <1>3, <1>4, <2>2 DEF Asks
    <3>2. x = [role |-> "user", of |-> "response", names |-> c[i].names]
      BY <2>2, <3>1
    <3>3. c[i].names # <<>>
      BY <1>4, <2>2, <3>1 DEF Responded
    <3> QED
      BY <3>1, <3>2, <3>3
  <2>3. CASE i \in 1..(Len(c) - 1)
    <3>1. i \in 1..Len(c) /\ i + 1 \in 1..Len(c) /\ i < Len(c)
      BY <1>2, <2>3
    <3>2. d[i] = c[i] /\ d[i + 1] = c[i + 1]
      BY <1>2, <3>1
    <3> QED
      BY <1>4, <3>1, <3>2 DEF Responded
  <2> QED
    BY <1>2, <2>1, <2>2, <2>3
<1>5. ASSUME NEW i \in 1..Len(d), d[i].of = "response" PROVE i > 1 /\ d[i - 1].of = "call"
  <2>1. CASE i = Len(c) + 1
    <3>1. Asks(c)
      BY <1>2, <1>5, <2>1
    <3>2. Len(c) \in 1..Len(c) /\ c[Len(c)].of = "call"
      BY <1>2, <1>3, <3>1 DEF Asks
    <3>3. d[Len(c)] = c[Len(c)]
      BY <1>2, <3>2
    <3> QED
      BY <1>2, <2>1, <3>2, <3>3
  <2>2. CASE i \in 1..Len(c)
    <3>1. i > 1 /\ c[i - 1].of = "call"
      BY <1>2, <1>5, <2>2 DEF Responded
    <3>2. d[i - 1] = c[i - 1]
      BY <1>2, <2>2, <3>1
    <3> QED
      BY <3>1, <3>2
  <2> QED
    BY <1>2, <2>1, <2>2
<1>6. Responded(d)
  BY <1>4, <1>5 DEF Responded
<1>7. d # <<>>
  BY <1>2, EmptySeq
<1> QED
  BY <1>1, <1>2, <1>6, <1>7

LEMMA GeminiFlushed ==
    ASSUME NEW acc, GeminiSound(acc, <<>>)
    PROVE  Flushed(acc) \in Seq(Content) /\ Responded(Flushed(acc)) /\ ~Asks(Flushed(acc))
<1>1. PICK c : c = acc.contents
  OBVIOUS
<1>2. PICK pending : pending = acc.pending
  OBVIOUS
<1>3. c \in Seq(Content) /\ pending \in Names /\ Responded(c) /\ pending \o <<>> = pending
  <2>1. c \in Seq(Content) /\ pending \in Names /\ Responded(c)
    BY <1>1, <1>2 DEF GeminiSound, GeminiAcc
  <2> QED
    BY <2>1, ConcatEmptySeq DEF Names
<1>4. (Asks(c) => c[Len(c)].names = pending) /\ (~Asks(c) => pending = <<>>)
  BY <1>1, <1>2, <1>3 DEF GeminiSound
<1>5. CASE ~Asks(c)
  BY <1>1, <1>2, <1>3, <1>4, <1>5 DEF Flushed
<1>6. CASE Asks(c)
  <2>1. Len(c) \in 1..Len(c)
    BY <1>3, <1>6, EmptySeq DEF Asks
  <2>2. pending # <<>>
    BY <1>3, <1>4, <1>6, <2>1 DEF Asks, Responded
  <2>3. PICK x : x = [role |-> "user", of |-> "response", names |-> pending]
    OBVIOUS
  <2>4. x \in Content /\ x.of = "response" /\ x = [role |-> "user", of |-> "response", names |-> c[Len(c)].names]
    BY <1>3, <1>4, <1>6, <2>3 DEF Content
  <2>5. Flushed(acc) = Append(c, x)
    BY <1>1, <1>2, <2>2, <2>3 DEF Flushed
  <2>6. /\ Responded(Append(c, x)) /\ Append(c, x) \in Seq(Content)
        /\ Append(c, x)[Len(Append(c, x))] = x
    BY <1>3, <1>6, <2>4, Appended
  <2> QED
    BY <2>4, <2>5, <2>6 DEF Asks
<1> QED
  BY <1>5, <1>6

LEMMA GeminiDone ==
    ASSUME NEW told, GeminiSound(GeminiSaid(told), <<>>)
    PROVE  GeminiAccepts(told)
<1> DEFINE c == GeminiContents(told)
<1>1. c \in Seq(Content) /\ Responded(c) /\ ~Asks(c)
  BY GeminiFlushed DEF GeminiContents
<1> HIDE DEF c
<1>2. DOMAIN c = 1..Len(c) /\ Len(c) \in Nat
  BY <1>1, LenProperties
<1>3. ASSUME NEW i \in DOMAIN c, c[i].of = "call"
      PROVE  i + 1 \in DOMAIN c /\ c[i + 1] = [role |-> "user", of |-> "response", names |-> c[i].names]
  <2>1. i # Len(c)
    BY <1>1, <1>2, <1>3, EmptySeq DEF Asks
  <2>2. i < Len(c) /\ i + 1 \in DOMAIN c
    BY <1>2, <2>1
  <2> QED
    BY <1>1, <1>2, <1>3, <2>2 DEF Responded
<1>4. \A i \in DOMAIN c : c[i].of = "response" => i > 1 /\ c[i - 1].of = "call"
  BY <1>1, <1>2 DEF Responded
<1> QED
  BY <1>3, <1>4 DEF GeminiAccepts, c

LEMMA GeminiAsked ==
    ASSUME NEW acc, GeminiSound(acc, <<>>)
    PROVE  GeminiSound(GeminiTurn(acc, UserTurn), <<>>)
<1>1. PICK c : c = Flushed(acc)
  OBVIOUS
<1>2. PICK x : x = [role |-> "user", of |-> "text", names |-> <<>>]
  OBVIOUS
<1>3. c \in Seq(Content) /\ Responded(c) /\ ~Asks(c)
  BY <1>1, GeminiFlushed
<1>4. x \in Content /\ x.of = "text"
  BY <1>2 DEF Content, Names
<1>5. GeminiTurn(acc, UserTurn) = [contents |-> Append(c, x), pending |-> <<>>]
  BY <1>1, <1>2 DEF GeminiTurn, UserTurn
<1>6. /\ Responded(Append(c, x)) /\ Append(c, x) \in Seq(Content)
      /\ Append(c, x)[Len(Append(c, x))] = x
  BY <1>3, <1>4, Appended
<1>7. ~Asks(Append(c, x)) /\ <<>> \in Names
  BY <1>4, <1>6 DEF Asks, Names
<1> QED
  BY <1>5, <1>6, <1>7 DEF GeminiSound, GeminiAcc

LEMMA GeminiCalled ==
    ASSUME NEW acc, GeminiSound(acc, <<>>), NEW names \in Names, names # <<>>
    PROVE  GeminiSound(GeminiTurn(acc, [role |-> "call", names |-> names]), names)
<1>1. PICK c : c = Flushed(acc)
  OBVIOUS
<1>2. PICK x : x = [role |-> "model", of |-> "call", names |-> names]
  OBVIOUS
<1>3. c \in Seq(Content) /\ Responded(c) /\ ~Asks(c)
  BY <1>1, GeminiFlushed
<1>4. x \in Content /\ x.of = "call" /\ x.names = names
  BY <1>2 DEF Content
<1>5. GeminiTurn(acc, [role |-> "call", names |-> names]) = [contents |-> Append(c, x), pending |-> <<>>]
  BY <1>1, <1>2 DEF GeminiTurn
<1>6. /\ Responded(Append(c, x)) /\ Append(c, x) \in Seq(Content)
      /\ Append(c, x)[Len(Append(c, x))] = x /\ Append(c, x) # <<>>
  BY <1>3, <1>4, Appended
<1>7. Asks(Append(c, x)) /\ <<>> \in Names /\ <<>> \o names = names
  BY <1>4, <1>6, ConcatEmptySeq DEF Asks, Names
<1>8. PICK next : next = [contents |-> Append(c, x), pending |-> <<>>]
  OBVIOUS
<1>9. next \in GeminiAcc /\ next.contents = Append(c, x) /\ next.pending = <<>>
  BY <1>6, <1>7, <1>8 DEF GeminiAcc
<1>10. GeminiSound(next, names)
  BY <1>4, <1>6, <1>7, <1>9 DEF GeminiSound
<1> QED
  BY <1>5, <1>8, <1>10

LEMMA GeminiObserved ==
    ASSUME NEW acc, NEW left, GeminiSound(acc, left), left # <<>>
    PROVE  GeminiSound(GeminiTurn(acc, [role |-> "observation", names |-> <<Head(left)>>]), Tail(left))
<1>1. PICK c : c = acc.contents
  OBVIOUS
<1>2. PICK pending : pending = acc.pending
  OBVIOUS
<1>3. c \in Seq(Content) /\ pending \in Names /\ left \in Names /\ Responded(c)
      /\ Asks(c) /\ c[Len(c)].names = pending \o left
  BY <1>1, <1>2 DEF GeminiSound, GeminiAcc
<1>4. PICK head \in Names : head = <<Head(left)>>
  <2>1. Head(left) \in ToolNames
    BY <1>3, HeadTailProperties DEF Names
  <2>2. <<Head(left)>> \in Names
    BY <2>1 DEF Names
  <2> QED
    BY <2>2
<1>5. Tail(left) \in Names /\ left = head \o Tail(left)
  <2>1. Tail(left) \in Names /\ Len(Tail(left)) = Len(left) - 1 /\ Len(left) \in Nat \ {0}
        /\ \A i \in 1..Len(Tail(left)) : Tail(left)[i] = left[i + 1]
    BY <1>3, HeadTailProperties, EmptySeq DEF Names
  <2>2. Len(head) = 1 /\ head[1] = left[1]
    BY <1>4
  <2>3. PICK whole : whole = head \o Tail(left)
    OBVIOUS
  <2>4. whole \in Names /\ Len(whole) = Len(head) + Len(Tail(left))
        /\ \A i \in 1..(Len(head) + Len(Tail(left))) :
              whole[i] = IF i <= Len(head) THEN head[i] ELSE Tail(left)[i - Len(head)]
    BY <2>1, <2>3, ConcatProperties DEF Names
  <2>5. Len(whole) = Len(left)
    BY <2>1, <2>2, <2>4
  <2>6. ASSUME NEW i \in 1..Len(left) PROVE left[i] = whole[i]
    <3>1. CASE i = 1
      BY <2>1, <2>2, <2>4, <3>1
    <3>2. CASE i # 1
      <4>1. i - 1 \in 1..Len(Tail(left)) /\ (i - 1) + 1 = i
        BY <2>1, <3>2
      <4>2. Tail(left)[i - 1] = left[i]
        BY <2>1, <4>1
      <4> QED
        BY <2>1, <2>2, <2>4, <3>2, <4>2
    <3> QED
      BY <3>1, <3>2
  <2>7. left = whole
    BY <1>3, <2>4, <2>5, <2>6, SeqEqual DEF Names
  <2> QED
    BY <2>1, <2>3, <2>7
<1>6. (pending \o head) \o Tail(left) = pending \o left /\ pending \o head \in Names
  <2>1. pending \in Seq(ToolNames) /\ head \in Seq(ToolNames) /\ Tail(left) \in Seq(ToolNames)
    BY <1>3, <1>4, <1>5 DEF Names
  <2>2. pending \o head \in Seq(ToolNames)
    BY ONLY <2>1, ConcatProperties
  <2>3. (pending \o head) \o Tail(left) = pending \o (head \o Tail(left))
    <3> PICK rest : rest = Tail(left)
      OBVIOUS
    <3>1. pending \in Seq(ToolNames) /\ head \in Seq(ToolNames) /\ rest \in Seq(ToolNames)
      BY ONLY <2>1, rest = Tail(left)
    <3>2. (pending \o head) \o rest = pending \o (head \o rest)
      BY ONLY <3>1, ConcatAssociative
    <3> QED
      BY ONLY <3>2, rest = Tail(left)
  <2> QED
    BY <1>5, <2>2, <2>3 DEF Names
<1>7. GeminiTurn(acc, [role |-> "observation", names |-> <<Head(left)>>])
        = [contents |-> c, pending |-> pending \o head]
  BY <1>1, <1>2, <1>4 DEF GeminiTurn
<1>8. PICK next : next = [contents |-> c, pending |-> pending \o head]
  OBVIOUS
<1>9. next \in GeminiAcc /\ next.contents = c /\ next.pending = pending \o head
  BY <1>3, <1>6, <1>8 DEF GeminiAcc
<1>10. GeminiSound(next, Tail(left))
  BY <1>3, <1>5, <1>6, <1>9 DEF GeminiSound
<1> QED
  BY <1>7, <1>8, <1>10

---------------------------------------------------------------------------
\* The conversation: the dialogue is told up to the calls that were picked.

NamesOf(calls) == [i \in DOMAIN calls |-> calls[i].name]

Sendable(calls) == \E S : calls \in Seq(S) /\ \A call \in S : call.name \in ToolNames

ToldUpTo(told, calls) ==
    /\ told \in Seq(Turn) /\ Sendable(calls)
    /\ Len(OpenAiSaid(told).messages) = Len(told)
    /\ OpenAiSound(OpenAiSaid(told), NamesOf(calls))
    /\ GeminiSound(GeminiSaid(told), NamesOf(calls))

DialogueInv == ToldUpTo(dialogue, picked)

LEMMA CallsSendable ==
    ASSUME NEW S, NEW calls \in Seq(S), \A call \in S : call.name \in ToolNames
    PROVE  Sendable(calls)
BY DEF Sendable

LEMMA NamesTyped ==
    ASSUME NEW calls, Sendable(calls)
    PROVE  /\ NamesOf(calls) \in Names /\ Len(NamesOf(calls)) = Len(calls) /\ Len(calls) \in Nat
           /\ DOMAIN calls = 1..Len(calls)
           /\ NamesOf(calls) = <<>> <=> calls = <<>>
<1>1. PICK S : calls \in Seq(S) /\ \A call \in S : call.name \in ToolNames
  BY DEF Sendable
<1>2. Len(calls) \in Nat /\ DOMAIN calls = 1..Len(calls) /\ \A i \in 1..Len(calls) : calls[i] \in S
  BY <1>1, LenProperties, ElementOfSeq
<1>3. NamesOf(calls) \in [1..Len(calls) -> ToolNames]
  BY <1>1, <1>2 DEF NamesOf
<1>4. NamesOf(calls) \in Names
  BY <1>2, <1>3, SeqDef DEF Names
<1>5. Len(NamesOf(calls)) \in Nat /\ DOMAIN NamesOf(calls) = 1..Len(NamesOf(calls))
  BY <1>4, LenProperties DEF Names
<1>6. DOMAIN NamesOf(calls) = 1..Len(calls)
  BY <1>3
<1>7. Len(NamesOf(calls)) = Len(calls)
  <2>1. 1..Len(NamesOf(calls)) = 1..Len(calls)
    BY <1>5, <1>6
  <2> QED
    BY ONLY <1>2, <1>5, <2>1, SameEnd
<1>8. (calls = <<>> <=> Len(calls) = 0) /\ (NamesOf(calls) = <<>> <=> Len(NamesOf(calls)) = 0)
  <2>1. calls = <<>> <=> Len(calls) = 0
    BY <1>1, EmptySeq
  <2>2. NamesOf(calls) = <<>> <=> Len(NamesOf(calls)) = 0
    BY <1>4, EmptySeq DEF Names
  <2> QED
    BY <2>1, <2>2
<1> QED
  BY <1>2, <1>4, <1>7, <1>8

LEMMA CallTold ==
    ASSUME NEW told, ToldUpTo(told, <<>>), NEW calls, Sendable(calls), calls # <<>>
    PROVE  ToldUpTo(Append(told, CallTurn(calls)), calls)
<1>1. PICK turn : turn = CallTurn(calls)
  OBVIOUS
<1>2. PICK names \in Names : names = NamesOf(calls)
  BY NamesTyped
<1>3. turn = [role |-> "call", names |-> names] /\ turn \in Turn /\ names # <<>>
  BY <1>1, <1>2, NamesTyped DEF CallTurn, NamesOf, Turn
<1>4. NamesOf(<<>>) = <<>>
  BY DEF NamesOf
<1>5. told \in Seq(Turn) /\ Len(told) \in Nat /\ Len(OpenAiSaid(told).messages) = Len(told)
      /\ OpenAiSound(OpenAiSaid(told), <<>>) /\ GeminiSound(GeminiSaid(told), <<>>)
  BY <1>4, LenProperties DEF ToldUpTo
<1>6. /\ OpenAiSaid(Append(told, turn)) = OpenAiTurn(OpenAiSaid(told), Len(told) + 1, turn)
      /\ GeminiSaid(Append(told, turn)) = GeminiTurn(GeminiSaid(told), turn)
      /\ Append(told, turn) \in Seq(Turn) /\ Len(Append(told, turn)) = Len(told) + 1
  BY <1>3, <1>5, OpenAiAppend, GeminiAppend, AppendProperties
<1>7. /\ OpenAiSound(OpenAiSaid(Append(told, turn)), names)
      /\ Len(OpenAiSaid(Append(told, turn)).messages) = Len(told) + 1
  BY <1>3, <1>5, <1>6, OpenAiCalled
<1>8. GeminiSound(GeminiSaid(Append(told, turn)), names)
  BY <1>3, <1>5, <1>6, GeminiCalled
<1> QED
  BY <1>1, <1>2, <1>6, <1>7, <1>8 DEF ToldUpTo

LEMMA NothingTold == ToldUpTo(<<>>, <<>>)
<1>1. <<>> \in Seq(Turn) /\ Len(<<>>) = 0 /\ NamesOf(<<>>) = <<>>
  BY DEF NamesOf
<1>2. /\ NothingSaid \in OpenAiAcc /\ <<>> \in Names
      /\ NothingSaid.messages = <<>> /\ NothingSaid.pending = <<>>
  BY DEF NothingSaid, OpenAiAcc, MessageIds, Names
<1>3. OwnIds(<<>>) /\ Answered(<<>>) /\ Awaited(<<>>, <<>>, <<>>) /\ Prompted(<<>>, <<>>)
  BY <1>1 DEF OwnIds, Answered, Awaited, Prompted, Spoken
<1>4. OpenAiSound(NothingSaid, <<>>) /\ Len(NothingSaid.messages) = 0
  BY <1>1, <1>2, <1>3 DEF OpenAiSound
<1>5. NoContents \in GeminiAcc /\ NoContents.contents = <<>> /\ NoContents.pending = <<>>
  BY DEF NoContents, GeminiAcc, Names
<1>6. GeminiSound(NoContents, <<>>)
  BY <1>1, <1>2, <1>5 DEF GeminiSound, Responded, Asks
<1>7. Sendable(<<>>)
  <2> PICK S : S = {}
    OBVIOUS
  <2>1. <<>> \in Seq(S)
    OBVIOUS
  <2>2. \A call \in S : call.name \in ToolNames
    OBVIOUS
  <2> QED
    BY ONLY <2>1, <2>2, CallsSendable
<1> QED
  BY <1>1, <1>4, <1>6, <1>7, OpenAiEmpty, GeminiEmpty DEF ToldUpTo

LEMMA UserTold == ToldUpTo(<<UserTurn>>, <<>>)
<1>1. PICK turn \in Turn : turn = UserTurn
  <2>1. <<>> \in Names
    BY DEF Names
  <2>2. UserTurn \in Turn
    BY <2>1 DEF UserTurn, Turn
  <2> QED
    BY <2>2
<1>2. <<>> \in Seq(Turn) /\ Len(<<>>) = 0 /\ NamesOf(<<>>) = <<>>
  BY DEF NamesOf
<1>3. /\ Len(OpenAiSaid(<<>>).messages) = 0 /\ Sendable(<<>>)
      /\ OpenAiSound(OpenAiSaid(<<>>), <<>>) /\ GeminiSound(GeminiSaid(<<>>), <<>>)
  BY <1>2, NothingTold DEF ToldUpTo
<1>4. PICK one : one = Append(<<>>, turn)
  OBVIOUS
<1>5. one \in Seq(Turn) /\ Len(one) = 1 /\ one = <<UserTurn>>
  BY <1>1, <1>2, <1>4
<1>6. /\ OpenAiSaid(one) = OpenAiTurn(OpenAiSaid(<<>>), Len(<<>>) + 1, turn)
      /\ GeminiSaid(one) = GeminiTurn(GeminiSaid(<<>>), turn)
  BY <1>2, <1>4, OpenAiAppend, GeminiAppend
<1>7. OpenAiSaid(one) = OpenAiTurn(OpenAiSaid(<<>>), Len(OpenAiSaid(<<>>).messages) + 1, UserTurn)
  BY <1>1, <1>2, <1>3, <1>6
<1>8. OpenAiSound(OpenAiSaid(one), <<>>) /\ Len(OpenAiSaid(one).messages) = 1
  <2>1. /\ OpenAiSound(OpenAiSaid(one), <<>>)
        /\ Len(OpenAiSaid(one).messages) = Len(OpenAiSaid(<<>>).messages) + 1
    BY ONLY <1>3, <1>7, OpenAiAsked
  <2> QED
    BY <1>3, <2>1
<1>9. GeminiSound(GeminiSaid(one), <<>>)
  BY <1>1, <1>3, <1>6, GeminiAsked
<1> QED
  BY <1>2, <1>3, <1>5, <1>8, <1>9 DEF ToldUpTo

LEMMA ObservationTold ==
    ASSUME NEW told, NEW calls, ToldUpTo(told, calls), calls # <<>>
    PROVE  ToldUpTo(Append(told, Observation(Head(calls))), Tail(calls))
<1>1. PICK S : calls \in Seq(S) /\ \A call \in S : call.name \in ToolNames
  BY DEF ToldUpTo, Sendable
<1>2. PICK names : names = NamesOf(calls)
  OBVIOUS
<1>3. /\ Sendable(calls) /\ names \in Names /\ names # <<>> /\ Len(names) = Len(calls)
      /\ DOMAIN calls = 1..Len(calls) /\ Len(calls) \in Nat \ {0}
  <2>1. Sendable(calls)
    BY DEF ToldUpTo
  <2> QED
    BY <1>1, <1>2, <2>1, NamesTyped, EmptySeq
<1>4. /\ Head(calls) \in S /\ Tail(calls) \in Seq(S) /\ Head(calls) = calls[1]
      /\ Len(Tail(calls)) = Len(calls) - 1
      /\ \A i \in 1..Len(Tail(calls)) : Tail(calls)[i] = calls[i + 1]
  BY <1>1, HeadTailProperties
<1>5. Sendable(Tail(calls))
  BY <1>1, <1>4 DEF Sendable
<1>6. Head(names) = Head(calls).name
  BY <1>2, <1>3, <1>4 DEF NamesOf
<1>7. Tail(names) = NamesOf(Tail(calls))
  <2>1. /\ Tail(names) \in Names /\ Len(Tail(names)) = Len(calls) - 1
        /\ \A i \in 1..Len(Tail(names)) : Tail(names)[i] = names[i + 1]
    BY <1>3, HeadTailProperties DEF Names
  <2>2. /\ NamesOf(Tail(calls)) \in Names /\ Len(NamesOf(Tail(calls))) = Len(calls) - 1
        /\ DOMAIN Tail(calls) = 1..(Len(calls) - 1)
    BY <1>4, <1>5, NamesTyped
  <2>3. ASSUME NEW i \in 1..(Len(calls) - 1) PROVE Tail(names)[i] = NamesOf(Tail(calls))[i]
    <3>1. i + 1 \in DOMAIN calls
      BY <1>3
    <3>2. NamesOf(Tail(calls))[i] = calls[i + 1].name
      BY <1>4, <2>2 DEF NamesOf
    <3>3. names[i + 1] = calls[i + 1].name
      BY <1>2, <3>1 DEF NamesOf
    <3> QED
      BY <2>1, <3>2, <3>3
  <2> QED
    BY <2>1, <2>2, <2>3, SeqEqual DEF Names
<1>8. PICK turn : turn = Observation(Head(calls))
  OBVIOUS
<1>9. turn = [role |-> "observation", names |-> <<Head(names)>>]
  BY <1>6, <1>8 DEF Observation
<1>10. turn \in Turn
  <2>1. Head(names) \in ToolNames
    BY <1>1, <1>4, <1>6
  <2>2. <<Head(names)>> \in Names
    BY <2>1 DEF Names
  <2> QED
    BY <1>9, <2>2 DEF Turn
<1>11. told \in Seq(Turn) /\ Len(told) \in Nat /\ Len(OpenAiSaid(told).messages) = Len(told)
       /\ OpenAiSound(OpenAiSaid(told), names) /\ GeminiSound(GeminiSaid(told), names)
  BY <1>2, LenProperties DEF ToldUpTo
<1>12. /\ OpenAiSaid(Append(told, turn)) = OpenAiTurn(OpenAiSaid(told), Len(told) + 1, turn)
       /\ GeminiSaid(Append(told, turn)) = GeminiTurn(GeminiSaid(told), turn)
       /\ Append(told, turn) \in Seq(Turn) /\ Len(Append(told, turn)) = Len(told) + 1
  BY <1>10, <1>11, OpenAiAppend, GeminiAppend, AppendProperties
<1>13. /\ OpenAiSound(OpenAiSaid(Append(told, turn)), Tail(names))
       /\ Len(OpenAiSaid(Append(told, turn)).messages) = Len(told) + 1
  BY <1>3, <1>9, <1>11, <1>12, OpenAiObserved
<1>14. GeminiSound(GeminiSaid(Append(told, turn)), Tail(names))
  BY <1>3, <1>9, <1>11, <1>12, GeminiObserved
<1> QED
  BY <1>5, <1>7, <1>8, <1>12, <1>13, <1>14 DEF ToldUpTo

LEMMA ToldAccepted ==
    ASSUME NEW told, ToldUpTo(told, <<>>)
    PROVE  OpenAiAccepts(told) /\ GeminiAccepts(told)
<1>1. NamesOf(<<>>) = <<>>
  BY DEF NamesOf
<1>2. OpenAiSound(OpenAiSaid(told), <<>>) /\ GeminiSound(GeminiSaid(told), <<>>)
  BY <1>1 DEF ToldUpTo
<1> QED
  BY <1>2, OpenAiDone, GeminiDone DEF OpenAiMessages

\* The call a tap or a picture settles is of a tool.
LEMMA OpeningNamed ==
    ASSUME NEW opening, NEW user, NEW intent, NEW patch, NEW photo, NEW s, NEW action \in AnchorActions,
           NEW hints,
           \/ opening = PhotoCall(hints)
           \/ opening = ChipOpening(intent, patch, photo)
           \/ opening = AnchorCall(action, s)
    PROVE  opening.name \in ToolNames
<1>1. ASSUME NEW h PROVE PhotoCall(h).name \in ToolNames
  BY DEF PhotoCall, Blank, ToolNames
<1>2. ASSUME NEW of PROVE CallFromIntent(of).name \in ToolNames
  BY DEF CallFromIntent, Blank, ToolNames
<1>3. AnchorCall(action, s).name \in ToolNames
  BY DEF AnchorCall, Blank, ToolNames, AnchorActions
<1>4. ChipOpening(intent, patch, photo).name \in ToolNames
  BY <1>1, <1>2 DEF ChipOpening
<1> QED
  BY <1>1, <1>3, <1>4

LEMMA AppendedToOne == ASSUME NEW a, NEW b PROVE Append(<<a>>, b) = <<a, b>>
<1> PICK S : S = {a, b}
  OBVIOUS
<1>1. <<a>> \in Seq(S) /\ <<a, b>> \in Seq(S) /\ b \in S
  OBVIOUS
<1>2. Len(<<a>>) = 1 /\ Len(<<a, b>>) = 2 /\ <<a, b>>[1] = a /\ <<a, b>>[2] = b /\ <<a>>[1] = a
  OBVIOUS
<1>3. PICK more : more = Append(<<a>>, b)
  OBVIOUS
<1>4. more \in Seq(S) /\ Len(more) = 2 /\ more[1] = a /\ more[2] = b
  BY <1>1, <1>2, <1>3, AppendProperties
<1>5. PICK both : both = <<a, b>>
  OBVIOUS
<1>6. Len(both) = 2 /\ both[1] = a /\ both[2] = b /\ both \in Seq(S)
  BY <1>1, <1>2, <1>5
<1>7. more = both
  BY ONLY <1>4, <1>6, SeqEqual
<1> QED
  BY <1>3, <1>5, <1>7

LEMMA Begun ==
    ASSUME NEW opening, Sendable(opening)
    PROVE  ToldUpTo(IF opening = <<>> THEN <<UserTurn>> ELSE <<UserTurn, CallTurn(opening)>>, opening)
<1>1. CASE opening = <<>>
  BY <1>1, UserTold
<1>2. CASE opening # <<>>
  <2>1. Append(<<UserTurn>>, CallTurn(opening)) = <<UserTurn, CallTurn(opening)>>
    BY AppendedToOne
  <2> QED
    BY <1>2, <2>1, UserTold, CallTold
<1> QED
  BY <1>1, <1>2

LEMMA OneSendable ==
    ASSUME NEW call, call.name \in ToolNames
    PROVE  Sendable(<<call>>)
<1> PICK S : S = {call}
  OBVIOUS
<1>1. <<call>> \in Seq(S)
  OBVIOUS
<1>2. ASSUME NEW c \in S PROVE c.name \in ToolNames
  <2>1. c = call
    OBVIOUS
  <2> QED
    BY <2>1
<1> QED
  BY ONLY <1>1, <1>2, CallsSendable

LEMMA RoundSendable ==
    ASSUME NEW round \in Rounds
    PROVE  Sendable(round) /\ round # <<>>
<1>1. round \in Seq(Call) /\ Len(round) \in 1..MaxPerRound
  BY TurnsAssumption
<1>2. \A call \in Call : call.name \in ToolNames
  BY DEF Call
<1>3. round # <<>>
  BY <1>1, EmptySeq
<1> QED
  BY <1>1, <1>2, <1>3, CallsSendable

LEMMA DialogueInit == Init => DialogueInv
BY NothingTold DEF Init, DialogueInv

LEMMA DialogueNext ==
    ASSUME DialogueInv, Next
    PROVE  DialogueInv'
<1>1. ASSUME NEW opening, Sendable(opening), NEW user, Begin(user, opening) PROVE DialogueInv'
  BY <1>1, Begun DEF Begin, DialogueInv
<1>2. ASSUME NEW user \in Users, Say(user) PROVE DialogueInv'
  <2>1. CASE user.photo # None
    <3>1. Sendable(<<PhotoCall(<<>>)>>)
      <4>1. PhotoCall(<<>>).name \in ToolNames
        BY DEF PhotoCall, Blank, ToolNames
      <4> QED
        BY <4>1, OneSendable
    <3> QED
      BY <1>1, <1>2, <2>1, <3>1 DEF Say
  <2>2. CASE user.photo = None
    <3>1. Sendable(<<>>)
      BY NothingTold DEF ToldUpTo
    <3> QED
      BY <1>1, <1>2, <2>2, <3>1 DEF Say
  <2> QED
    BY <2>1, <2>2
<1>3. ASSUME NEW i, TapChip(i) PROVE DialogueInv'
  <2>1. PICK call : call = ChipOpening(answer.intent, answer.chips[i], request.photo)
    OBVIOUS
  <2>2. call.name \in ToolNames
    BY <2>1, OpeningNamed DEF AnchorActions
  <2>3. Begin(request, <<call>>)
    BY <1>3, <2>1 DEF TapChip
  <2> QED
    BY <1>1, <2>2, <2>3, OneSendable
<1>4. ASSUME NEW i, NEW action \in AnchorActions, TapCard(i, action) PROVE DialogueInv'
  <2>1. PICK call : call = AnchorCall(action, answer.spots[i])
    OBVIOUS
  <2>2. call.name \in ToolNames
    BY <2>1, OpeningNamed
  <2>3. PICK user : user = [request EXCEPT !.photo = None]
    OBVIOUS
  <2>4. Begin(user, <<call>>)
    BY <1>4, <2>1, <2>3 DEF TapCard
  <2> QED
    BY <1>1, <2>2, <2>4, OneSendable
<1>5. ASSUME NEW round \in Rounds, Decide(round) PROVE DialogueInv'
  <2>1. ToldUpTo(dialogue, <<>>)
    BY <1>5 DEF Decide, Asked, DialogueInv
  <2>2. ToldUpTo(Append(dialogue, CallTurn(round)), round)
    BY <2>1, RoundSendable, CallTold
  <2> QED
    BY <1>5, <2>2 DEF Decide, DialogueInv
<1>6. ASSUME Observed PROVE DialogueInv'
  <2>1. ToldUpTo(Append(dialogue, Observation(Head(picked))), Tail(picked))
    BY <1>6, ObservationTold DEF Observed, DialogueInv
  <2> QED
    BY <1>6, <2>1 DEF Observed, DialogueInv
<1>7. ASSUME NEW response, End(response) PROVE DialogueInv'
  BY <1>7, NothingTold DEF End, DialogueInv
<1>8. CASE Declined \/ TimedOut
  BY <1>6, <1>8 DEF Declined, TimedOut
<1>9. ASSUME NEW up \in BOOLEAN, RunOne(up) \/ Refused(up) PROVE DialogueInv'
  BY <1>6, <1>7, <1>9 DEF RunOne, Refused
<1>10. CASE RateLimited \/ Respond
  BY <1>7, <1>10 DEF RateLimited, Respond
<1>11. ASSUME NEW s \in Ids, ShowFlag(s) PROVE DialogueInv'
  BY <1>11 DEF ShowFlag, DialogueInv
<1> QED
  BY <1>2, <1>3, <1>4, <1>5, <1>8, <1>9, <1>10, <1>11 DEF Next

\* Whenever the model is asked, the dialogue is one its service accepts, however
\* many calls a round has and however the rounds went: each call has one answer,
\* under its own id and before the next round, and in the form of Gemini the
\* answers of a round are one content (_openai_turns, _gemini_contents).
THEOREM DialogueStays == Spec => []DialogueAccepted
<1>1. DialogueInv => DialogueAccepted
  BY ToldAccepted DEF DialogueInv, DialogueAccepted
<1>2. ASSUME DialogueInv, UNCHANGED vars PROVE DialogueInv'
  BY <1>2 DEF vars, DialogueInv
<1>3. DialogueInv /\ [Next]_vars => DialogueInv'
  BY <1>2, DialogueNext
<1> QED
  BY <1>1, <1>3, DialogueInit, PTL DEF Spec

---------------------------------------------------------------------------
\* Rows of several queries.

LEMMA SeqRows == ASSUME NEW X, NEW seq \in Seq(X) PROVE Range(seq) \subseteq X
<1>1. DOMAIN seq = 1..Len(seq) /\ \A i \in 1..Len(seq) : seq[i] \in X
  BY LenProperties, ElementOfSeq
<1> QED
  BY <1>1 DEF Range

LEMMA RowsOfSeq == ASSUME NEW X, NEW seq \in Seq(X), NEW S, Range(seq) \subseteq S PROVE seq \in Seq(S)
<1>1. DOMAIN seq = 1..Len(seq) /\ seq \in [1..Len(seq) -> X] /\ Len(seq) \in Nat
  BY LenProperties
<1>2. seq \in [1..Len(seq) -> S]
  BY <1>1 DEF Range
<1> QED
  BY <1>1, <1>2, SeqDef

FlattenedBy(flatten, seqs) ==
    flatten = [i \in 1..Len(seqs) |-> IF i = 1 THEN seqs[i] ELSE flatten[i - 1] \o seqs[i]]

LEMMA Flattened ==
    ASSUME NEW X, NEW seqs \in Seq(Seq(X))
    PROVE  FlattenSeq(seqs) \in Seq(X)
<1> PICK n \in Nat : n = Len(seqs)
  BY LenProperties
<1>1. \A i \in 1..n : seqs[i] \in Seq(X)
  BY ElementOfSeq
<1> PICK Y : Y = Seq(X)
  OBVIOUS
<1>2. <<>> \in Y /\ (\A x, y \in Y : x \o y \in Y) /\ \A x \in Y : <<>> \o x = x
  BY EmptySeq, ConcatProperties, ConcatEmptySeq
<1> DEFINE step == [i \in 1..n |-> [x \in Y |-> x \o seqs[i]]]
<1>3. step \in [1..n -> [Y -> Y]]
  BY <1>1, <1>2
<1>4. PICK f : f \in [0..n -> Y] /\ f[0] = <<>> /\ \A i \in 1..n : f[i] = step[i][f[i - 1]]
  <2> HIDE DEF step
  <2>1. n \in Nat
    OBVIOUS
  <2>2. \E f : Steps(f, n, Y, <<>>, step)
    BY ONLY <1>2, <1>3, <2>1, Iterated
  <2> QED
    BY <2>2 DEF Steps
<1>5. \A i \in 1..n : f[i] = f[i - 1] \o seqs[i]
  <2> SUFFICES ASSUME NEW i \in 1..n PROVE f[i] = f[i - 1] \o seqs[i]
    OBVIOUS
  <2>1. f[i - 1] \in Y
    <3>1. i - 1 \in 0..n
      OBVIOUS
    <3> HIDE DEF step
    <3> QED
      BY ONLY <1>4, <3>1
  <2>2. step[i][f[i - 1]] = f[i - 1] \o seqs[i]
    BY <2>1
  <2> QED
    BY <1>4, <2>2
<1> HIDE DEF step
<1> PICK g : g = [i \in 1..n |-> f[i]]
  OBVIOUS
<1>6. FlattenedBy(g, seqs)
  <2>1. ASSUME NEW i \in 1..n PROVE f[i] = IF i = 1 THEN seqs[i] ELSE g[i - 1] \o seqs[i]
    <3>1. CASE i = 1
      <4>1. f[1] = f[0] \o seqs[1]
        <5>1. i - 1 = 0
          BY <3>1
        <5>2. f[i] = f[i - 1] \o seqs[i]
          BY <1>5
        <5> QED
          BY ONLY <3>1, <5>1, <5>2
      <4>2. <<>> \o seqs[1] = seqs[1]
        BY <1>1, <1>2, <3>1
      <4> QED
        BY <1>4, <3>1, <4>1, <4>2
    <3>2. CASE i # 1
      <4>1. i - 1 \in 1..n
        BY <3>2
      <4> QED
        BY <1>5, <3>2, <4>1
    <3> QED
      BY <3>1, <3>2
  <2> QED
    BY <2>1 DEF FlattenedBy
<1> PICK flatten : flatten = CHOOSE h : FlattenedBy(h, seqs)
  OBVIOUS
<1>7. FlattenedBy(flatten, seqs)
  BY <1>6
<1>8. \A i \in 1..n : flatten[i] = IF i = 1 THEN seqs[i] ELSE flatten[i - 1] \o seqs[i]
  BY <1>7 DEF FlattenedBy
<1> DEFINE T == {i \in 0..n : i = 0 \/ flatten[i] \in Y}
<1>9. 0 \in T
  OBVIOUS
<1>10. ASSUME NEW i \in 1..n, i - 1 \in T PROVE i \in T
  <2>1. CASE i = 1
    BY <1>1, <1>8, <2>1
  <2>2. CASE i # 1
    <3>1. flatten[i - 1] \in Y
      BY <1>10, <2>2
    <3>2. flatten[i] = flatten[i - 1] \o seqs[i] /\ seqs[i] \in Y
      BY <1>1, <1>8, <2>2
    <3> PICK x \in Y : x = flatten[i - 1]
      BY <3>1
    <3> PICK y \in Y : y = seqs[i]
      BY <3>2
    <3>3. x \o y \in Y
      BY <1>2
    <3>4. flatten[i] = x \o y
      BY <3>2
    <3>5. flatten[i] \in Y
      BY ONLY <3>3, <3>4
    <3>6. i \in 0..n
      OBVIOUS
    <3> QED
      BY ONLY <3>5, <3>6
  <2> QED
    BY <2>1, <2>2
<1>11. 0..n \subseteq T
  <2>1. n \in Nat /\ \A i \in 1..n : i - 1 \in T => i \in T
    BY <1>10
  <2> HIDE DEF T
  <2> QED
    BY ONLY <1>9, <2>1, Inducts
<1>12. CASE n = 0
  <2>1. FlattenSeq(seqs) = seqs /\ seqs = <<>>
    BY <1>12, EmptySeq DEF FlattenSeq
  <2> QED
    BY <1>2, <2>1
<1>13. CASE n # 0
  <2>1. FlattenSeq(seqs) = flatten[n]
    BY <1>13 DEF FlattenSeq, FlattenedBy
  <2>2. n \in T
    <3>1. n \in 0..n
      OBVIOUS
    <3> HIDE DEF T
    <3> QED
      BY ONLY <1>11, <3>1
  <2> QED
    BY <1>13, <2>1, <2>2
<1> QED
  BY <1>12, <1>13

\* The first appearances are of the rows.
LEMMA DistinctRows ==
    ASSUME NEW X, NEW rows \in Seq(X)
    PROVE  Distinct(rows) \in Seq(X)
<1> PICK n \in Nat : n = Len(rows)
  BY LenProperties
<1>1. DOMAIN rows = 1..n /\ \A i \in 1..n : rows[i] \in X
  BY LenProperties, ElementOfSeq
<1> PICK places : places = {i \in DOMAIN rows : \A j \in 1..(i - 1) : rows[j] # rows[i]}
  OBVIOUS
<1> PICK first : first = InOrder(places)
  OBVIOUS
<1>2. ListOf(first, places)
  <2>1. places \in SUBSET Int /\ IsFiniteSet(places)
    <3>1. places \subseteq 1..n
      BY <1>1
    <3>2. IsFiniteSet(1..n)
      BY FS_Interval
    <3> QED
      BY <3>1, <3>2, FS_Subset
  <2> PICK same : same = [i \in places |-> i]
    OBVIOUS
  <2>2. \A i \in places : same[i] \in Int
    BY <2>1
  <2>3. first = Ordered(places, same)
    BY DEF InOrder
  <2> QED
    BY <2>1, <2>2, <2>3, OrderedLists
<1>3. first \in Seq(places) /\ DOMAIN first = 1..Len(first) /\ Len(first) \in Nat
  BY <1>2, LenProperties DEF ListOf
<1>4. \A i \in 1..Len(first) : first[i] \in 1..n
  <2>1. \A i \in 1..Len(first) : first[i] \in places
    BY <1>3, ElementOfSeq
  <2> QED
    BY <1>1, <2>1
<1>5. Distinct(rows) = [i \in 1..Len(first) |-> rows[first[i]]]
  BY <1>3 DEF Distinct
<1>6. [i \in 1..Len(first) |-> rows[first[i]]] \in [1..Len(first) -> X]
  BY <1>1, <1>4
<1> QED
  BY ONLY <1>3, <1>5, <1>6, ListedSeq

LEMMA Rowless ==
    /\ Nothing.rows = <<>> /\ ~Nothing.late /\ ~Nothing.stop
    /\ TooLate.rows = <<>> /\ TooLate.late
    /\ \A of : Told(of).rows = <<>> /\ Stopped(of).rows = <<>> /\ Stopped(of).stop
    /\ \A rows : Result(rows).rows = rows /\ ~Result(rows).late /\ ~Result(rows).stop
    /\ \A rows, fact : [Result(rows) EXCEPT !.fact = fact].rows = rows
    /\ Range(<<>>) = {}
<1>1. /\ \A rows : Result(rows).rows = rows /\ Result(rows).late = FALSE /\ Result(rows).stop = FALSE
      /\ \A rows, fact : [Result(rows) EXCEPT !.fact = fact].rows = rows
  BY DEF Result
<1> PICK nothing : nothing = Nothing
  OBVIOUS
<1>2. nothing.rows = <<>> /\ nothing.late = FALSE /\ nothing.stop = FALSE /\ {"rows", "late", "stop"} \subseteq DOMAIN nothing
  BY DEF Nothing, Result
<1>3. TooLate.rows = <<>> /\ TooLate.late = TRUE
  BY <1>2 DEF TooLate
<1>4. ASSUME NEW of PROVE Told(of).rows = <<>> /\ Stopped(of).rows = <<>> /\ Stopped(of).stop
  <2> PICK told : told = Told(of)
    OBVIOUS
  <2>1. told.rows = <<>> /\ {"rows", "stop"} \subseteq DOMAIN told
    BY <1>2 DEF Told
  <2>2. Stopped(of) = [told EXCEPT !.stop = TRUE]
    BY DEF Stopped
  <2> QED
    BY ONLY <2>1, <2>2, told = Told(of)
<1>5. Range(<<>>) = {}
  BY DEF Range
<1> QED
  BY <1>1, <1>2, <1>3, <1>4, <1>5

InScope(scope) == {s \in Ids : scope = {} \/ Within(Addr[s], scope)}

LEMMA MatchingIn ==
    ASSUME NEW vector \in Int, NEW limit \in Nat, NEW scope, NEW some \in SUBSET Ids
    PROVE  Matching(vector, limit, scope, some) \in Lists
           /\ Range(Matching(vector, limit, scope, some)) \subseteq some \cap InScope(scope)
<1> PICK rows : rows = {s \in some \cap Photo \cap Embedded :
                          InTravelPool(s) /\ (scope = {} \/ Within(Addr[s], scope))}
  OBVIOUS
<1> PICK key : key = [s \in Ids |-> IF s \notin Embedded THEN 0
                              ELSE IF Vector[s] < vector THEN vector - Vector[s] ELSE Vector[s] - vector]
  OBVIOUS
<1>1. rows \in SUBSET Ids /\ rows \subseteq Embedded /\ rows \subseteq some \cap InScope(scope)
  BY DEF InScope
<1>2. \A s \in rows : key[s] \in Int
  <2> SUFFICES ASSUME NEW s \in rows PROVE key[s] \in Int
    OBVIOUS
  <2>1. s \in Ids /\ s \in Embedded /\ Vector[s] \in Int
    BY <1>1, SearchAssumption
  <2> QED
    BY <2>1
<1>3. Matching(vector, limit, scope, some) = Take(Ordered(rows, key), limit)
  BY DEF Matching
<1>4. Take(Ordered(rows, key), limit) \in Lists /\ Range(Take(Ordered(rows, key), limit)) \subseteq rows
  BY ONLY <1>1, <1>2, FirstRows, limit \in Nat
<1> QED
  BY <1>1, <1>3, <1>4

LEMMA BriefRows ==
    ASSUME NEW X, NEW list \in Seq(X), NEW some
    PROVE  Briefs(list, some) \in Seq(X \cap (some \cap Photo))
BY OnlyLists DEF Briefs

\* The average of some embeddings is one more place on the line.
LEMMA CentroidTyped ==
    ASSUME NEW seeds \in SUBSET Embedded, seeds # {}
    PROVE  Centroid(seeds) \in Int
<1>1. seeds \subseteq Ids /\ \A s \in seeds : Vector[s] \in Int
  BY SearchAssumption
<1>2. seeds \in SUBSET Int /\ IsFiniteSet(seeds)
  BY <1>1, IdsFinite
<1>3. Cardinality(seeds) \in Nat \ {0}
  BY <1>2, FS_EmptySet, FS_CardinalityType
<1>4. Total(seeds, Vector) \in Int
  BY <1>1, <1>2, TotalTyped
<1> QED
  BY <1>3, <1>4 DEF Centroid

\* What is found for the saved spots is in scope, and none of them.
LEMMA FoundForSaved ==
    ASSUME NEW call, NEW ctx, ctx.shown \in SUBSET Ids, ctx.saved \in Seq(Ids) \cup {None},
           NEW step, step = FromSaved(call, ctx)
    PROVE  \/ step.rows = <<>>
           \/ /\ ctx.saved # None /\ ~Unread(call) /\ Range(step.rows) \cap Range(ctx.saved) = {}
              /\ Range(step.rows) \subseteq InScope(Scope(HintsOf(call)))
<1> PICK some \in SUBSET Ids : some = ctx.shown
  OBVIOUS
<1> PICK listed : listed = Take(Only(ctx.saved, some), SeedLimit)
  OBVIOUS
<1> PICK seeds : seeds = Only(listed, Embedded)
  OBVIOUS
<1> PICK scope : scope = Scope(HintsOf(call))
  OBVIOUS
<1> PICK found : found = MatchingCentroid(Range(seeds), Excluded(Range(seeds), Range(ctx.saved)), SavedShown,
                                          scope, some)
  OBVIOUS
<1>1. step = IF ctx.saved = None THEN Told("anonymous")
             ELSE IF Len(seeds) < MinSeeds THEN Told("too few")
             ELSE IF Unread(call) THEN Nothing
             ELSE Result(Briefs(found, some))
  BY DEF FromSaved
<1>2. CASE step \in {Told("anonymous"), Told("too few"), Nothing}
  BY <1>2, Rowless
<1>3. CASE ctx.saved # None /\ ~(Len(seeds) < MinSeeds) /\ ~Unread(call)
  <2> PICK saved \in Seq(Ids) : saved = ctx.saved
    BY <1>3
  <2>1. MinSeeds \in Nat \ {0} /\ SeedLimit \in Nat /\ SavedShown \in Nat
    BY ToolsAssumption
  <2>2. seeds \in Seq((Ids \cap some) \cap Embedded)
    <3>1. Only(saved, some) \in Seq(Ids \cap some)
      BY OnlyLists
    <3>2. listed \in Seq(Ids \cap some)
      BY <2>1, <3>1, TakeLists
    <3> QED
      BY <3>2, OnlyLists
  <2>3. Range(seeds) \in SUBSET Embedded /\ Range(seeds) # {}
    <3>1. DOMAIN seeds = 1..Len(seeds) /\ Len(seeds) \in Nat
      BY <2>2, LenProperties
    <3>2. 1 \in DOMAIN seeds
      BY <1>3, <2>1, <3>1
    <3>3. Range(seeds) \subseteq (Ids \cap some) \cap Embedded
      BY <2>2, SeqRows
    <3> QED
      BY <3>2, <3>3 DEF Range
  <2> PICK at : at = Centroid(Range(seeds))
    OBVIOUS
  <2>4. at \in Int
    BY <2>3, CentroidTyped
  <2> PICK all : all = Range(saved)
    OBVIOUS
  <2> PICK rest \in SUBSET Ids : rest = some \ Excluded(Range(seeds), all)
    OBVIOUS
  <2>5. found = Matching(at, SavedShown, scope, rest)
    BY DEF MatchingCentroid
  <2>6. found \in Lists /\ Range(found) \subseteq rest \cap InScope(scope)
    BY <2>1, <2>4, <2>5, MatchingIn
  <2>7. step.rows = Only(found, some \cap Photo)
    BY <1>1, <1>3, Rowless DEF Briefs
  <2>8. Range(step.rows) \subseteq rest \cap InScope(scope)
    BY <2>6, <2>7, OnlyList
  <2>9. rest \cap all = {}
    BY DEF Excluded
  <2>10. Range(step.rows) \cap all = {}
    BY ONLY <2>8, <2>9
  <2> QED
    BY <1>3, <2>8, <2>10
<1> QED
  BY <1>1, <1>2, <1>3

---------------------------------------------------------------------------
\* What the user saved.

User == [at : Int \cup {None}, photo : Int \cup {None}, saved : Seq(Ids) \cup {None}]

\* Every call has its step, and the steps of from_saved show nothing saved.
StepsWithout(calls, steps, saved) ==
    /\ \E S, R : calls \in Seq(S) /\ steps \in Seq(R)
    /\ Len(steps) = Len(calls)
    /\ \A i \in 1..Len(calls) : calls[i].name = "from_saved" /\ saved # None =>
          Range(steps[i].rows) \cap Range(saved) = {}

SavedInv ==
    /\ shown \subseteq Ids
    /\ request \in User
    /\ StepsWithout(trace.calls, trace.steps, request.saved)

LEMMA StepAdded ==
    ASSUME NEW calls, NEW steps, NEW saved, StepsWithout(calls, steps, saved), NEW call, NEW result,
           call.name = "from_saved" /\ saved # None => Range(result.rows) \cap Range(saved) = {}
    PROVE  StepsWithout(Append(calls, call), Append(steps, result), saved)
<1>1. PICK S : calls \in Seq(S)
  BY DEF StepsWithout
<1>2. PICK R : steps \in Seq(R)
  BY DEF StepsWithout
<1>3. PICK S2 : S2 = S \cup {call}
  OBVIOUS
<1>4. PICK R2 : R2 = R \cup {result}
  OBVIOUS
<1>5. calls \in Seq(S2) /\ call \in S2 /\ steps \in Seq(R2) /\ result \in R2
  BY <1>1, <1>2, <1>3, <1>4, SeqMonotonic
<1>6. Len(calls) \in Nat /\ Len(steps) = Len(calls)
  BY <1>5, LenProperties DEF StepsWithout
<1> PICK callsNext : callsNext = Append(calls, call)
  OBVIOUS
<1> PICK stepsNext : stepsNext = Append(steps, result)
  OBVIOUS
<1>7. /\ callsNext \in Seq(S2) /\ Len(callsNext) = Len(calls) + 1
      /\ \A i \in 1..Len(calls) : callsNext[i] = calls[i]
      /\ callsNext[Len(calls) + 1] = call
  BY <1>5, AppendProperties
<1>8. /\ stepsNext \in Seq(R2) /\ Len(stepsNext) = Len(steps) + 1
      /\ \A i \in 1..Len(steps) : stepsNext[i] = steps[i]
      /\ stepsNext[Len(steps) + 1] = result
  BY <1>5, AppendProperties
<1>9. ASSUME NEW i \in 1..Len(callsNext), callsNext[i].name = "from_saved", saved # None
      PROVE  Range(stepsNext[i].rows) \cap Range(saved) = {}
  <2>1. CASE i = Len(calls) + 1
    BY <1>6, <1>7, <1>8, <1>9, <2>1
  <2>2. CASE i \in 1..Len(calls)
    BY <1>6, <1>7, <1>8, <1>9, <2>2 DEF StepsWithout
  <2> QED
    BY <1>6, <1>7, <2>1, <2>2
<1> QED
  BY <1>6, <1>7, <1>8, <1>9 DEF StepsWithout

LEMMA NoSteps == ASSUME NEW saved PROVE StepsWithout(NoTrace.calls, NoTrace.steps, saved)
<1>1. NoTrace.calls = <<>> /\ NoTrace.steps = <<>>
  BY DEF NoTrace
<1>2. <<>> \in Seq({}) /\ Len(<<>>) = 0
  BY EmptySeq
<1> QED
  BY <1>1, <1>2 DEF StepsWithout

LEMMA SavedInit == Init => SavedInv
BY TurnsAssumption, NoSteps DEF Init, SavedInv, User

\* What a call gives, made or too late, is nothing saved.
LEMMA GivesNothingSaved ==
    ASSUME SavedInv, NEW call, NEW result,
           result = TooLate \/ \E up \in BOOLEAN : result = Run(call, Ctx(up)),
           call.name = "from_saved", request.saved # None
    PROVE  Range(result.rows) \cap Range(request.saved) = {}
<1>1. CASE result = TooLate
  BY <1>1, Rowless
<1>2. ASSUME NEW up \in BOOLEAN, result = Run(call, Ctx(up))
      PROVE  Range(result.rows) \cap Range(request.saved) = {}
  <2>1. result = FromSaved(call, Ctx(up))
    BY <1>2 DEF Run
  <2> PICK ctx : ctx = Ctx(up)
    OBVIOUS
  <2>2. ctx.shown \in SUBSET Ids /\ ctx.saved = request.saved /\ ctx.saved \in Seq(Ids) \cup {None}
    BY DEF SavedInv, Ctx, User
  <2>3. ctx.saved # None
    BY <2>2
  <2> QED
    BY <2>1, <2>2, <2>3, FoundForSaved, Rowless
<1> QED
  BY <1>1, <1>2

LEMMA SavedNext ==
    ASSUME SavedInv, Next
    PROVE  SavedInv'
<1>1. ASSUME NEW opening, NEW user \in User, Begin(user, opening) PROVE SavedInv'
  BY <1>1, NoSteps DEF Begin, SavedInv
<1>2. ASSUME NEW user \in Users, Say(user) PROVE SavedInv'
  <2>1. user \in User
    BY TurnsAssumption DEF User
  <2> QED
    BY <1>1, <1>2, <2>1 DEF Say
<1>3. ASSUME NEW i, TapChip(i) PROVE SavedInv'
  BY <1>1, <1>3 DEF TapChip, SavedInv
<1>4. ASSUME NEW i, NEW action, TapCard(i, action) PROVE SavedInv'
  <2>1. [request EXCEPT !.photo = None] \in User
    BY DEF SavedInv, User
  <2> QED
    BY <1>1, <1>4, <2>1 DEF TapCard
<1>5. ASSUME NEW round, Decide(round) PROVE SavedInv'
  <2>1. trace'.calls = trace.calls /\ trace'.steps = trace.steps
    BY <1>5 DEF Decide
  <2> QED
    BY <1>5, <2>1 DEF Decide, SavedInv
<1>6. CASE Declined
  BY <1>6 DEF Declined, Observed, SavedInv
<1>7. ASSUME NEW call, NEW result, Observed, trace' = Traced(call, result),
             result = TooLate \/ \E up \in BOOLEAN : result = Run(call, Ctx(up))
      PROVE  SavedInv'
  <2>1. trace'.calls = Append(trace.calls, call) /\ trace'.steps = Append(trace.steps, result)
    BY <1>7 DEF Traced
  <2>2. call.name = "from_saved" /\ request.saved # None => Range(result.rows) \cap Range(request.saved) = {}
    BY <1>7, GivesNothingSaved
  <2>3. StepsWithout(Append(trace.calls, call), Append(trace.steps, result), request.saved)
    BY <2>2, StepAdded DEF SavedInv
  <2> QED
    BY <1>7, <2>1, <2>3 DEF Observed, SavedInv
<1>8. ASSUME NEW up \in BOOLEAN, RunOne(up) PROVE SavedInv'
  BY <1>7, <1>8 DEF RunOne
<1>9. CASE TimedOut
  BY <1>7, <1>9 DEF TimedOut
<1>10. ASSUME NEW response, End(response) PROVE SavedInv'
  BY <1>10 DEF End, SavedInv
<1>11. ASSUME NEW up \in BOOLEAN, Refused(up) PROVE SavedInv'
  BY <1>10, <1>11 DEF Refused
<1>12. CASE RateLimited \/ Respond
  BY <1>10, <1>12 DEF RateLimited, Respond
<1>13. ASSUME NEW s \in Ids, ShowFlag(s) PROVE SavedInv'
  BY <1>13 DEF ShowFlag, SavedInv
<1> QED
  BY <1>2, <1>3, <1>4, <1>5, <1>6, <1>8, <1>9, <1>11, <1>12, <1>13 DEF Next

\* What the user has saved is not recommended to them, whatever of it is hidden,
\* left out of the seeds or without an embedding, and however the turn goes on
\* (from_saved, match_spots_by_centroid, load_candidates_by_ids).
THEOREM SavedStaysOut == Spec => []SavedNeverRecommended
<1>1. SavedInv => SavedNeverRecommended
  <2> SUFFICES ASSUME SavedInv, NEW i \in CallsOf({"from_saved"}), request.saved # None
               PROVE  RowsOf(i) \cap Range(request.saved) = {}
    BY DEF SavedNeverRecommended
  <2>1. i \in DOMAIN trace.calls /\ trace.calls[i].name = "from_saved"
    BY DEF CallsOf
  <2>2. DOMAIN trace.calls = 1..Len(trace.calls)
    BY LenProperties DEF SavedInv, StepsWithout
  <2>3. Range(trace.steps[i].rows) \cap Range(request.saved) = {}
    BY <2>1, <2>2 DEF SavedInv, StepsWithout
  <2> QED
    BY <2>3 DEF RowsOf
<1>2. ASSUME SavedInv, UNCHANGED vars PROVE SavedInv'
  BY <1>2 DEF vars, SavedInv
<1>3. SavedInv /\ [Next]_vars => SavedInv'
  BY <1>2, SavedNext
<1> QED
  BY <1>1, <1>3, SavedInit, PTL DEF Spec

---------------------------------------------------------------------------
\* A chip of an answer.

\* What the arguments of a search are.
WordList(words) == \E X : words \in Seq(X)

Crowds == {"any", "quiet", "popular"}

Plain(call) ==
    /\ call.indoor \in BOOLEAN /\ call.near \in BOOLEAN /\ call.days \in Int /\ call.crowd \in Crowds
    /\ WordList(call.words) /\ WordList(call.hints)
    /\ call.name \in Searches => Range(call.words) \subseteq DOMAIN Codes

PlainCalls(calls) == \E S : calls \in Seq(S) /\ \A call \in S : Plain(call)

\* What a chip carries.
Patches ==
    {[NoPatch EXCEPT !.label = "crowd", !.crowd = "quiet"], [NoPatch EXCEPT !.label = "crowd", !.crowd = "popular"],
     [NoPatch EXCEPT !.label = "indoor", !.indoor = TRUE], [NoPatch EXCEPT !.label = "near", !.near = TRUE],
     [NoPatch EXCEPT !.label = "zoom out", !.drop = "region"], [NoPatch EXCEPT !.label = "widen", !.drop = "region"]}

PlainPatch(patch) == patch.crowd = None \/ patch.crowd \in Crowds

PlainChips(chips) == \A i \in DOMAIN chips : PlainPatch(chips[i])

\* What is kept of an answer for its chips.
Offered(kept, calls, located) ==
    \/ DOMAIN kept.chips = {}
    \/ /\ calls # <<>> /\ PlainChips(kept.chips)
       /\ kept.intent \in {IntentOf(calls), Searched(IntentOf(calls), located)}

ChipInv ==
    /\ PlainCalls(trace.calls) /\ PlainCalls(picked)
    /\ answer # None => ~open /\ Offered(answer, trace.calls, Located)

LEMMA PatchesPlain == ASSUME NEW chips \in Seq(Patches) PROVE PlainChips(chips)
<1>1. \A patch \in Patches : PlainPatch(patch)
  BY DEF Patches, NoPatch, PlainPatch, Crowds
<1>2. \A i \in DOMAIN chips : chips[i] \in Patches
  BY ElementOfSeq, LenProperties
<1> QED
  BY <1>1, <1>2 DEF PlainChips

LEMMA DerivedPlain ==
    ASSUME NEW intent, NEW located, NEW axes, NEW roofed
    PROVE  PlainChips(Derive(intent, located, axes, roofed)) /\ PlainChips(DeriveForZero(intent, axes))
<1> PICK crowd : crowd = IF "crowd" \notin axes \/ intent.crowd = "popular" THEN <<>>
                         ELSE <<[NoPatch EXCEPT !.label = "crowd", !.crowd = IF intent.crowd = "any" THEN "quiet" ELSE "popular"]>>
  OBVIOUS
<1> PICK indoor : indoor = IF "indoor" \in axes /\ ~intent.indoor /\ roofed
                           THEN <<[NoPatch EXCEPT !.label = "indoor", !.indoor = TRUE]>> ELSE <<>>
  OBVIOUS
<1> PICK near : near = IF "near" \in axes /\ located /\ ~intent.near
                       THEN <<[NoPatch EXCEPT !.label = "near", !.near = TRUE]>> ELSE <<>>
  OBVIOUS
<1> PICK out : out = [NoPatch EXCEPT !.label = "zoom out", !.drop = "region"]
  OBVIOUS
<1> PICK widen : widen = [NoPatch EXCEPT !.label = "widen", !.drop = "region"]
  OBVIOUS
<1>1. <<>> \in Seq(Patches)
  BY EmptySeq
<1>2. /\ [NoPatch EXCEPT !.label = "crowd", !.crowd = "quiet"] \in Patches
      /\ [NoPatch EXCEPT !.label = "crowd", !.crowd = "popular"] \in Patches
      /\ [NoPatch EXCEPT !.label = "indoor", !.indoor = TRUE] \in Patches
      /\ [NoPatch EXCEPT !.label = "near", !.near = TRUE] \in Patches
      /\ out \in Patches /\ widen \in Patches
  BY DEF Patches
<1>3. crowd \in Seq(Patches)
  <2>1. CASE "crowd" \notin axes \/ intent.crowd = "popular"
    BY <1>1, <2>1
  <2>2. CASE ~("crowd" \notin axes \/ intent.crowd = "popular") /\ intent.crowd = "any"
    <3> HIDE DEF Patches
    <3>1. crowd = <<[NoPatch EXCEPT !.label = "crowd", !.crowd = "quiet"]>>
      BY <2>2
    <3> QED
      BY <1>2, <3>1
  <2>3. CASE ~("crowd" \notin axes \/ intent.crowd = "popular") /\ intent.crowd # "any"
    <3>1. crowd = <<[NoPatch EXCEPT !.label = "crowd", !.crowd = "popular"]>>
      BY <2>3
    <3> QED
      BY <1>2, <3>1
  <2> QED
    BY <2>1, <2>2, <2>3
<1>4. indoor \in Seq(Patches)
  BY <1>1, <1>2
<1>5. near \in Seq(Patches)
  BY <1>1, <1>2
<1> PICK chips : chips = crowd \o indoor \o near
  OBVIOUS
<1>6. chips \in Seq(Patches)
  <2>1. crowd \o indoor \in Seq(Patches)
    BY <1>3, <1>4, ConcatProperties
  <2> QED
    BY <1>5, <2>1, ConcatProperties
<1>7. \A n \in Nat : Take(chips, n) \in Seq(Patches)
  BY <1>6, TakeLists
<1>8. Append(Take(chips, MAX_SUGGESTIONS - 1), out) \in Seq(Patches)
  <2>1. MAX_SUGGESTIONS - 1 \in Nat
    BY DEF MAX_SUGGESTIONS
  <2>2. Take(chips, MAX_SUGGESTIONS - 1) \in Seq(Patches)
    BY <1>7, <2>1
  <2> QED
    BY <1>2, <2>2, AppendProperties
<1>9. Derive(intent, located, axes, roofed) \in
        {<<>>, Append(Take(chips, MAX_SUGGESTIONS - 1), out), Take(chips, MAX_SUGGESTIONS)}
  BY DEF Derive
<1>10. Take(chips, MAX_SUGGESTIONS) \in Seq(Patches)
  BY <1>7 DEF MAX_SUGGESTIONS
<1>11. DeriveForZero(intent, axes) \in {<<>>, <<widen>>}
  BY DEF DeriveForZero
<1>12. <<widen>> \in Seq(Patches)
  BY <1>2
<1>13. Derive(intent, located, axes, roofed) \in Seq(Patches) /\ DeriveForZero(intent, axes) \in Seq(Patches)
  BY <1>1, <1>8, <1>9, <1>10, <1>11, <1>12
<1> QED
  BY <1>13, PatchesPlain

LEMMA AnswerOffers == ASSUME NEW told, NEW located PROVE Offered(AnswerOf(told, located), told.calls, located)
<1> DEFINE calls == told.calls
           intent == IntentOf(calls)
           axes == Axes(calls, intent)
<1>1. ASSUME NEW why PROVE DOMAIN Failure(why).chips = {}
  BY DEF Failure, Answer
<1>2. ASSUME calls # <<>> PROVE Offered(ZeroAnswer(intent, located, axes), calls, located)
  <2>1. ASSUME NEW kind, NEW spots, NEW kept, NEW facts, NEW chips
        PROVE  Answer(kind, spots, kept, facts, chips).intent = kept
               /\ Answer(kind, spots, kept, facts, chips).chips = chips
    BY DEF Answer
  <2> HIDE DEF intent, axes
  <2> PICK kept : kept = Searched(intent, located)
    OBVIOUS
  <2> PICK chips : chips = DeriveForZero(kept, axes)
    OBVIOUS
  <2> PICK zero : zero = Answer("zero", <<>>, kept, <<>>, chips)
    OBVIOUS
  <2>2. ZeroAnswer(intent, located, axes) \in {Failure("no results"), zero}
    BY DEF ZeroAnswer
  <2>3. zero.intent = kept /\ zero.chips = chips
    BY <2>1
  <2>4. PlainChips(chips)
    BY DerivedPlain
  <2> QED
    BY <1>1, <1>2, <2>2, <2>3, <2>4 DEF Offered, intent
<1>3. CASE calls = <<>>
  <2>1. AnswerOf(told, located) = Answer("talk", <<>>, NoIntent, <<>>, <<>>)
    BY <1>3 DEF AnswerOf
  <2>2. DOMAIN AnswerOf(told, located).chips = {}
    BY <2>1 DEF Answer
  <2> QED
    BY <2>2 DEF Offered
<1>4. CASE calls # <<>> /\ told.rows = <<>> /\ told.facts # <<>>
  <2>1. AnswerOf(told, located) = Answer("facts", told.anchors, intent, told.facts, <<>>)
    BY <1>4 DEF AnswerOf
  <2>2. DOMAIN AnswerOf(told, located).chips = {}
    BY <2>1 DEF Answer
  <2> QED
    BY <2>2 DEF Offered
<1>5. CASE calls # <<>> /\ told.rows = <<>> /\ told.facts = <<>>
  BY <1>2, <1>5 DEF AnswerOf
<1>6. CASE calls # <<>> /\ told.rows # <<>>
  <2> DEFINE spots == Take(told.rows, ResultLimit)
             chips == Derive(intent, located, axes, \E i \in DOMAIN told.rows : Indoor(told.rows[i]))
  <2>1. AnswerOf(told, located) = Answer("found", spots, intent, told.facts, chips)
    BY <1>6 DEF AnswerOf
  <2>2. AnswerOf(told, located).intent = intent /\ AnswerOf(told, located).chips = chips
    <3> HIDE DEF spots, intent, chips
    <3> QED
      BY <2>1 DEF Answer
  <2>3. PlainChips(chips)
    <3> HIDE DEF intent, axes
    <3> QED
      BY DerivedPlain
  <2> QED
    BY <1>6, <2>2, <2>3 DEF Offered
<1> QED
  BY <1>3, <1>4, <1>5, <1>6

\* The last search is the last call, where that is a search.
LEMMA IntentOfLast ==
    ASSUME NEW calls, PlainCalls(calls), calls # <<>>, NEW last, last = Last(calls),
           last.name \in {"category_search", "plan_itinerary"}
    PROVE  /\ IntentOf(calls) =
                [festival |-> FALSE, hints |-> last.hints, words |-> last.words, moods |-> last.moods,
                 crowd |-> last.crowd, indoor |-> last.indoor, near |-> last.near,
                 days |-> IF last.name = "plan_itinerary" THEN DaysOf(last) ELSE 0]
           /\ Plain(last)
<1>1. PICK S : calls \in Seq(S) /\ \A call \in S : Plain(call)
  BY DEF PlainCalls
<1> PICK N : N = Len(calls)
  OBVIOUS
<1>2. N \in Nat /\ N # 0 /\ DOMAIN calls = 1..N
  BY <1>1, LenProperties, EmptySeq
<1>3. last = calls[N] /\ Plain(last)
  <2>1. last = calls[N]
    BY DEF Last
  <2>2. calls[N] \in S
    BY <1>1, <1>2, ElementOfSeq
  <2> QED
    BY <1>1, <2>1, <2>2
<1> PICK searched : searched = {i \in DOMAIN calls : calls[i].name \in Searches}
  OBVIOUS
<1>4. N \in searched /\ \A i \in searched : i \in 1..N
  BY <1>2, <1>3 DEF Searches
<1>5. Max(searched) = N
  <2>1. \E x \in searched : \A y \in searched : x >= y
    BY <1>2, <1>4
  <2>2. Max(searched) \in searched /\ \A y \in searched : Max(searched) >= y
    BY <2>1 DEF Max
  <2> QED
    BY <1>2, <1>4, <2>2
<1>6. IntentOf(calls) =
        [festival |-> last.name = "festival", hints |-> last.hints, words |-> last.words,
         moods |-> last.moods, crowd |-> last.crowd, indoor |-> last.indoor, near |-> last.near,
         days |-> IF last.name = "plan_itinerary" THEN DaysOf(last) ELSE 0]
  BY <1>3, <1>4, <1>5 DEF IntentOf
<1>7. (last.name = "festival") = FALSE
  OBVIOUS
<1> QED
  BY <1>3, <1>6, <1>7

LEMMA DaysAgain ==
    ASSUME NEW last, last.days \in Int, NEW next, next.days = DaysOf(last)
    PROVE  DaysOf(last) \in Int \ {0} /\ DaysOf(next) = DaysOf(last)
<1>1. MaxDays \in Nat \ {0, 1}
  BY ToolsAssumption
<1>2. DaysOf(last) \in 1..MaxDays
  BY <1>1 DEF DaysOf
<1>3. next.days \in 1..MaxDays
  BY <1>2
<1> QED
  BY <1>1, <1>2, <1>3 DEF DaysOf

LEMMA ChipOfLast ==
    ASSUME NEW last, Plain(last), last.name \in {"category_search", "plan_itinerary"}, NEW chip,
           NEW near \in BOOLEAN, near \in {last.near, last.near /\ Located},
           NEW intent,
           intent = [festival |-> FALSE, hints |-> last.hints, words |-> last.words, moods |-> last.moods,
                     crowd |-> last.crowd, indoor |-> last.indoor, near |-> near,
                     days |-> IF last.name = "plan_itinerary" THEN DaysOf(last) ELSE 0]
    PROVE  Replayed(ChipOpening(intent, chip, None), last, chip)
<1> PICK days : days = IF last.name = "plan_itinerary" THEN DaysOf(last) ELSE 0
  OBVIOUS
<1> PICK crowd : crowd = IF chip.crowd = None THEN last.crowd ELSE chip.crowd
  OBVIOUS
<1> PICK indoor : indoor = (last.indoor \/ chip.indoor)
  OBVIOUS
<1> PICK nearby : nearby = (near \/ chip.near)
  OBVIOUS
<1> PICK hints : hints = IF chip.drop = "region" THEN <<>> ELSE last.hints
  OBVIOUS
<1> PICK patched : patched = ApplyPatch(intent, chip)
  OBVIOUS
<1>1. /\ patched.festival = FALSE /\ patched.words = last.words /\ patched.moods = last.moods
      /\ patched.days = days
  BY DEF ApplyPatch
<1>2. patched.hints = hints
  BY DEF ApplyPatch
<1>3. patched.crowd = crowd
  BY DEF ApplyPatch
<1>4. patched.indoor = indoor
  BY DEF ApplyPatch
<1>5. patched.near = nearby
  BY DEF ApplyPatch
<1> PICK next : next = ChipOpening(intent, chip, None)
  OBVIOUS
<1>6. next = [name |-> IF days # 0 THEN "plan_itinerary" ELSE "category_search",
              hints |-> hints, words |-> last.words, moods |-> last.moods, crowd |-> crowd,
              indoor |-> indoor, near |-> nearby, days |-> days, spot |-> None, kind |-> None]
  BY <1>1, <1>2, <1>3, <1>4, <1>5 DEF ChipOpening, CallFromIntent
<1>7. last.name = "plan_itinerary" => DaysOf(last) \in Int \ {0}
  BY DaysAgain DEF Plain
<1>8. next.name = last.name /\ next.words = last.words /\ next.moods = last.moods /\ next.days = days
  <2>1. /\ next.name = (IF days # 0 THEN "plan_itinerary" ELSE "category_search")
        /\ next.words = last.words /\ next.moods = last.moods /\ next.days = days
    BY ONLY <1>6
  <2>2. last.name = "plan_itinerary" => days # 0
    BY <1>7
  <2>3. last.name # "plan_itinerary" => days = 0
    OBVIOUS
  <2>4. last.name = IF days # 0 THEN "plan_itinerary" ELSE "category_search"
    BY ONLY <2>2, <2>3, last.name \in {"category_search", "plan_itinerary"}
  <2> QED
    BY ONLY <2>1, <2>4
<1>9. next.name = "plan_itinerary" => DaysOf(next) = DaysOf(last)
  BY <1>8, DaysAgain DEF Plain
<1>10. chip.crowd = None => next.crowd = last.crowd
  <2>1. next.crowd = crowd
    BY ONLY <1>6
  <2> QED
    BY <2>1
<1>11. ~chip.indoor => next.indoor = last.indoor
  <2>1. last.indoor \in BOOLEAN /\ next.indoor = indoor
    BY <1>6 DEF Plain
  <2> QED
    BY <2>1
<1>12. ~chip.near => next.near \in {last.near, last.near /\ Located}
  <2>1. next.near = nearby
    BY <1>6
  <2> QED
    BY <2>1
<1>13. chip.drop = None => next.hints = last.hints
  <2>1. None # "region"
    BY ToolsAssumption
  <2>2. next.hints = hints
    BY ONLY <1>6
  <2> QED
    BY <2>1, <2>2
<1> QED
  BY <1>8, <1>9, <1>10, <1>11, <1>12, <1>13 DEF Replayed

\* What is kept of a search, to search again.
PlainIntent(intent) ==
    /\ intent.days \in Int /\ intent.crowd \in Crowds
    /\ WordList(intent.words) /\ WordList(intent.hints) /\ Range(intent.words) \subseteq DOMAIN Codes

LEMMA SearchedIntent ==
    ASSUME NEW intent, PlainIntent(intent), NEW located
    PROVE  PlainIntent(Searched(intent, located))
BY DEF Searched, PlainIntent

LEMMA NoWords == WordList(<<>>) /\ Range(<<>>) = {}
<1>1. <<>> \in Seq({})
  BY EmptySeq
<1>2. Range(<<>>) = {}
  BY DEF Range
<1> QED
  BY <1>1, <1>2 DEF WordList

LEMMA LatestOf ==
    ASSUME NEW S, NEW calls \in Seq(S), NEW T \in SUBSET DOMAIN calls, T # {}
    PROVE  Max(T) \in T /\ calls[Max(T)] \in S
<1>1. Len(calls) \in Nat /\ DOMAIN calls = 1..Len(calls)
  BY LenProperties
<1>2. \E x \in T : \A y \in T : x >= y
  <2> DEFINE R == {Len(calls) - y : y \in T}
  <2>1. R \in SUBSET Nat /\ R # {}
    BY <1>1
  <2>2. PICK m \in R : \A k \in R : m <= k
    <3> HIDE DEF R
    <3> QED
      BY <2>1, LeastOf
  <2>3. PICK x \in T : m = Len(calls) - x
    OBVIOUS
  <2>4. ASSUME NEW y \in T PROVE x >= y
    <3>1. m <= Len(calls) - y
      BY <2>2
    <3> QED
      BY <1>1, <2>3, <3>1
  <2> QED
    BY <2>4
<1>3. Max(T) \in T
  BY <1>2 DEF Max
<1> QED
  BY <1>1, <1>3, ElementOfSeq

LEMMA IntentPlain ==
    ASSUME NEW calls, PlainCalls(calls)
    PROVE  PlainIntent(IntentOf(calls))
<1>1. PICK S : calls \in Seq(S) /\ \A call \in S : Plain(call)
  BY DEF PlainCalls
<1> PICK searched : searched = {i \in DOMAIN calls : calls[i].name \in Searches}
  OBVIOUS
<1>2. CASE searched = {}
  <2> PICK none : none = NoIntent
    OBVIOUS
  <2> PICK regions : regions = LastRegions(calls)
    OBVIOUS
  <2>1. WordList(regions)
    <3> PICK named : named = {i \in DOMAIN calls : calls[i].hints # <<>>}
      OBVIOUS
    <3>1. CASE named = {}
      BY <3>1, NoWords DEF LastRegions
    <3>2. CASE named # {}
      <4>1. calls[Max(named)] \in S
        BY <1>1, <3>2, LatestOf
      <4>2. WordList(calls[Max(named)].hints)
        BY <1>1, <4>1 DEF Plain
      <4> QED
        BY <3>2, <4>2 DEF LastRegions
    <3> QED
      BY <3>1, <3>2
  <2>2. none.days = 0 /\ none.words = <<>> /\ none.crowd = "any" /\ "hints" \in DOMAIN none
    BY DEF NoIntent
  <2>3. PlainIntent([none EXCEPT !.hints = regions])
    BY <2>1, <2>2, NoWords DEF PlainIntent, Crowds
  <2>4. IntentOf(calls) = [none EXCEPT !.hints = regions]
    BY <1>2 DEF IntentOf
  <2> QED
    BY <2>3, <2>4
<1>3. CASE searched # {}
  <2> PICK last : last = calls[Max(searched)]
    OBVIOUS
  <2>1. last \in S /\ Max(searched) \in searched
    BY <1>1, <1>3, LatestOf
  <2>2. Plain(last) /\ last.name \in Searches
    BY <1>1, <2>1
  <2>3. DaysOf(last) \in Int
    <3> PICK again : again = [days |-> DaysOf(last)]
      OBVIOUS
    <3>1. again.days = DaysOf(last)
      OBVIOUS
    <3> QED
      BY <2>2, <3>1, DaysAgain DEF Plain
  <2>4. /\ IntentOf(calls).days = IF last.name = "plan_itinerary" THEN DaysOf(last) ELSE 0
        /\ IntentOf(calls).words = last.words /\ IntentOf(calls).hints = last.hints
        /\ IntentOf(calls).crowd = last.crowd
    BY <1>3 DEF IntentOf
  <2> QED
    BY <2>2, <2>3, <2>4 DEF Plain, PlainIntent
<1> QED
  BY <1>2, <1>3

LEMMA PlainBlank ==
    ASSUME NEW call, call.indoor \in BOOLEAN, call.near \in BOOLEAN, call.days = 0, call.crowd = "any",
           call.words = <<>>, WordList(call.hints)
    PROVE  Plain(call)
<1>1. call.indoor \in BOOLEAN /\ call.near \in BOOLEAN /\ call.days \in Int /\ call.crowd \in Crowds
  BY DEF Crowds
<1>2. WordList(call.words) /\ Range(call.words) = {}
  BY NoWords
<1>3. Range(call.words) \subseteq DOMAIN Codes
  BY ONLY <1>2
<1> QED
  BY ONLY <1>1, <1>2, <1>3, WordList(call.hints) DEF Plain

LEMMA PlainPhoto == ASSUME NEW hints, WordList(hints) PROVE Plain(PhotoCall(hints))
<1> PICK call : call = PhotoCall(hints)
  OBVIOUS
<1>1. /\ call.indoor \in BOOLEAN /\ call.near \in BOOLEAN /\ call.days = 0 /\ call.crowd = "any"
      /\ call.words = <<>> /\ call.hints = hints
  BY DEF PhotoCall, Blank
<1> QED
  BY <1>1, PlainBlank, NoWords

LEMMA PlainCard == ASSUME NEW action, NEW s PROVE Plain(AnchorCall(action, s))
<1> PICK call : call = AnchorCall(action, s)
  OBVIOUS
<1>1. /\ call.indoor \in BOOLEAN /\ call.near \in BOOLEAN /\ call.days = 0 /\ call.crowd = "any"
      /\ call.words = <<>> /\ call.hints = <<>>
  BY DEF AnchorCall, Blank
<1> QED
  BY <1>1, PlainBlank, NoWords

LEMMA PlainChip ==
    ASSUME NEW intent, PlainIntent(intent), NEW patch, PlainPatch(patch), NEW photo
    PROVE  Plain(ChipOpening(intent, patch, photo))
<1> PICK patched : patched = ApplyPatch(intent, patch)
  OBVIOUS
<1>1. /\ patched.days \in Int /\ WordList(patched.words) /\ Range(patched.words) \subseteq DOMAIN Codes
      /\ patched.crowd \in Crowds /\ WordList(patched.hints)
  <2> PICK crowd : crowd = IF patch.crowd = None THEN intent.crowd ELSE patch.crowd
    OBVIOUS
  <2> PICK hints : hints = IF patch.drop = "region" THEN <<>> ELSE intent.hints
    OBVIOUS
  <2>1. patched.days = intent.days /\ patched.words = intent.words
    BY DEF ApplyPatch
  <2>2. crowd \in Crowds /\ WordList(hints)
    BY NoWords DEF PlainIntent, PlainPatch
  <2> QED
    BY <2>1, <2>2 DEF ApplyPatch, PlainIntent
<1>2. CASE photo # None
  BY <1>1, <1>2, PlainPhoto DEF ChipOpening
<1>3. CASE photo = None
  <2>1. patched.indoor \in BOOLEAN /\ patched.near \in BOOLEAN
    BY DEF ApplyPatch
  <2>2. Plain(CallFromIntent(patched))
    <3>1. CASE patched.festival
      <4> PICK call : call = CallFromIntent(patched)
        OBVIOUS
      <4>1. /\ call.indoor \in BOOLEAN /\ call.near \in BOOLEAN /\ call.days = 0 /\ call.crowd = "any"
            /\ call.words = <<>> /\ call.hints = patched.hints
        BY <3>1 DEF CallFromIntent, Blank
      <4> QED
        BY <1>1, <4>1, PlainBlank
    <3>2. CASE ~patched.festival
      BY <1>1, <2>1, <3>2 DEF CallFromIntent, Plain
    <3> QED
      BY <3>1, <3>2
  <2> QED
    BY <1>3, <2>2 DEF ChipOpening
<1> QED
  BY <1>2, <1>3

LEMMA OnePlain == ASSUME NEW call, Plain(call) PROVE PlainCalls(<<call>>)
<1> PICK S : S = {call}
  OBVIOUS
<1>1. <<call>> \in Seq(S) /\ \A c \in S : Plain(c)
  OBVIOUS
<1> QED
  BY <1>1 DEF PlainCalls

LEMMA NonePlain == PlainCalls(<<>>)
<1> PICK S : S = {call \in Call : FALSE}
  OBVIOUS
<1>1. <<>> \in Seq(S) /\ \A call \in S : Plain(call)
  BY EmptySeq
<1> QED
  BY ONLY <1>1 DEF PlainCalls

LEMMA RoundPlain == ASSUME NEW round \in Rounds PROVE PlainCalls(round)
<1>1. round \in Seq(Call)
  BY TurnsAssumption
<1>2. ASSUME NEW call \in Call, call.name \in Searches => Range(call.words) \subseteq DOMAIN Codes PROVE Plain(call)
  <2>1. WordList(call.words) /\ WordList(call.hints)
    BY DEF Call, WordList
  <2> QED
    BY <1>2, <2>1 DEF Call, Plain, Crowds
<1> PICK S : S = Range(round)
  OBVIOUS
<1>3. round \in Seq(S) /\ \A call \in S : Plain(call)
  <2>1. round \in [1..Len(round) -> Call] /\ Len(round) \in Nat /\ DOMAIN round = 1..Len(round)
    BY <1>1, LenProperties
  <2>2. round \in [1..Len(round) -> S]
    BY <2>1 DEF Range
  <2>3. ASSUME NEW i \in DOMAIN round PROVE Plain(round[i])
    <3>1. round[i].name \in Searches => Range(round[i].words) \subseteq DOMAIN Codes
      BY TurnsAssumption
    <3>2. round[i] \in Call
      BY <2>1
    <3> QED
      BY <1>2, <3>1, <3>2
  <2>4. \A call \in S : Plain(call)
    BY <2>3 DEF Range
  <2> QED
    BY <2>1, <2>2, <2>4, SeqDef
<1> QED
  BY ONLY <1>3 DEF PlainCalls

LEMMA ObservedPlain ==
    ASSUME NEW calls, PlainCalls(calls), NEW left, PlainCalls(left), left # <<>>
    PROVE  PlainCalls(Append(calls, Head(left))) /\ PlainCalls(Tail(left))
<1>1. PICK S : calls \in Seq(S) /\ \A call \in S : Plain(call)
  BY DEF PlainCalls
<1>2. PICK R : left \in Seq(R) /\ \A call \in R : Plain(call)
  BY DEF PlainCalls
<1>3. Head(left) \in R /\ Tail(left) \in Seq(R)
  BY <1>2, HeadTailProperties
<1> PICK call : call = Head(left)
  OBVIOUS
<1> PICK both : both = S \cup R
  OBVIOUS
<1>4. calls \in Seq(both) /\ call \in both
  BY <1>1, <1>3, SeqMonotonic
<1>5. Append(calls, call) \in Seq(both)
  BY <1>4, AppendProperties
<1>6. \A c \in both : Plain(c)
  BY <1>1, <1>2
<1> QED
  BY <1>2, <1>3, <1>5, <1>6 DEF PlainCalls

LEMMA ChipInit == Init => ChipInv
BY NonePlain DEF Init, ChipInv, NoTrace

LEMMA ChipNext ==
    ASSUME ChipInv, Next
    PROVE  ChipInv'
<1>1. ASSUME NEW user, NEW opening, PlainCalls(opening), Begin(user, opening) PROVE ChipInv'
  <2>1. PlainCalls(NoTrace.calls)
    BY NonePlain DEF NoTrace
  <2> QED
    BY <1>1, <2>1 DEF Begin, ChipInv
<1>2. ASSUME NEW user, Say(user) PROVE ChipInv'
  <2>1. PlainCalls(IF user.photo # None THEN <<PhotoCall(<<>>)>> ELSE <<>>)
    BY NonePlain, PlainPhoto, OnePlain, NoWords
  <2> QED
    BY <1>1, <1>2, <2>1 DEF Say
<1>3. ASSUME answer # None, NEW i \in DOMAIN answer.chips, TapChip(i) PROVE ChipInv'
  <2>1. PlainIntent(answer.intent) /\ PlainPatch(answer.chips[i])
    <3>1. /\ answer.intent \in {IntentOf(trace.calls), Searched(IntentOf(trace.calls), Located)}
          /\ PlainPatch(answer.chips[i])
      BY <1>3 DEF ChipInv, Offered, PlainChips
    <3>2. PlainIntent(IntentOf(trace.calls))
      BY IntentPlain DEF ChipInv
    <3> QED
      BY <3>1, <3>2, SearchedIntent
  <2> PICK call : call = ChipOpening(answer.intent, answer.chips[i], request.photo)
    OBVIOUS
  <2>2. PlainCalls(<<call>>)
    BY <2>1, PlainChip, OnePlain
  <2>3. Begin(request, <<call>>)
    BY <1>3 DEF TapChip
  <2> QED
    BY <1>1, <2>2, <2>3
<1>4. ASSUME NEW i, NEW action, TapCard(i, action) PROVE ChipInv'
  <2> PICK call : call = AnchorCall(action, answer.spots[i])
    OBVIOUS
  <2> PICK user : user = [request EXCEPT !.photo = None]
    OBVIOUS
  <2>1. Begin(user, <<call>>)
    BY <1>4 DEF TapCard
  <2> QED
    BY <1>1, <2>1, PlainCard, OnePlain
<1>5. ASSUME NEW round \in Rounds, Decide(round) PROVE ChipInv'
  <2>1. trace'.calls = trace.calls /\ answer' = answer /\ answer = None
    BY <1>5 DEF Decide, ChipInv
  <2> QED
    BY <1>5, <2>1, RoundPlain DEF Decide, ChipInv
<1>6. ASSUME Observed, trace'.calls \in {trace.calls, Append(trace.calls, Head(picked))} PROVE ChipInv'
  <2>1. answer' = None /\ picked' = Tail(picked) /\ picked # <<>>
    BY <1>6 DEF Observed, ChipInv
  <2>2. PlainCalls(Append(trace.calls, Head(picked))) /\ PlainCalls(Tail(picked))
    BY <2>1, ObservedPlain DEF ChipInv
  <2> QED
    BY <1>6, <2>1, <2>2 DEF ChipInv
<1>7. CASE Declined
  BY <1>6, <1>7 DEF Declined
<1>8. ASSUME Observed, NEW result, trace' = Traced(Head(picked), result) PROVE ChipInv'
  <2>1. trace'.calls = Append(trace.calls, Head(picked))
    BY <1>8 DEF Traced
  <2> QED
    BY <1>6, <1>8, <2>1
<1>9. ASSUME NEW up \in BOOLEAN, RunOne(up) PROVE ChipInv'
  BY <1>8, <1>9 DEF RunOne
<1>10. CASE TimedOut
  BY <1>8, <1>10 DEF TimedOut
<1>11. ASSUME NEW response, Offered(response, trace.calls, Located), End(response) PROVE ChipInv'
  BY <1>11, NonePlain DEF End, ChipInv, Located
<1>12. ASSUME NEW why, End(Failure(why)) PROVE ChipInv'
  <2>1. DOMAIN Failure(why).chips = {}
    BY DEF Failure, Answer
  <2> QED
    BY <1>11, <1>12, <2>1 DEF Offered
<1>13. ASSUME NEW up \in BOOLEAN, Refused(up) PROVE ChipInv'
  BY <1>12, <1>13 DEF Refused
<1>14. CASE RateLimited
  BY <1>12, <1>14 DEF RateLimited
<1>15. CASE Respond
  BY <1>11, <1>15, AnswerOffers DEF Respond
<1>16. ASSUME NEW s \in Ids, ShowFlag(s) PROVE ChipInv'
  BY <1>16 DEF ShowFlag, ChipInv, Located
<1> QED
  BY <1>2, <1>3, <1>4, <1>5, <1>7, <1>9, <1>10, <1>13, <1>14, <1>15, <1>16 DEF Next

LEMMA ChipStep == ChipInv => ChipReplay
<1> SUFFICES ASSUME ChipInv, answer # None, NEW i \in DOMAIN answer.chips, TapChip(i),
                    request.photo = None, NEW last, last = Last(trace.calls),
                    last.name \in {"category_search", "plan_itinerary"}
             PROVE  Replayed(Head(picked'), last, answer.chips[i])
  BY DEF ChipReplay
<1> PICK chip : chip = answer.chips[i]
  OBVIOUS
<1> PICK first : first = IntentOf(trace.calls)
  OBVIOUS
<1> PICK intent : intent = answer.intent
  OBVIOUS
<1>1. trace.calls # <<>> /\ intent \in {first, Searched(first, Located)}
  BY DEF ChipInv, Offered
<1>2. /\ first = [festival |-> FALSE, hints |-> last.hints, words |-> last.words, moods |-> last.moods,
                 crowd |-> last.crowd, indoor |-> last.indoor, near |-> last.near,
                 days |-> IF last.name = "plan_itinerary" THEN DaysOf(last) ELSE 0]
      /\ Plain(last)
  BY <1>1, IntentOfLast DEF ChipInv
<1>3. PICK near \in BOOLEAN :
        /\ near \in {last.near, last.near /\ Located}
        /\ intent = [festival |-> FALSE, hints |-> last.hints, words |-> last.words, moods |-> last.moods,
                     crowd |-> last.crowd, indoor |-> last.indoor, near |-> near,
                     days |-> IF last.name = "plan_itinerary" THEN DaysOf(last) ELSE 0]
  <2>1. CASE intent = first
    BY <1>2, <2>1 DEF Plain
  <2>2. CASE intent = Searched(first, Located)
    <3> PICK near : near = (last.near /\ Located)
      OBVIOUS
    <3> PICK days : days = IF last.name = "plan_itinerary" THEN DaysOf(last) ELSE 0
      OBVIOUS
    <3>1. intent = [first EXCEPT !.near = near]
      <4>1. first.near = last.near
        BY <1>2
      <4> QED
        BY <2>2, <4>1 DEF Searched
    <3>2. first = [festival |-> FALSE, hints |-> last.hints, words |-> last.words, moods |-> last.moods,
                   crowd |-> last.crowd, indoor |-> last.indoor, near |-> last.near, days |-> days]
      BY <1>2
    <3>3. intent = [festival |-> FALSE, hints |-> last.hints, words |-> last.words, moods |-> last.moods,
                    crowd |-> last.crowd, indoor |-> last.indoor, near |-> near, days |-> days]
      BY ONLY <3>1, <3>2
    <3> QED
      BY <3>3
  <2> QED
    BY <1>1, <2>1, <2>2
<1>4. Replayed(ChipOpening(intent, chip, None), last, chip)
  BY <1>2, <1>3, ChipOfLast
<1>5. picked' = <<ChipOpening(intent, chip, None)>>
  BY DEF TapChip, Begin
<1>6. Head(picked') = ChipOpening(intent, chip, None)
  BY <1>5
<1> QED
  BY <1>4, <1>6

\* The search a chip starts is the search that was answered with one condition
\* changed, whatever the user had said and the tools gave (intent_of,
\* searched_intent, apply_patch, call_from_intent).
THEOREM ChipsReplay == Spec => ChipReplays
<1>1. ASSUME ChipInv, UNCHANGED vars PROVE ChipInv'
  BY <1>1 DEF vars, ChipInv, Located
<1>2. ChipInv /\ [Next]_vars => ChipInv'
  BY <1>1, ChipNext
<1>3. ChipInv /\ [Next]_vars => [ChipReplay]_vars
  BY ChipStep
<1> QED
  BY <1>2, <1>3, ChipInit, PTL DEF Spec, ChipReplays


\* A quotient grows with what is divided.
LEMMA Quotients ==
    ASSUME NEW a \in Nat, NEW b \in Nat, NEW n \in Nat \ {0}, a <= b
    PROVE  a \div n \in Nat /\ b \div n \in Nat /\ a \div n <= b \div n
<1> PICK p : p = a \div n
  OBVIOUS
<1> PICK q : q = b \div n
  OBVIOUS
<1>1. p \in Int /\ q \in Int /\ p >= 0 /\ q >= 0 /\ n * p <= a /\ a < n * p + n /\ n * q <= b /\ b < n * q + n
  OBVIOUS
<1>2. ASSUME q < p PROVE FALSE
  <2>1. n * (q + 1) <= n * p
    BY <1>1, <1>2
  <2>2. n * (q + 1) = n * q + n
    BY <1>1
  <2> QED
    BY <1>1, <2>1, <2>2
<1> QED
  BY <1>1, <1>2

LEMMA Percentiles ==
    ASSUME NEW rows \in SUBSET Ids, \A s \in rows : Rate[s] \in Int
    PROVE  /\ \A s \in rows : Percentile(s, rows) \in 1..100
           /\ \A s, t \in rows : Rate[s] <= Rate[t] => Percentile(s, rows) <= Percentile(t, rows)
<1> PICK n : n = Cardinality(rows)
  OBVIOUS
<1> DEFINE Below(s) == {t \in rows : Rate[t] <= Rate[s]}
           Share(s) == (200 * Cardinality(Below(s)) + n) \div (2 * n)
<1>1. IsFiniteSet(rows) /\ n \in Nat
  BY IdsFinite, FS_CardinalityType
<1>2. ASSUME NEW s \in rows PROVE IsFiniteSet(Below(s)) /\ Cardinality(Below(s)) \in Nat /\ Cardinality(Below(s)) <= n
  <2>1. Below(s) \subseteq rows
    OBVIOUS
  <2> QED
    BY <1>1, <2>1, FS_Subset, FS_CardinalityType
<1>3. ASSUME NEW s \in rows PROVE n # 0 /\ 2 * n \in Nat \ {0}
  <2>1. rows # {}
    OBVIOUS
  <2> QED
    BY <1>1, <2>1, FS_EmptySet
<1>4. ASSUME NEW s \in rows PROVE Percentile(s, rows) = IF Share(s) < 1 THEN 1 ELSE Share(s)
  BY DEF Percentile
<1>5. ASSUME NEW s \in rows PROVE Share(s) \in Nat /\ Share(s) <= 100
  <2> PICK k : k = Cardinality(Below(s))
    OBVIOUS
  <2>1. 200 * k + n \in Nat /\ 201 * n \in Nat /\ 200 * k + n <= 201 * n
    BY <1>1, <1>2
  <2>2. (200 * k + n) \div (2 * n) \in Nat /\ (200 * k + n) \div (2 * n) <= (201 * n) \div (2 * n)
    BY <1>3, <2>1, Quotients
  <2>3. (201 * n) \div (2 * n) = 100
    <3>1. n \in Nat \ {0}
      BY <1>1, <1>3
    <3> QED
      BY ONLY <3>1
  <2> QED
    BY <2>2, <2>3
<1>6. ASSUME NEW s \in rows, NEW t \in rows, Rate[s] <= Rate[t] PROVE Share(s) <= Share(t)
  <2>1. Below(s) \subseteq Below(t)
    BY <1>6
  <2>2. Cardinality(Below(s)) <= Cardinality(Below(t))
    BY <1>2, <2>1, FS_Subset
  <2> HIDE DEF Below
  <2>3. 200 * Cardinality(Below(s)) + n \in Nat /\ 200 * Cardinality(Below(t)) + n \in Nat
        /\ 200 * Cardinality(Below(s)) + n <= 200 * Cardinality(Below(t)) + n
    BY <1>1, <1>2, <2>2
  <2> QED
    BY <1>3, <2>3, Quotients
<1> HIDE DEF Share
<1> QED
  BY <1>4, <1>5, <1>6

---------------------------------------------------------------------------
\* A search.

Orders == {"id", "rate_asc", "rate_desc", "distance"}

Kept(q, some) ==
    LET rows == Matches(q, some) IN {s \in rows : q.rated => Percentile(s, rows) \in q.floor..q.ceiling}

\* The first of what a query keeps, in its order.
Finds(found, q, some) ==
    /\ found \in Lists /\ Range(found) \subseteq Kept(q, some)
    /\ Len(found) < CandidateLimit => Kept(q, some) \subseteq Range(found)
    /\ Kept(q, some) # {} => found # <<>>
    /\ \A s \in Range(found), t \in Kept(q, some) \ Range(found) : OrderKey(q)[s] <= OrderKey(q)[t]

LEMMA CandidatesFound ==
    ASSUME NEW some \in SUBSET Ids, NEW q, q.theme \in Themes, q.order \in Orders, q.order = "distance" => q.at \in Int
    PROVE  Finds(FindCandidates(q, some), q, some)
<1> PICK kept : kept = Kept(q, some)
  OBVIOUS
<1> PICK key : key = OrderKey(q)
  OBVIOUS
<1>1. kept \in SUBSET Ids
  BY DEF Kept, Matches
<1>2. \A s \in Ids : key[s] \in Int
  <2> SUFFICES ASSUME NEW s \in Ids PROVE key[s] \in Int
    OBVIOUS
  <2>1. Rate[s] \in Int \cup {None} /\ Score[q.theme][s] \in Int /\ (Place[s] = None \/ Place[s] \in Int)
    BY SearchAssumption, SpotsAssumption
  <2>2. CASE q.order = "id"
    <3>1. key = [t \in Ids |-> -Score[q.theme][t]]
      BY <2>2 DEF OrderKey
    <3> QED
      BY <2>1, <3>1
  <2>3. CASE q.order = "rate_asc"
    <3>1. key = [t \in Ids |-> IF Rate[t] = None THEN 0 ELSE Rate[t]]
      BY <2>3 DEF OrderKey
    <3> QED
      BY <2>1, <3>1
  <2>4. CASE q.order = "rate_desc"
    <3>1. key = [t \in Ids |-> IF Rate[t] = None THEN 0 ELSE -Rate[t]]
      BY <2>4 DEF OrderKey
    <3> QED
      BY <2>1, <3>1
  <2>5. CASE q.order = "distance"
    <3>1. key = [t \in Ids |-> IF Place[t] = None THEN 0 ELSE Distance(t, q.at)]
      BY <2>5 DEF OrderKey
    <3>2. Place[s] # None => Distance(s, q.at) \in Int
      BY <2>1, <2>5 DEF Distance
    <3> QED
      BY <3>1, <3>2
  <2> QED
    BY <2>2, <2>3, <2>4, <2>5 DEF Orders
<1>3. CandidateLimit \in Nat /\ CandidateLimit > 0
  BY SearchAssumption
<1> PICK found : found = FindCandidates(q, some)
  OBVIOUS
<1>4. found = Take(Ordered(kept, key), CandidateLimit)
  BY DEF FindCandidates, Kept
<1>5. kept \in SUBSET Int /\ IsFiniteSet(kept) /\ \A s \in kept : key[s] \in Int
  BY <1>1, <1>2, IdsFinite
<1>6. found \in Lists /\ Range(found) \subseteq kept
  BY ONLY <1>1, <1>3, <1>4, <1>5, FirstRows
<1>7. /\ Len(found) < CandidateLimit => kept \subseteq Range(found)
      /\ kept # {} => found # <<>>
      /\ \A s \in Range(found), t \in kept \ Range(found) : key[s] <= key[t]
  BY ONLY <1>3, <1>4, <1>5, FirstComeFirst
<1> QED
  BY <1>6, <1>7 DEF Finds

\* What a query asks for, but for its order and its cut.
SameQuery(q, pool, theme, codes, scope, title, at, indoor, moods) ==
    /\ q.pool = pool /\ q.theme = theme /\ q.codes = codes /\ q.scope = scope /\ q.title = title
    /\ q.at = at /\ q.indoor = indoor /\ q.moods = moods

Meets(pool, codes, scope, title, indoor, moods, some) ==
    {s \in some \cap Photo :
        /\ InPool(pool, s)
        /\ codes = {} \/ Code[s].l3 \in codes
        /\ scope = {} \/ Within(Addr[s], scope)
        /\ title \subseteq Title[s]
        /\ indoor => Indoor(s)
        /\ moods = {} \/ Moods[s] \cap moods # {}}

\* A query as the tools make it, before it is searched with.
AskedFor(pool, theme, codes, scope, title, at, indoor, moods) ==
    [pool |-> pool, theme |-> theme, codes |-> codes, scope |-> scope, order |-> "id", rated |-> FALSE,
     ceiling |-> 100, floor |-> 0, at |-> at, indoor |-> indoor, moods |-> moods, title |-> title]

\* The quietest of the spots that are wanted.
Quiet(found, wanted) ==
    /\ wanted # {} => found # <<>>
    /\ \A s \in Range(found), t \in wanted \ Range(found) : Rate[s] <= Rate[t]

Answers(found, wanted, preference, near) ==
    /\ found \in Lists /\ Range(found) \subseteq wanted
    /\ preference = "any" /\ ~near /\ Len(found) < CandidateLimit => wanted \subseteq Range(found)
    /\ preference = "quiet" /\ ~near => Quiet(found, {s \in wanted : Rate[s] # None})

LEMMA SearchAnswers ==
    ASSUME NEW some \in SUBSET Ids, NEW preference \in Crowds, NEW near \in BOOLEAN,
           NEW pool, NEW theme \in Themes, NEW codes, NEW scope, NEW title, NEW at, near => at \in Int,
           NEW indoor, NEW moods, NEW q, q = AskedFor(pool, theme, codes, scope, title, at, indoor, moods)
    PROVE  Answers(SearchCandidates(q, preference, near, some),
                   Meets(pool, codes, scope, title, indoor, moods, some), preference, near)
<1> DEFINE Same(r) == SameQuery(r, pool, theme, codes, scope, title, at, indoor, moods)
<1> PICK order : order = CandidateOrder(preference, near)
  OBVIOUS
<1> PICK rated \in BOOLEAN : rated = (preference # "any")
  OBVIOUS
<1> PICK ceiling : ceiling = IF preference = "quiet" THEN KeepRatio ELSE 100
  OBVIOUS
<1> PICK floor : floor = IF preference = "popular" THEN 100 - KeepRatio ELSE 0
  OBVIOUS
<1> PICK base : base = [q EXCEPT !.order = order, !.rated = rated]
  OBVIOUS
<1> PICK within : within = [base EXCEPT !.ceiling = ceiling, !.floor = floor]
  OBVIOUS
<1>1. /\ order \in Orders /\ (order = "distance" => near)
      /\ preference = "any" /\ ~near => order = "id"
      /\ preference = "quiet" /\ ~near => order = "rate_asc"
  BY DEF CandidateOrder, Orders, Crowds
<1>2. /\ Same(base) /\ base.order = order /\ base.rated = rated /\ base.ceiling = 100 /\ base.floor = 0
      /\ Same(within) /\ within.order = order /\ within.rated = rated
      /\ within.ceiling = ceiling /\ within.floor = floor
  BY ONLY q = AskedFor(pool, theme, codes, scope, title, at, indoor, moods),
          base = [q EXCEPT !.order = order, !.rated = rated],
          within = [base EXCEPT !.ceiling = ceiling, !.floor = floor] DEF AskedFor, SameQuery
<1> PICK wanted : wanted = Meets(pool, codes, scope, title, indoor, moods, some)
  OBVIOUS
<1> PICK open1 : open1 = {s \in wanted : (order = "distance" => Place[s] # None) /\ (rated => Rate[s] # None)}
  OBVIOUS
<1>3. ASSUME NEW r, Same(r), r.order = order, r.rated = rated PROVE Matches(r, some) = open1
  BY <1>3 DEF SameQuery, Matches, Meets
<1>4. Matches(base, some) = open1 /\ Matches(within, some) = open1
  BY <1>2, <1>3
<1> PICK cut : cut = {s \in open1 : rated => Percentile(s, open1) \in floor..ceiling}
  OBVIOUS
<1>5. open1 \in SUBSET Ids /\ cut \subseteq open1 /\ open1 \subseteq wanted
  BY DEF Meets
<1>6. Kept(within, some) = cut
  BY <1>2, <1>4 DEF Kept
<1>7. Kept(base, some) = open1
  <2>1. CASE ~rated
    BY <1>2, <1>4, <2>1 DEF Kept
  <2>2. CASE rated
    <3>1. \A s \in open1 : Rate[s] \in Int
      BY <1>5, <2>2, SearchAssumption
    <3>2. \A s \in open1 : Percentile(s, open1) \in 0..100
      <4>1. open1 \in SUBSET Ids
        BY ONLY <1>5
      <4>2. \A s \in open1 : Percentile(s, open1) \in 1..100
        BY ONLY <3>1, <4>1, Percentiles
      <4> QED
        BY ONLY <4>2
    <3> QED
      BY <1>2, <1>4, <3>2 DEF Kept
  <2> QED
    BY <2>1, <2>2
<1> PICK first : first = FindCandidates(within, some)
  OBVIOUS
<1> PICK all : all = FindCandidates(base, some)
  OBVIOUS
<1>8. Finds(first, within, some) /\ Finds(all, base, some)
  <2>1. ASSUME NEW r, Same(r), r.order = order PROVE Finds(FindCandidates(r, some), r, some)
    <3>1. r.theme = theme /\ r.at = at
      BY <2>1 DEF SameQuery
    <3>2. r.theme \in Themes /\ r.order \in Orders /\ (r.order = "distance" => r.at \in Int)
      BY <1>1, <2>1, <3>1
    <3> QED
      BY ONLY <3>2, CandidatesFound, some \in SUBSET Ids
  <2>2. Same(base) /\ base.order = order /\ Same(within) /\ within.order = order
    BY ONLY <1>2
  <2> HIDE DEF Same
  <2> QED
    BY ONLY <2>1, <2>2, first = FindCandidates(within, some), all = FindCandidates(base, some)
<1>9. SearchCandidates(q, preference, near, some) = IF preference = "any" THEN all ELSE IF first # <<>> THEN first ELSE all
  BY ONLY order = CandidateOrder(preference, near), rated = (preference # "any"),
          ceiling = IF preference = "quiet" THEN KeepRatio ELSE 100,
          floor = IF preference = "popular" THEN 100 - KeepRatio ELSE 0,
          base = [q EXCEPT !.order = order, !.rated = rated],
          within = [base EXCEPT !.ceiling = ceiling, !.floor = floor],
          first = FindCandidates(within, some), all = FindCandidates(base, some) DEF SearchCandidates
<1>10. Answers(all, wanted, "any", near) \/ preference # "any"
  <2> SUFFICES ASSUME preference = "any" PROVE Answers(all, wanted, "any", near)
    OBVIOUS
  <2>1. ~near => open1 = wanted
    BY <1>1, <1>5
  <2> QED
    BY <1>5, <1>7, <1>8, <2>1 DEF Answers, Finds
<1>11. all \in Lists /\ Range(all) \subseteq wanted /\ first \in Lists /\ Range(first) \subseteq wanted
  BY <1>5, <1>6, <1>7, <1>8 DEF Finds
<1>12. ASSUME preference = "quiet", ~near, NEW found, found = IF first # <<>> THEN first ELSE all
       PROVE  Quiet(found, {s \in wanted : Rate[s] # None})
  <2>1. open1 = {s \in wanted : Rate[s] # None} /\ order = "rate_asc" /\ rated
    BY <1>1, <1>12
  <2>2. \A s \in open1 : Rate[s] \in Int
    BY <1>5, <2>1, SearchAssumption
  <2>3. ASSUME NEW r, r.order = "rate_asc", NEW s \in open1 PROVE OrderKey(r)[s] = Rate[s]
    BY <1>5, <2>1, <2>3 DEF OrderKey
  <2>4. \A s \in open1 : OrderKey(base)[s] = Rate[s] /\ OrderKey(within)[s] = Rate[s]
    <3>1. base.order = "rate_asc" /\ within.order = "rate_asc"
      BY <1>2, <2>1
    <3> QED
      BY ONLY <2>3, <3>1
  <2>5. CASE first # <<>>
    <3>1. ASSUME NEW s \in Range(first), NEW t \in open1 \ Range(first) PROVE Rate[s] <= Rate[t]
      <4>1. s \in cut /\ s \in open1
        <5>1. Range(first) \subseteq Kept(within, some)
          BY ONLY <1>8 DEF Finds
        <5> QED
          BY ONLY <1>5, <1>6, <5>1, s \in Range(first)
      <4>2. CASE t \in cut
        <5>1. s \in Range(first) /\ t \in Kept(within, some) \ Range(first)
          BY ONLY <1>6, <3>1, <4>2
        <5>2. OrderKey(within)[s] <= OrderKey(within)[t]
          BY ONLY <1>8, <5>1 DEF Finds
        <5>3. OrderKey(within)[s] = Rate[s] /\ OrderKey(within)[t] = Rate[t]
          BY ONLY <2>4, <3>1, <4>1
        <5> QED
          BY ONLY <5>2, <5>3
      <4>3. CASE t \notin cut
        <5>1. Percentile(s, open1) \in floor..ceiling /\ ~(Percentile(t, open1) \in floor..ceiling)
          BY <2>1, <4>1, <4>3
        <5>2. floor = 0 /\ ceiling = KeepRatio /\ KeepRatio \in Int
          <6>1. preference = "quiet"
            BY <1>12
          <6>2. KeepRatio \in 1..99
            BY ONLY SearchAssumption DEF SearchAssumption
          <6> QED
            BY ONLY <6>1, <6>2, ceiling = IF preference = "quiet" THEN KeepRatio ELSE 100,
                    floor = IF preference = "popular" THEN 100 - KeepRatio ELSE 0
        <5>3. Percentile(t, open1) \in 1..100 /\ Percentile(s, open1) \in 1..100
          BY <1>5, <2>2, <4>1, Percentiles
        <5>4. Rate[t] <= Rate[s] => Percentile(t, open1) <= Percentile(s, open1)
          BY <1>5, <2>2, <4>1, Percentiles
        <5>5. ~(Rate[t] <= Rate[s])
          BY ONLY <5>1, <5>2, <5>3, <5>4
        <5> QED
          BY <2>2, <4>1, <5>5
      <4> QED
        BY <4>2, <4>3
    <3>2. found = first
      BY ONLY <1>12, <2>5
    <3>3. Quiet(first, open1)
      BY ONLY <2>5, <3>1 DEF Quiet
    <3> QED
      BY ONLY <2>1, <3>2, <3>3
  <2>6. CASE first = <<>>
    <3>1. ASSUME NEW s \in Range(all), NEW t \in open1 \ Range(all) PROVE Rate[s] <= Rate[t]
      <4>1. s \in open1 /\ t \in Kept(base, some) \ Range(all)
        BY ONLY <1>7, <1>8, <3>1 DEF Finds
      <4>2. OrderKey(base)[s] <= OrderKey(base)[t]
        BY ONLY <1>8, <3>1, <4>1 DEF Finds
      <4>3. OrderKey(base)[s] = Rate[s] /\ OrderKey(base)[t] = Rate[t]
        BY ONLY <2>4, <3>1, <4>1
      <4> QED
        BY ONLY <4>2, <4>3
    <3>2. open1 # {} => all # <<>>
      BY ONLY <1>7, <1>8 DEF Finds
    <3>3. found = all
      BY ONLY <1>12, <2>6
    <3>4. Quiet(all, open1)
      BY ONLY <3>1, <3>2 DEF Quiet
    <3> QED
      BY ONLY <2>1, <3>3, <3>4
  <2> QED
    BY <2>5, <2>6
<1> QED
  <2> HIDE DEF Same
  <2> QED
    BY <1>9, <1>10, <1>11, <1>12 DEF Answers

---------------------------------------------------------------------------
\* The regions of a search.

WordForWord(p, t) == Len(p) <= Len(t) /\ \A i \in 1..Len(p) : p[i] = t[i]

LEMMA PrefixWords ==
    ASSUME NEW X, NEW p \in Seq(X), NEW t \in Seq(X)
    PROVE  (IsPrefix(p, t) => WordForWord(p, t)) /\ (WordForWord(p, t) => IsPrefix(p, t))
<1>1. Len(p) \in Nat /\ Len(t) \in Nat
  BY LenProperties
<1>2. /\ SubSeq(p, 1, Len(p)) = [i \in 1..Len(p) |-> p[i]]
      /\ SubSeq(t, 1, Len(p)) = [i \in 1..Len(p) |-> t[i]]
  BY <1>1
<1>3. ASSUME IsPrefix(p, t) PROVE WordForWord(p, t)
  <2>1. [i \in 1..Len(p) |-> p[i]] = [i \in 1..Len(p) |-> t[i]] /\ Len(p) <= Len(t)
    BY <1>2, <1>3 DEF IsPrefix
  <2>2. \A i \in 1..Len(p) : [j \in 1..Len(p) |-> p[j]][i] = [j \in 1..Len(p) |-> t[j]][i]
    BY ONLY <2>1
  <2> QED
    BY ONLY <2>1, <2>2 DEF WordForWord
<1>4. ASSUME WordForWord(p, t) PROVE IsPrefix(p, t)
  <2>1. [i \in 1..Len(p) |-> p[i]] = [i \in 1..Len(p) |-> t[i]] /\ Len(p) <= Len(t)
    BY ONLY <1>4 DEF WordForWord
  <2> QED
    BY <1>2, <2>1 DEF IsPrefix
<1> QED
  BY <1>3, <1>4

\* A beginning with the first word changed.
LEMMA Renamed ==
    ASSUME NEW p \in Seq(STRING), p # <<>>, NEW t \in Seq(STRING), t # <<>>, NEW m
    PROVE  IsPrefix(<<m>> \o Tail(p), t) <=> t[1] = m /\ IsPrefix(Tail(p), Tail(t))
<1> PICK X : X = STRING \cup {m}
  OBVIOUS
<1> PICK r : r = Tail(p)
  OBVIOUS
<1> PICK u : u = Tail(t)
  OBVIOUS
<1> PICK q : q = <<m>> \o r
  OBVIOUS
<1>1. /\ r \in Seq(STRING) /\ u \in Seq(STRING) /\ Len(r) \in Nat /\ Len(t) \in Nat
      /\ Len(u) = Len(t) - 1 /\ Len(t) > 0 /\ \A i \in 1..Len(u) : u[i] = t[i + 1]
  BY HeadTailProperties, LenProperties, EmptySeq
<1>2. r \in Seq(X) /\ t \in Seq(X) /\ <<m>> \in Seq(X) /\ Len(<<m>>) = 1
  BY <1>1, SeqMonotonic
<1>3. q \in Seq(X) /\ Len(q) = Len(r) + 1 /\ q[1] = m /\ \A i \in 1..Len(r) : q[i + 1] = r[i]
  <2>1. q \in Seq(X) /\ Len(q) = 1 + Len(r)
        /\ \A i \in 1..Len(q) : q[i] = IF i <= 1 THEN <<m>>[i] ELSE r[i - 1]
    BY <1>2, ConcatProperties
  <2>2. \A i \in 1..Len(r) : i + 1 \in 1..Len(q) /\ ~(i + 1 <= 1) /\ (i + 1) - 1 = i
    BY <1>1, <2>1
  <2> QED
    BY <1>1, <2>1, <2>2
<1>4. IsPrefix(q, t) <=> Len(q) <= Len(t) /\ \A i \in 1..Len(q) : q[i] = t[i]
  <2>1. (IsPrefix(q, t) => WordForWord(q, t)) /\ (WordForWord(q, t) => IsPrefix(q, t))
    <3>1. q \in Seq(X) /\ t \in Seq(X)
      BY ONLY <1>2, <1>3
    <3> QED
      BY <3>1, PrefixWords
  <2> QED
    BY <2>1 DEF WordForWord
<1>5. IsPrefix(r, u) <=> Len(r) <= Len(u) /\ \A i \in 1..Len(r) : r[i] = u[i]
  <2>1. (IsPrefix(r, u) => WordForWord(r, u)) /\ (WordForWord(r, u) => IsPrefix(r, u))
    <3>1. r \in Seq(STRING) /\ u \in Seq(STRING)
      BY ONLY <1>1
    <3> QED
      BY <3>1, PrefixWords
  <2> QED
    BY <2>1 DEF WordForWord
<1>6. ASSUME IsPrefix(q, t) PROVE t[1] = m /\ IsPrefix(r, u)
  <2>1. Len(r) <= Len(u) /\ t[1] = m
    BY <1>1, <1>3, <1>4, <1>6
  <2>2. ASSUME NEW i \in 1..Len(r) PROVE r[i] = u[i]
    <3>1. i + 1 \in 1..Len(q) /\ i \in 1..Len(u)
      BY <1>1, <1>3, <2>1
    <3> QED
      BY <1>1, <1>3, <1>4, <1>6, <3>1
  <2> QED
    BY <1>5, <2>1, <2>2
<1>7. ASSUME t[1] = m, IsPrefix(r, u) PROVE IsPrefix(q, t)
  <2>1. Len(q) <= Len(t)
    BY <1>1, <1>3, <1>5, <1>7
  <2>2. ASSUME NEW i \in 1..Len(q) PROVE q[i] = t[i]
    <3>1. CASE i = 1
      BY <1>3, <1>7, <3>1
    <3>2. CASE i # 1
      <4> PICK k : k = i - 1
        OBVIOUS
      <4>1. k \in 1..Len(r) /\ k \in 1..Len(u) /\ k + 1 = i
        BY <1>1, <1>3, <2>1, <3>2
      <4> QED
        BY ONLY <1>1, <1>3, <1>5, <1>7, <4>1
    <3> QED
      BY <3>1, <3>2
  <2> QED
    BY <1>4, <2>1, <2>2
<1> QED
  BY <1>6, <1>7

LEMMA PickedTyped == ASSUME NEW token PROVE Picked(token) = NoRegion \/ Picked(token) \in Seq(STRING) \ {<<>>}
<1> PICK rows : rows = IF token \in Tokens THEN Named[token] ELSE {}
  OBVIOUS
<1> PICK sidos : sidos = {row \in rows : Len(row) = 1}
  OBVIOUS
<1>1. rows \subseteq Seq(STRING) \ {<<>>}
  BY RegionAssumption
<1> PICK one : one = CHOOSE row \in rows : TRUE
  OBVIOUS
<1> PICK sido : sido = CHOOSE row \in sidos : TRUE
  OBVIOUS
<1>2. Picked(token) = IF sidos # {} THEN IF Cardinality(sidos) = 1 THEN sido ELSE NoRegion
                      ELSE IF rows = {} THEN NoRegion
                      ELSE IF Cardinality(rows) = 1 THEN one ELSE Districts(rows)
  BY DEF Picked
<1>3. sidos # {} => sido \in rows
  BY DEF Picked
<1>4. rows # {} => one \in rows
  OBVIOUS
<1>5. ASSUME rows # {} PROVE Districts(rows) = NoRegion \/ Districts(rows) \in Seq(STRING) \ {<<>>}
  <2> PICK shared : shared = SubSeq(one, 1, 2)
    OBVIOUS
  <2>1. Districts(rows) = IF \A row \in rows : Len(row) = 3 /\ SubSeq(row, 1, 2) = shared THEN shared ELSE NoRegion
    BY DEF Districts
  <2>2. ASSUME Len(one) = 3 PROVE shared \in Seq(STRING) \ {<<>>}
    <3>1. one \in Seq(STRING)
      BY <1>1, <1>4, <1>5
    <3>2. shared \in Seq(STRING) /\ Len(shared) = 2
      BY <2>2, <3>1, SubSeqProperties
    <3>3. shared # <<>>
      <4>1. Len(<<>>) = 0
        OBVIOUS
      <4>2. 2 # 0
        OBVIOUS
      <4> QED
        BY ONLY <3>2, <4>1, <4>2
    <3> QED
      BY <3>2, <3>3
  <2> QED
    BY <1>4, <1>5, <2>1, <2>2
<1> QED
  BY <1>1, <1>2, <1>3, <1>4, <1>5

LEMMA ResolvedTyped == ASSUME NEW hints PROVE Resolved(hints) \subseteq Seq(STRING) \ {<<>>}
BY PickedTyped DEF Resolved

\* A scope holds the spots that lie where the hints say.
LEMMA ScopeNames ==
    ASSUME NEW hints, NEW s \in Ids
    PROVE  Within(Addr[s], Scope(hints)) <=> InNamed(s, hints)
<1>1. Addr[s] = NoRegion \/ Addr[s] \in Seq(STRING) \ {<<>>}
  BY SearchAssumption
<1>2. CASE Addr[s] = NoRegion
  BY <1>2 DEF Within, InNamed, Lies
<1>3. CASE Addr[s] # NoRegion
  <2> PICK addr \in Seq(STRING) \ {<<>>} : addr = Addr[s]
    BY <1>1, <1>3
  <2>1. ASSUME NEW p \in Resolved(hints)
        PROVE  Lies(s, p) <=> \E q \in Spellings(p) : IsPrefix(q, addr)
    <3>1. p \in Seq(STRING) /\ p # <<>>
      BY ResolvedTyped
    <3> PICK m : m = Merged[p[1]]
      OBVIOUS
    <3> PICK other : other = <<m>> \o Tail(p)
      OBVIOUS
    <3>2. IsPrefix(other, addr) <=> addr[1] = m /\ IsPrefix(Tail(p), Tail(addr))
      BY <3>1, Renamed
    <3>3. Lies(s, p) <=> IsPrefix(p, addr) \/ (m # NoRegion /\ addr[1] = m /\ IsPrefix(Tail(p), Tail(addr)))
      BY <1>3 DEF Lies
    <3>4. Spellings(p) = {p} \cup (IF m = NoRegion THEN {} ELSE {other})
      BY DEF Spellings
    <3> QED
      BY ONLY <3>2, <3>3, <3>4
  <2> PICK kept : kept = {p \in Resolved(hints) : ~\E q \in Resolved(hints) : Covers(p, q)}
    OBVIOUS
  <2>2. InNamed(s, hints) <=> \E p \in kept : Lies(s, p)
    BY DEF InNamed
  <2>3. Within(addr, Scope(hints)) <=> \E p \in kept : \E q \in Spellings(p) : IsPrefix(q, addr)
    <3>1. Scope(hints) = UNION {Spellings(p) : p \in kept}
      BY DEF Scope
    <3> QED
      BY <1>3, <3>1 DEF Within
  <2> QED
    BY <2>1, <2>2, <2>3
<1> QED
  BY <1>2, <1>3

---------------------------------------------------------------------------
\* What category_search gives.

\* The spots a search looks among, and what it finds of them.
Wanted(call, pool, codes, some) ==
    Meets(pool, codes, Scope(HintsOf(call)), {}, call.indoor, call.moods, some)

SearchGives(call, step, some, near) ==
    \/ step.rows = <<>> /\ (Unread(call) \/ (step.stop /\ (call.words # <<>> \/ call.crowd = "any")))
    \/ /\ ~Unread(call) /\ ~step.late /\ ~step.stop
       /\ \E kind \in {"food", "cafe"} :
             Meant(kind, call.words) /\ Answers(step.rows, Wanted(call, kind, {}, some), call.crowd, near)
    \/ /\ ~Unread(call) /\ ~step.late /\ ~step.stop
       /\ ~\E kind \in {"food", "cafe"} : Meant(kind, call.words)
       /\ Answers(step.rows, Wanted(call, "travel", ResolveCodes(call.words), some), call.crowd, near)

LEMMA Eaten ==
    ASSUME NEW words, WordList(words), Range(words) \subseteq DOMAIN Codes,
           NEW eating, eating = IF FoodAction(ResolveCodes(words)) # None THEN FoodAction(ResolveCodes(words)) ELSE FoodWord(words)
    PROVE  /\ eating # None => eating \in {"food", "cafe"} /\ Meant(eating, words)
           /\ eating = None => ~\E kind \in {"food", "cafe"} : Meant(kind, words)
<1> PICK codes : codes = ResolveCodes(words)
  OBVIOUS
<1> PICK action : action = FoodAction(codes)
  OBVIOUS
<1> PICK told : told = {Eats[words[i]] : i \in DOMAIN words}
  OBVIOUS
<1>1. action \in {"food", "cafe", None}
  BY DEF FoodAction
<1>2. DOMAIN words = 1..Len(words) /\ Len(words) \in Nat /\ (words = <<>> <=> Len(words) = 0)
  BY LenProperties, EmptySeq DEF WordList
<1>3. \A i \in DOMAIN words : words[i] \in Range(words) /\ words[i] \in DOMAIN Eats /\ Eats[words[i]] \in {"food", "cafe", None}
  BY SearchAssumption DEF Range
<1>4. told \subseteq {"food", "cafe", None}
  BY <1>3
<1>5. ASSUME NEW kind PROVE told = {kind} <=> words # <<>> /\ \A word \in Range(words) : Eats[word] = kind
  <2>1. told = {kind} <=> DOMAIN words # {} /\ \A i \in DOMAIN words : Eats[words[i]] = kind
    OBVIOUS
  <2>2. DOMAIN words # {} <=> words # <<>>
    BY <1>2
  <2>3. (\A i \in DOMAIN words : Eats[words[i]] = kind) <=> \A word \in Range(words) : Eats[word] = kind
    BY DEF Range
  <2> QED
    BY ONLY <2>1, <2>2, <2>3
<1>6. (\E kind : told = {kind}) => told = {FoodWord(words)}
  <2> SUFFICES ASSUME NEW kind, told = {kind} PROVE told = {FoodWord(words)}
    OBVIOUS
  <2>1. Cardinality(told) = 1
    BY FS_Singleton
  <2>2. (CHOOSE one \in told : TRUE) = kind
    OBVIOUS
  <2> QED
    BY <2>1, <2>2 DEF FoodWord
<1>7. (~\E kind : told = {kind}) => FoodWord(words) = None
  <2> SUFFICES ASSUME ~\E kind : told = {kind} PROVE FoodWord(words) = None
    OBVIOUS
  <2>1. IsFiniteSet(told)
    <3>1. IsFiniteSet({"food", "cafe", None})
      <4>1. IsFiniteSet({"food"}) /\ IsFiniteSet({"cafe"}) /\ IsFiniteSet({None})
        BY FS_Singleton
      <4>2. {"food", "cafe", None} = ({"food"} \cup {"cafe"}) \cup {None}
        OBVIOUS
      <4>3. IsFiniteSet({"food"} \cup {"cafe"})
        BY ONLY <4>1, FS_Union
      <4> PICK meals : meals = {"food"} \cup {"cafe"}
        OBVIOUS
      <4> PICK none : none = {None}
        OBVIOUS
      <4>4. IsFiniteSet(meals) /\ IsFiniteSet(none)
        BY ONLY <4>1, <4>3, meals = {"food"} \cup {"cafe"}, none = {None}
      <4>5. IsFiniteSet(meals \cup none)
        BY ONLY <4>4, FS_Union
      <4>6. {"food", "cafe", None} = meals \cup none
        BY ONLY <4>2, meals = {"food"} \cup {"cafe"}, none = {None}
      <4> QED
        BY ONLY <4>5, <4>6
    <3> QED
      BY <1>4, <3>1, FS_Subset
  <2>2. Cardinality(told) # 1
    BY <2>1, FS_Singleton
  <2> QED
    BY <2>2 DEF FoodWord
<1>8. None # "food" /\ None # "cafe"
  BY ToolsAssumption
<1>9. \A kind : Meant(kind, words) <=> told = {kind} \/ action = kind
  BY <1>5 DEF Meant
<1>10. CASE action # None
  BY <1>1, <1>9, <1>10
<1>11. CASE action = None
  <2>1. eating = FoodWord(words)
    BY <1>11
  <2>2. CASE \E kind : told = {kind}
    <3>1. told = {eating}
      BY <1>6, <2>1, <2>2
    <3> QED
      BY ONLY <1>4, <1>8, <1>9, <1>11, <3>1
  <2>3. CASE ~\E kind : told = {kind}
    <3>1. eating = None
      BY <1>7, <2>1, <2>3
    <3> QED
      BY ONLY <1>8, <1>9, <1>11, <2>3, <3>1
  <2> QED
    BY <2>2, <2>3
<1> QED
  BY <1>10, <1>11

LEMMA Uneaten == ASSUME NEW kind \in {"food", "cafe"} PROVE ~Meant(kind, <<>>) /\ ResolveCodes(<<>>) = {}
<1>1. ResolveCodes(<<>>) = {}
  BY DEF ResolveCodes
<1>2. FoodAction({}) = None
  BY DEF FoodAction
<1>3. None # kind
  BY ToolsAssumption
<1> QED
  BY <1>1, <1>2, <1>3 DEF Meant

LEMMA CategorySearches ==
    ASSUME NEW call, Plain(call), call.name = "category_search",
           NEW ctx, ctx.shown \subseteq Ids, ctx.at \in Int \cup {None}, NEW step, step = CategorySearch(call, ctx)
    PROVE  SearchGives(call, step, ctx.shown, IsPlace(call, ctx))
<1> PICK some : some = ctx.shown
  OBVIOUS
<1> PICK scope : scope = Scope(HintsOf(call))
  OBVIOUS
<1> PICK codes : codes = ResolveCodes(call.words)
  OBVIOUS
<1> PICK eating : eating = IF FoodAction(codes) # None THEN FoodAction(codes) ELSE FoodWord(call.words)
  OBVIOUS
<1> PICK near \in BOOLEAN : near = IsPlace(call, ctx)
  BY DEF IsPlace, Plain
<1> PICK readable \in BOOLEAN : readable = (call.moods # {} \/ eating # None \/ \E code \in codes : InTravelPoolCode(code))
  OBVIOUS
<1> PICK q : q = [Query EXCEPT !.scope = scope, !.at = ctx.at, !.indoor = call.indoor, !.moods = call.moods]
  OBVIOUS
<1> PICK coded : coded = [q EXCEPT !.codes = codes]
  OBVIOUS
<1>1. step = IF Unread(call) THEN Nothing
             ELSE IF call.words # <<>> /\ ~readable THEN Stopped("unreadable")
             ELSE IF ~(readable \/ scope # {} \/ near \/ call.indoor \/ call.crowd # "any") THEN Stopped("no axis")
             ELSE IF eating # None /\ scope = {} /\ ~near THEN Stopped("food needs place")
             ELSE IF eating # None THEN Result(SearchFood(q, eating, call.crowd, near, some))
             ELSE Result(SearchCandidates(coded, call.crowd, near, some))
  BY DEF CategorySearch
<1>2. /\ eating # None => eating \in {"food", "cafe"} /\ Meant(eating, call.words)
      /\ eating = None => ~\E kind \in {"food", "cafe"} : Meant(kind, call.words)
  <2>1. WordList(call.words) /\ Range(call.words) \subseteq DOMAIN Codes
    BY DEF Plain, Searches
  <2> QED
    BY <2>1, Eaten
<1>3. /\ some \in SUBSET Ids /\ call.crowd \in Crowds /\ (near => ctx.at \in Int)
  BY DEF Plain, IsPlace
<1>4. CASE Unread(call)
  <2>1. step = Nothing
    BY ONLY <1>1, <1>4
  <2>2. step.rows = <<>>
    BY ONLY <2>1, Rowless
  <2> QED
    BY ONLY <1>4, <2>2 DEF SearchGives
<1>5. CASE ~Unread(call) /\ call.words # <<>> /\ ~readable
  <2>1. step = Stopped("unreadable")
    BY ONLY <1>1, <1>5
  <2>2. step.rows = <<>> /\ step.stop
    BY ONLY <2>1, Rowless
  <2> QED
    BY ONLY <1>5, <2>2 DEF SearchGives
<1>6. CASE ~Unread(call) /\ ~(call.words # <<>> /\ ~readable)
           /\ ~(readable \/ scope # {} \/ near \/ call.indoor \/ call.crowd # "any")
  <2>1. step = Stopped("no axis")
    BY ONLY <1>1, <1>6
  <2>2. call.crowd = "any"
    BY ONLY <1>6
  <2>3. step.rows = <<>> /\ step.stop
    BY ONLY <2>1, Rowless
  <2> QED
    BY ONLY <2>2, <2>3 DEF SearchGives
<1>7. CASE /\ ~Unread(call) /\ ~(call.words # <<>> /\ ~readable)
           /\ readable \/ scope # {} \/ near \/ call.indoor \/ call.crowd # "any"
  <2>1. step = IF eating # None /\ scope = {} /\ ~near THEN Stopped("food needs place")
               ELSE IF eating # None THEN Result(SearchFood(q, eating, call.crowd, near, some))
               ELSE Result(SearchCandidates(coded, call.crowd, near, some))
    BY ONLY <1>1, <1>7
  <2>2. CASE eating # None /\ scope = {} /\ ~near
    <3>1. step = Stopped("food needs place")
      BY ONLY <2>1, <2>2
    <3>2. call.words # <<>>
      BY <1>2, <2>2, Uneaten
    <3>3. step.rows = <<>> /\ step.stop
      BY ONLY <3>1, Rowless
    <3> QED
      BY ONLY <3>2, <3>3 DEF SearchGives
  <2>3. CASE eating # None /\ ~(scope = {} /\ ~near)
    <3>1. step = Result(SearchFood(q, eating, call.crowd, near, some))
      BY ONLY <2>1, <2>3
    <3> PICK food : food = [q EXCEPT !.pool = eating, !.theme = eating, !.codes = {}]
      OBVIOUS
    <3>2. SearchFood(q, eating, call.crowd, near, some) = SearchCandidates(food, call.crowd, near, some)
      <4>1. (IF eating = "cafe" THEN "cafe" ELSE "food") = eating
        BY <1>2, <2>3
      <4> QED
        BY <4>1 DEF SearchFood
    <3>3. food = AskedFor(eating, eating, {}, scope, {}, ctx.at, call.indoor, call.moods)
      BY ONLY q = [Query EXCEPT !.scope = scope, !.at = ctx.at, !.indoor = call.indoor, !.moods = call.moods],
              food = [q EXCEPT !.pool = eating, !.theme = eating, !.codes = {}] DEF Query, AskedFor
    <3>4. Answers(SearchCandidates(food, call.crowd, near, some),
                  Meets(eating, {}, scope, {}, call.indoor, call.moods, some), call.crowd, near)
      <4>1. eating \in Themes
        BY <1>2, <2>3 DEF Themes
      <4> QED
        BY ONLY <1>3, <3>3, <4>1, near \in BOOLEAN, SearchAnswers
    <3>5. Answers(step.rows, Wanted(call, eating, {}, some), call.crowd, near)
      BY <3>1, <3>2, <3>4, Rowless DEF Wanted
    <3>6. ~step.late /\ ~step.stop
      BY <3>1, Rowless
    <3> QED
      BY <1>2, <1>7, <2>3, <3>5, <3>6 DEF SearchGives
  <2>4. CASE eating = None
    <3>1. step = Result(SearchCandidates(coded, call.crowd, near, some))
      BY ONLY <2>1, <2>4
    <3>3. coded = AskedFor("travel", "spot", codes, scope, {}, ctx.at, call.indoor, call.moods)
      BY ONLY q = [Query EXCEPT !.scope = scope, !.at = ctx.at, !.indoor = call.indoor, !.moods = call.moods],
              coded = [q EXCEPT !.codes = codes] DEF Query, AskedFor
    <3>4. Answers(SearchCandidates(coded, call.crowd, near, some),
                  Meets("travel", codes, scope, {}, call.indoor, call.moods, some), call.crowd, near)
      <4>1. "spot" \in Themes
        BY DEF Themes
      <4> QED
        BY ONLY <1>3, <3>3, <4>1, near \in BOOLEAN, SearchAnswers
    <3>5. Answers(step.rows, Wanted(call, "travel", codes, some), call.crowd, near)
      BY <3>1, <3>4, Rowless DEF Wanted
    <3>6. ~step.late /\ ~step.stop
      BY <3>1, Rowless
    <3> QED
      BY <1>2, <1>7, <2>4, <3>5, <3>6 DEF SearchGives
  <2> QED
    BY <2>2, <2>3, <2>4
<1> QED
  BY <1>4, <1>5, <1>6, <1>7

\* The spots of a search are of the kind that was asked for.
LEMMA SearchOfKind ==
    ASSUME NEW call, Plain(call), NEW step, NEW some \in SUBSET Ids, NEW near,
           call.name = "category_search" => SearchGives(call, step, some, near)
    PROVE  OfKind(call, step)
<1> SUFFICES ASSUME call.name = "category_search", NEW s \in Range(step.rows)
             PROVE  /\ call.indoor => Indoor(s)
                    /\ call.moods # {} => Moods[s] \cap call.moods # {}
                    /\ \/ InTravelPool(s) /\ (ResolveCodes(call.words) # {} => Code[s].l3 \in ResolveCodes(call.words))
                       \/ \E kind \in {"food", "cafe"} : Meant(kind, call.words) /\ In(kind, s)
  BY DEF OfKind
<1> PICK codes : codes = ResolveCodes(call.words)
  OBVIOUS
<1>1. SearchGives(call, step, some, near) /\ step.rows # <<>>
  BY Rowless
<1>2. CASE \E kind \in {"food", "cafe"} :
               Meant(kind, call.words) /\ Answers(step.rows, Wanted(call, kind, {}, some), call.crowd, near)
  <2> PICK kind \in {"food", "cafe"} :
               Meant(kind, call.words) /\ Answers(step.rows, Wanted(call, kind, {}, some), call.crowd, near)
    BY <1>2
  <2>1. s \in Wanted(call, kind, {}, some)
    BY DEF Answers
  <2> QED
    BY <2>1 DEF Wanted, Meets, InPool
<1>3. CASE Answers(step.rows, Wanted(call, "travel", codes, some), call.crowd, near)
  <2>1. s \in Wanted(call, "travel", codes, some)
    BY <1>3 DEF Answers
  <2> QED
    BY <2>1 DEF Wanted, Meets, InPool
<1> QED
  BY ONLY <1>1, <1>2, <1>3, codes = ResolveCodes(call.words) DEF SearchGives

\* Hints that are given and can be read name a region.
LEMMA Scoped ==
    ASSUME NEW call, Plain(call), ~Unread(call)
    PROVE  call.hints # <<>> <=> Scope(HintsOf(call)) # {}
<1>1. HintsOf(call) # <<>> <=> call.hints # <<>>
  <2> PICK hints : hints = call.hints
    OBVIOUS
  <2> PICK X : hints \in Seq(X)
    BY DEF Plain, WordList
  <2>1. MaxRegionHints \in Nat \ {0}
    BY ONLY ToolsAssumption DEF ToolsAssumption
  <2>2. Len(hints) \in Nat /\ (hints = <<>> <=> Len(hints) = 0)
    BY EmptySeq, LenProperties
  <2>3. Take(hints, MaxRegionHints) = <<>> <=> hints = <<>>
    <3> PICK n \in Nat : n = IF Len(hints) < MaxRegionHints THEN Len(hints) ELSE MaxRegionHints
      BY <2>1, <2>2
    <3>1. Take(hints, MaxRegionHints) = SubSeq(hints, 1, n)
      BY <2>1, <2>2 DEF Take
    <3>2. Len(SubSeq(hints, 1, n)) = n /\ SubSeq(hints, 1, n) \in Seq(X)
      BY <2>1, <2>2
    <3>3. SubSeq(hints, 1, n) = <<>> <=> n = 0
      BY <3>2, EmptySeq
    <3>4. n = 0 <=> hints = <<>>
      BY <2>1, <2>2
    <3> QED
      BY ONLY <3>1, <3>3, <3>4
  <2> QED
    BY <2>3 DEF HintsOf
<1>2. ASSUME call.hints = <<>> PROVE Scope(HintsOf(call)) = {}
  <2>1. HintsOf(call) = <<>>
    BY <1>1, <1>2
  <2>2. Resolved(<<>>) = {}
    BY DEF Resolved
  <2> QED
    BY <2>1, <2>2 DEF Scope
<1> QED
  BY <1>1, <1>2 DEF Unread

LEMMA SearchInRegion ==
    ASSUME NEW call, Plain(call), ~Unread(call), NEW s \in Ids
    PROVE  Scope(HintsOf(call)) = {} \/ Within(Addr[s], Scope(HintsOf(call)))
           <=> call.hints = <<>> \/ InNamed(s, HintsOf(call))
BY Scoped, ScopeNames

LEMMA SearchQuietest ==
    ASSUME NEW call, Plain(call), NEW step, NEW some \in SUBSET Ids, NEW near,
           call.name = "category_search" => SearchGives(call, step, some, near)
    PROVE  Quietest(call, step, some, near)
<1> SUFFICES ASSUME call.name = "category_search", call.crowd = "quiet", call.words = <<>>, ~Unread(call), ~near
             PROVE  /\ Fits(call, some) # {} => step.rows # <<>>
                    /\ \A s \in Range(step.rows), t \in Fits(call, some) \ Range(step.rows) : Rate[s] <= Rate[t]
  BY DEF Quietest
<1> PICK wanted : wanted = Wanted(call, "travel", {}, some)
  OBVIOUS
<1>1. Answers(step.rows, wanted, "quiet", near)
  <2>1. ResolveCodes(call.words) = {} /\ ~\E kind \in {"food", "cafe"} : Meant(kind, call.words)
    BY Uneaten
  <2>2. SearchGives(call, step, some, near)
    OBVIOUS
  <2> QED
    BY <2>1, <2>2 DEF SearchGives
<1>2. Fits(call, some) = {s \in wanted : Rate[s] # None}
  <2>1. \A s \in some : Scope(HintsOf(call)) = {} \/ Within(Addr[s], Scope(HintsOf(call)))
                        <=> call.hints = <<>> \/ InNamed(s, HintsOf(call))
    BY SearchInRegion
  <2>2. \A s \in some : s \in wanted <=>
            /\ s \in Photo /\ InTravelPool(s)
            /\ Scope(HintsOf(call)) = {} \/ Within(Addr[s], Scope(HintsOf(call)))
            /\ call.indoor => Indoor(s)
            /\ call.moods = {} \/ Moods[s] \cap call.moods # {}
    BY DEF Wanted, Meets, InPool
  <2>3. wanted \subseteq some /\ Fits(call, some) \subseteq some
    BY DEF Wanted, Meets, Fits
  <2>4. \A s \in some : s \in Fits(call, some) <=>
            /\ s \in Photo /\ InTravelPool(s) /\ Rate[s] # None
            /\ call.hints = <<>> \/ InNamed(s, HintsOf(call))
            /\ call.indoor => Indoor(s)
            /\ call.moods = {} \/ Moods[s] \cap call.moods # {}
    BY DEF Fits
  <2> QED
    BY ONLY <2>1, <2>2, <2>3, <2>4
<1> QED
  BY <1>1, <1>2 DEF Answers, Quiet

LEMMA SearchWhole ==
    ASSUME NEW call, Plain(call), NEW step, NEW some \in SUBSET Ids, NEW near, near => call.near,
           call.name = "category_search" => SearchGives(call, step, some, near)
    PROVE  Whole(call, step, some)
<1> SUFFICES ASSUME call = [Blank EXCEPT !.name = "category_search", !.hints = call.hints],
                    ~step.late, ~step.stop, ~Unread(call), Len(step.rows) < CandidateLimit,
                    NEW s \in some \cap Photo, InTravelPool(s), InNamed(s, HintsOf(call))
             PROVE  s \in Range(step.rows)
  BY DEF Whole
<1>1. /\ call.name = "category_search" /\ call.words = <<>> /\ ~call.near /\ ~call.indoor
      /\ call.moods = {} /\ call.crowd = "any"
  <2> PICK hints : hints = call.hints
    OBVIOUS
  <2>1. call = [Blank EXCEPT !.name = "category_search", !.hints = hints]
    OBVIOUS
  <2> QED
    BY ONLY <2>1 DEF Blank
<1>2. ResolveCodes(call.words) = {} /\ ~\E kind \in {"food", "cafe"} : Meant(kind, call.words)
  BY <1>1, Uneaten
<1>3. Answers(step.rows, Wanted(call, "travel", {}, some), "any", near)
  BY <1>1, <1>2 DEF SearchGives
<1>4. s \in Wanted(call, "travel", {}, some)
  BY <1>1, SearchInRegion DEF Wanted, Meets, InPool
<1> QED
  BY <1>1, <1>3, <1>4 DEF Answers

---------------------------------------------------------------------------
\* The calls of a turn and what they gave.

CtxOf(user, some, up) ==
    [at |-> user.at, photo |-> user.photo, saved |-> user.saved, shown |-> some, up |-> up]

\* A tool has given a step, from the spots that were shown at some time of the
\* turn: if the pipeline has changed nothing, from those that are shown.
Returned(call, step, user, some) == step = TooLate \/ \E up \in BOOLEAN : step = Run(call, CtxOf(user, some, up))

Gave(call, step, user, now, n) ==
    Plain(call) /\ \E some \in SUBSET Ids : (n = 0 => some = now) /\ Returned(call, step, user, some)

AllGave(calls, steps, user, now, n) == \A i \in 1..Len(calls) : Gave(calls[i], steps[i], user, now, n)

TraceInv ==
    SavedInv /\ ChipInv /\ changes \in Nat /\ AllGave(trace.calls, trace.steps, request, shown, changes)

LEMMA TraceGrows ==
    ASSUME NEW calls, NEW steps, NEW saved, StepsWithout(calls, steps, saved),
           NEW user, NEW now, NEW n, AllGave(calls, steps, user, now, n),
           NEW call, NEW result, Gave(call, result, user, now, n)
    PROVE  AllGave(Append(calls, call), Append(steps, result), user, now, n)
<1>1. PICK S : calls \in Seq(S)
  BY DEF StepsWithout
<1>2. PICK R : steps \in Seq(R)
  BY DEF StepsWithout
<1>3. PICK S2 : S2 = S \cup {call}
  OBVIOUS
<1>4. PICK R2 : R2 = R \cup {result}
  OBVIOUS
<1>5. calls \in Seq(S2) /\ call \in S2 /\ steps \in Seq(R2) /\ result \in R2
  BY <1>1, <1>2, <1>3, <1>4, SeqMonotonic
<1>6. Len(calls) \in Nat /\ Len(steps) = Len(calls)
  BY <1>5, LenProperties DEF StepsWithout
<1> PICK callsNext : callsNext = Append(calls, call)
  OBVIOUS
<1> PICK stepsNext : stepsNext = Append(steps, result)
  OBVIOUS
<1>7. /\ Len(callsNext) = Len(calls) + 1 /\ callsNext[Len(calls) + 1] = call
      /\ \A i \in 1..Len(calls) : callsNext[i] = calls[i]
  BY <1>5, AppendProperties
<1>8. /\ stepsNext[Len(calls) + 1] = result
      /\ \A i \in 1..Len(calls) : stepsNext[i] = steps[i]
  BY <1>5, <1>6, AppendProperties
<1>9. ASSUME NEW i \in 1..Len(callsNext) PROVE Gave(callsNext[i], stepsNext[i], user, now, n)
  <2>1. CASE i = Len(calls) + 1
    BY <1>7, <1>8, <2>1
  <2>2. CASE i \in 1..Len(calls)
    BY <1>7, <1>8, <2>2 DEF AllGave
  <2> QED
    BY <1>6, <1>7, <2>1, <2>2
<1> QED
  BY <1>9 DEF AllGave

LEMMA NoneGave == ASSUME NEW user, NEW now, NEW n PROVE AllGave(NoTrace.calls, NoTrace.steps, user, now, n)
BY DEF AllGave, NoTrace

LEMMA TraceNext ==
    ASSUME TraceInv, Next
    PROVE  (changes \in Nat /\ AllGave(trace.calls, trace.steps, request, shown, changes))'
<1> DEFINE Goal == changes \in Nat /\ AllGave(trace.calls, trace.steps, request, shown, changes)
<1>1. ASSUME NEW opening, NEW user, Begin(user, opening) PROVE Goal'
  BY <1>1, NoneGave DEF Begin, TraceInv
<1>2. ASSUME NEW user \in Users, Say(user) PROVE Goal'
  BY <1>1, <1>2 DEF Say
<1>3. ASSUME NEW i, TapChip(i) PROVE Goal'
  BY <1>1, <1>3 DEF TapChip
<1>4. ASSUME NEW i, NEW action, TapCard(i, action) PROVE Goal'
  BY <1>1, <1>4 DEF TapCard
<1>5. ASSUME trace'.calls = trace.calls, trace'.steps = trace.steps, UNCHANGED <<request, shown, changes>> PROVE Goal'
  BY <1>5 DEF TraceInv
<1>6. ASSUME NEW round, Decide(round) PROVE Goal'
  BY <1>5, <1>6 DEF Decide
<1>7. CASE Declined
  BY <1>5, <1>7 DEF Declined, Observed
<1>8. ASSUME NEW call, NEW result, call = Head(picked), Observed, trace' = Traced(call, result),
             result = TooLate \/ \E up \in BOOLEAN : result = Run(call, Ctx(up))
      PROVE  Goal'
  <2>1. /\ trace'.calls = Append(trace.calls, call) /\ trace'.steps = Append(trace.steps, result)
        /\ UNCHANGED <<request, shown, changes>>
    BY <1>8 DEF Traced, Observed
  <2>2. Plain(call)
    <3>1. picked # <<>> /\ PlainCalls(picked)
      BY <1>8 DEF Observed, TraceInv, ChipInv
    <3>2. PICK S : picked \in Seq(S) /\ \A one \in S : Plain(one)
      BY <3>1 DEF PlainCalls
    <3>3. Head(picked) \in S
      BY <3>1, <3>2, HeadTailProperties
    <3> QED
      BY <1>8, <3>2, <3>3
  <2>3. Returned(call, result, request, shown)
    <3>1. \A up : Ctx(up) = CtxOf(request, shown, up)
      BY DEF Ctx, CtxOf
    <3> QED
      BY <1>8, <3>1 DEF Returned
  <2>4. Gave(call, result, request, shown, changes)
    BY <2>2, <2>3 DEF Gave, TraceInv, SavedInv
  <2>5. AllGave(Append(trace.calls, call), Append(trace.steps, result), request, shown, changes)
    BY <2>4, TraceGrows DEF TraceInv, SavedInv
  <2> QED
    BY <2>1, <2>5 DEF TraceInv
<1>9. ASSUME NEW up \in BOOLEAN, RunOne(up) PROVE Goal'
  BY <1>8, <1>9 DEF RunOne
<1>10. CASE TimedOut
  BY <1>8, <1>10 DEF TimedOut
<1>11. ASSUME NEW response, End(response) PROVE Goal'
  BY <1>5, <1>11 DEF End
<1>12. ASSUME NEW up \in BOOLEAN, Refused(up) PROVE Goal'
  BY <1>11, <1>12 DEF Refused
<1>13. CASE RateLimited \/ Respond
  BY <1>11, <1>13 DEF RateLimited, Respond
<1>14. ASSUME NEW s \in Ids, ShowFlag(s) PROVE Goal'
  <2>1. changes' \in Nat /\ changes' # 0 /\ UNCHANGED <<request, trace>>
    BY <1>14 DEF ShowFlag, TraceInv
  <2>2. \A i \in 1..Len(trace.calls) : Gave(trace.calls[i], trace.steps[i], request, shown', changes')
    BY <2>1 DEF Gave, TraceInv, AllGave
  <2> QED
    BY <2>1, <2>2 DEF AllGave
<1> QED
  BY <1>2, <1>3, <1>4, <1>6, <1>7, <1>9, <1>10, <1>12, <1>13, <1>14 DEF Next

LEMMA TraceKept == Spec => []TraceInv
<1>1. Init => TraceInv
  BY SavedInit, ChipInit, NoneGave DEF Init, TraceInv
<1>2. TraceInv /\ [Next]_vars => TraceInv'
  <2>1. ASSUME TraceInv, Next PROVE TraceInv'
    BY <2>1, SavedNext, ChipNext, TraceNext DEF TraceInv
  <2>2. ASSUME TraceInv, UNCHANGED vars PROVE TraceInv'
    BY <2>2 DEF vars, TraceInv, SavedInv, ChipInv, Located
  <2> QED
    BY <2>1, <2>2
<1> QED
  BY <1>1, <1>2, PTL DEF Spec

\* What is known of a call that was made.
LEMMA CallMade ==
    ASSUME TraceInv, NEW i \in DOMAIN trace.calls
    PROVE  Gave(trace.calls[i], trace.steps[i], request, shown, changes) /\ request.at \in Int \cup {None}
<1>1. DOMAIN trace.calls = 1..Len(trace.calls)
  BY LenProperties DEF TraceInv, SavedInv, StepsWithout
<1> QED
  BY <1>1 DEF TraceInv, AllGave, SavedInv, User

\* What category_search finds, whatever became of the call.
LEMMA SearchGave ==
    ASSUME NEW call, NEW step, NEW user, user.at \in Int \cup {None}, NEW some \in SUBSET Ids,
           Plain(call), Returned(call, step, user, some), step # TooLate, call.name = "category_search"
    PROVE  SearchGives(call, step, some, call.near /\ user.at # None)
<1>1. PICK up \in BOOLEAN : step = Run(call, CtxOf(user, some, up))
  BY DEF Returned
<1> PICK ctx : ctx = CtxOf(user, some, up)
  OBVIOUS
<1>2. step = CategorySearch(call, ctx)
  BY <1>1 DEF Run
<1>3. ctx.shown = some /\ ctx.at = user.at
  BY DEF CtxOf
<1>4. IsPlace(call, ctx) <=> call.near /\ user.at # None
  BY <1>3 DEF IsPlace
<1> PICK near : near = IsPlace(call, ctx)
  OBVIOUS
<1>5. SearchGives(call, step, ctx.shown, near)
  BY <1>2, <1>3, CategorySearches
<1>6. near = (call.near /\ user.at # None)
  BY <1>4 DEF IsPlace, Plain
<1> QED
  BY <1>3, <1>5, <1>6

\* The spots of a search are of the kind, the mood and under the roof that were
\* asked for, and who asks for quiet gets the quietest there is, for any spots,
\* rates, limits and hints (search_candidates, search_food, food_action,
\* food_word, _CANDIDATE_SQL).
THEOREM ConditionsStay == Spec => []ConditionsKept
<1>1. TraceInv => ConditionsKept
  <2> SUFFICES ASSUME TraceInv, NEW i \in DOMAIN trace.calls, NEW call, NEW step,
                      call = trace.calls[i], step = trace.steps[i]
               PROVE  OfKind(call, step) /\ (changes = 0 => Quietest(call, step, shown, IsPlace(call, Ctx(TRUE))))
    BY DEF ConditionsKept
  <2>1. Gave(call, step, request, shown, changes) /\ request.at \in Int \cup {None}
    BY CallMade
  <2>2. PICK some \in SUBSET Ids : (changes = 0 => some = shown) /\ Returned(call, step, request, some)
    BY <2>1 DEF Gave
  <2>3. Plain(call)
    BY <2>1 DEF Gave
  <2> PICK near : near = (call.near /\ request.at # None)
    OBVIOUS
  <2>4. CASE step = TooLate
    <3>1. Range(step.rows) = {} /\ step.late
      BY <2>4, Rowless
    <3> QED
      BY <3>1 DEF OfKind, Quietest
  <2>5. CASE step # TooLate
    <3>1. call.name = "category_search" => SearchGives(call, step, some, near)
      BY <2>1, <2>2, <2>3, <2>5, SearchGave
    <3>2. OfKind(call, step) /\ Quietest(call, step, some, near)
      BY <2>3, <3>1, SearchOfKind, SearchQuietest
    <3>3. IsPlace(call, Ctx(TRUE)) = near
      BY DEF IsPlace, Ctx
    <3> QED
      BY <2>2, <3>2, <3>3
  <2> QED
    BY <2>4, <2>5
<1> QED
  BY <1>1, TraceKept, PTL

---------------------------------------------------------------------------
\* An itinerary.

\* The spots that have a place.
Sited == {s \in Ids : Place[s] # None}
SitedLists == {list \in Lists : Range(list) \subseteq Sited}

LEMMA PlacedRows ==
    ASSUME NEW rows \in Lists, NEW kept, kept = WithoutOutliers(Placed(rows))
    PROVE  kept \in SitedLists /\ Range(kept) \subseteq Range(rows)
<1> PICK placed : placed = Placed(rows)
  OBVIOUS
<1>1. placed \in Lists /\ Range(placed) = Range(rows) \cap Sited
  BY OnlyList DEF Placed, Sited
<1> PICK far : far = {s \in Range(placed) : 
                        Distance(s, SortSeq([i \in DOMAIN placed |-> Place[placed[i]]], <)[Len(placed) \div 2 + 1]) <= Outlier}
  OBVIOUS
<1> PICK near : near = Only(placed, far)
  OBVIOUS
<1>2. kept \in {placed, near}
  BY DEF WithoutOutliers
<1>3. near \in Lists /\ Range(near) = Range(placed) \cap far
  BY ONLY <1>1, near = Only(placed, far), OnlyList
<1>4. kept \in Lists /\ Range(kept) \subseteq Range(placed)
  BY <1>1, <1>2, <1>3
<1> QED
  BY <1>1, <1>4 DEF SitedLists

\* The first of the nearest is one of those that were looked at.
LEMMA NearestFound ==
    ASSUME NEW rows \in SitedLists, NEW s \in Sited, NEW positions \in SUBSET (1..Len(rows)), positions # {}
    PROVE  NearestOf(s, rows, positions) \in positions
<1>1. /\ rows \in Lists /\ Len(rows) \in Nat /\ \A i \in 1..Len(rows) : rows[i] \in Sited
      /\ Range(rows) = {rows[i] : i \in 1..Len(rows)}
  BY PartsOfList DEF SitedLists
<1>2. \A t \in Sited : Place[t] \in Int
  BY SpotsAssumption DEF Sited
<1>3. \A i \in positions : Apart(rows[i], s) \in Nat
  <2> SUFFICES ASSUME NEW i \in positions PROVE Apart(rows[i], s) \in Nat
    OBVIOUS
  <2> PICK t : t = rows[i]
    OBVIOUS
  <2>1. Place[t] \in Int /\ Place[s] \in Int
    BY <1>1, <1>2
  <2>2. Apart(t, s) \in Nat
    BY <2>1 DEF Apart, Distance
  <2> QED
    BY <2>2
<1> DEFINE far == {Apart(rows[i], s) : i \in positions}
<1>4. far \in SUBSET Nat /\ far # {}
  BY <1>3
<1>5. PICK m \in far : \A k \in far : m <= k
  <2> HIDE DEF far
  <2> QED
    BY <1>4, LeastOf
<1>6. PICK first : first = {i \in positions : \A j \in positions : Apart(rows[i], s) <= Apart(rows[j], s)}
  OBVIOUS
<1>7. first # {}
  <2>1. PICK i \in positions : m = Apart(rows[i], s)
    BY <1>5
  <2>2. \A j \in positions : Apart(rows[i], s) <= Apart(rows[j], s)
    BY <1>5, <2>1
  <2> QED
    BY <1>6, <2>2
<1>8. first \in SUBSET Nat
  <2>1. first \subseteq 1..Len(rows)
    BY <1>6
  <2> QED
    BY <1>1, <2>1
<1>9. \E i \in first : \A k \in first : i <= k
  BY <1>7, <1>8, LeastOf
<1>10. Min(first) \in first
  BY <1>9 DEF Min
<1> QED
  BY <1>6, <1>10 DEF NearestOf

\* The paths over rows that visit no row twice.
Paths(n) == {path \in Lists : Range(path) \subseteq 1..n}

LEMMA OneOnward ==
    ASSUME NEW rows \in SitedLists, NEW path \in Paths(Len(rows)), Len(path) < Len(rows)
    PROVE  Onward(rows, path) \in Paths(Len(rows)) /\ Len(Onward(rows, path)) = Len(path) + 1
<1> PICK N \in Nat : N = Len(rows) /\ N <= SpotCount /\ 1..N \subseteq Ids
  <2>1. rows \in Lists
    BY DEF SitedLists
  <2>2. Len(rows) \in Nat /\ Range(rows) \subseteq 1..SpotCount
    BY <2>1, PartsOfList DEF Ids
  <2>3. Len(rows) <= SpotCount
    BY <2>1, <2>2, ListFits, SpotsAssumption
  <2> QED
    BY <2>2, <2>3, SpotsAssumption DEF Ids
<1>1. path \in Lists /\ Len(path) \in Nat /\ Range(path) \subseteq 1..N /\ Len(path) < N
      /\ Range(path) = {path[i] : i \in 1..Len(path)}
  BY PartsOfList DEF Paths
<1>2. PICK i \in 1..N : Onward(rows, path) = Append(path, i) /\ i \notin Range(path)
  <2>1. CASE path = <<>>
    <3>1. Range(path) = {}
      BY <2>1, NoneListed
    <3> QED
      BY <1>1, <2>1, <3>1 DEF Onward
  <2>2. CASE path # <<>>
    <3>1. rows \in Lists /\ \A k \in 1..N : rows[k] \in Sited
      <4>1. rows \in Lists /\ Range(rows) \subseteq Sited
        BY DEF SitedLists
      <4> QED
        BY <4>1, PartsOfList
    <3>2. Last(path) \in 1..N
      <4>1. Len(path) # 0
        BY <1>1, <2>2, PartsOfList, EmptySeq
      <4> QED
        BY <1>1, <4>1 DEF Last
    <3> PICK rest : rest = (1..N) \ Range(path)
      OBVIOUS
    <3>3. rest \in SUBSET (1..N) /\ rest # {}
      <4>1. \E k \in 1..N : k \notin Range(path)
        BY <1>1, FullList
      <4> QED
        BY <4>1
    <3> PICK k : k = NearestOf(rows[Last(path)], rows, rest)
      OBVIOUS
    <3>4. k \in rest
      BY <3>1, <3>2, <3>3, NearestFound
    <3>5. DOMAIN rows = 1..N
      BY <3>1, PartsOfList
    <3>6. Onward(rows, path) = Append(path, k)
      BY <2>2, <3>5 DEF Onward
    <3> QED
      BY <3>4, <3>6
  <2> QED
    BY <2>1, <2>2
<1>3. /\ Append(path, i) \in Lists /\ Len(Append(path, i)) = Len(path) + 1
      /\ Range(Append(path, i)) = Range(path) \cup {i}
  BY <1>1, <1>2, AppendedList
<1> PICK next : next = Append(path, i)
  OBVIOUS
<1>4. next \in Lists /\ Range(next) \subseteq 1..N
  BY <1>1, <1>3
<1> QED
  BY <1>2, <1>3, <1>4 DEF Paths

Visits(path, rows) == path = [n \in 0..Len(rows) |-> IF n = 0 THEN <<>> ELSE Onward(rows, path[n - 1])]

\* A chain visits the rows it is made of, each once.
LEMMA ChainVisits ==
    ASSUME NEW rows \in SitedLists
    PROVE  Chain(rows) \in SitedLists /\ Range(Chain(rows)) = Range(rows)
<1>1. /\ rows \in Lists /\ Len(rows) \in Nat /\ DOMAIN rows = 1..Len(rows)
      /\ \A i \in 1..Len(rows) : rows[i] \in Ids
      /\ \A i, j \in 1..Len(rows) : rows[i] = rows[j] => i = j
      /\ Range(rows) = {rows[i] : i \in 1..Len(rows)} /\ Range(rows) \subseteq Sited
  BY PartsOfList DEF SitedLists
<1> PICK N \in Nat : N = Len(rows)
  BY <1>1
<1> DEFINE step == [i \in 1..N |-> [p \in Paths(N) |-> IF Len(p) = i - 1 THEN Onward(rows, p) ELSE p]]
<1>2. step \in [1..N -> [Paths(N) -> Paths(N)]]
  <2> SUFFICES ASSUME NEW i \in 1..N, NEW p \in Paths(N), Len(p) = i - 1 PROVE Onward(rows, p) \in Paths(N)
    OBVIOUS
  <2>1. Len(p) < Len(rows)
    OBVIOUS
  <2> QED
    BY <2>1, OneOnward
<1>3. <<>> \in Paths(N) /\ Len(<<>>) = 0
  BY NoneListed DEF Paths
<1>4. PICK f : f \in [0..N -> Paths(N)] /\ f[0] = <<>> /\ \A i \in 1..N : f[i] = step[i][f[i - 1]]
  <2> HIDE DEF step
  <2>1. N \in Nat
    OBVIOUS
  <2>2. \E f : Steps(f, N, Paths(N), <<>>, step)
    BY ONLY <1>2, <1>3, <2>1, Iterated
  <2> QED
    BY <2>2 DEF Steps
<1>5. ASSUME NEW i \in 1..N, Len(f[i - 1]) = i - 1
      PROVE  f[i] = Onward(rows, f[i - 1]) /\ Len(f[i]) = i
  <2>1. i - 1 \in 0..N
    OBVIOUS
  <2> PICK p \in Paths(N) : p = f[i - 1]
    BY <1>4, <2>1
  <2>2. step[i][p] = Onward(rows, p)
    BY <1>5
  <2>3. f[i] = Onward(rows, p)
    <3>1. f[i] = step[i][p]
      BY <1>4
    <3> HIDE DEF step
    <3> QED
      BY <2>2, <3>1
  <2>4. Len(p) = i - 1 /\ Len(p) < Len(rows) /\ (i - 1) + 1 = i
    BY <1>5
  <2>5. Len(Onward(rows, p)) = Len(p) + 1
    BY <2>4, OneOnward
  <2> QED
    BY <2>3, <2>4, <2>5
<1>6. \A i \in 0..N : Len(f[i]) = i
  <2> DEFINE T == {i \in 0..N : Len(f[i]) = i}
  <2>1. 0 \in T
    BY <1>3, <1>4
  <2>2. \A i \in 1..N : i - 1 \in T => i \in T
    BY <1>5
  <2>3. 0..N \subseteq T
    <3>1. N \in Nat
      OBVIOUS
    <3> HIDE DEF T
    <3> QED
      BY ONLY <2>1, <2>2, <3>1, Inducts
  <2> QED
    BY <2>3
<1>7. \A i \in 1..N : f[i] = Onward(rows, f[i - 1])
  <2> SUFFICES ASSUME NEW i \in 1..N PROVE f[i] = Onward(rows, f[i - 1])
    OBVIOUS
  <2>1. i - 1 \in 0..N
    OBVIOUS
  <2>2. Len(f[i - 1]) = i - 1
    BY <1>6, <2>1
  <2> QED
    BY <1>5, <2>2
<1>8. Visits(f, rows)
  <2> HIDE DEF step
  <2>1. \A n \in 0..N : f[n] = IF n = 0 THEN <<>> ELSE Onward(rows, f[n - 1])
    BY <1>4, <1>7
  <2> QED
    BY <1>4, <2>1 DEF Visits
<1>9. PICK path : path = CHOOSE g : Visits(g, rows)
  OBVIOUS
<1>10. \A n \in 0..N : path[n] = IF n = 0 THEN <<>> ELSE Onward(rows, path[n - 1])
  <2>1. Visits(path, rows)
    BY <1>8, <1>9
  <2> QED
    BY <2>1 DEF Visits
<1>11. \A n \in 0..N : path[n] = f[n]
  <2>1. path[0] = f[0]
    <3>1. 0 \in 0..N
      OBVIOUS
    <3> QED
      BY ONLY <1>4, <1>10, <3>1
  <2>2. \A i \in 1..N : path[i - 1] = f[i - 1] => path[i] = f[i]
    <3> SUFFICES ASSUME NEW i \in 1..N, path[i - 1] = f[i - 1] PROVE path[i] = f[i]
      OBVIOUS
    <3>1. i \in 0..N /\ i # 0
      OBVIOUS
    <3>2. path[i] = Onward(rows, path[i - 1])
      BY <1>10, <3>1
    <3> QED
      BY <1>7, <3>2
  <2>3. N \in Nat
    OBVIOUS
  <2>4. KeepsPace(path, f, N)
    BY ONLY <2>1, <2>2 DEF KeepsPace
  <2>5. AgreeUpTo(path, f, N)
    BY ONLY <2>3, <2>4, IteratedAlike
  <2> QED
    BY ONLY <2>5 DEF AgreeUpTo
<1> PICK order : order = f[N]
  OBVIOUS
<1>12. order \in Paths(N) /\ Len(order) = N
  <2>1. N \in 0..N
    OBVIOUS
  <2> QED
    BY <1>4, <1>6, <2>1
<1>13. /\ \A i \in 1..N : order[i] \in 1..N
       /\ \A i, j \in 1..N : order[i] = order[j] => i = j
       /\ \A k \in 1..N : \E i \in 1..N : order[i] = k
  <2>1. order \in Lists /\ Range(order) \subseteq 1..N
    BY <1>12 DEF Paths
  <2>2. Range(order) = 1..N
    BY <1>12, <2>1, FullList
  <2>3. Range(order) = {order[i] : i \in 1..N} /\ \A i, j \in 1..N : order[i] = order[j] => i = j
    BY <1>12, <2>1, PartsOfList
  <2>4. {order[i] : i \in 1..N} = 1..N
    BY <2>2, <2>3
  <2>5. ASSUME NEW i \in 1..N PROVE order[i] \in 1..N
    BY ONLY <2>4, <2>5
  <2>6. ASSUME NEW k \in 1..N PROVE \E i \in 1..N : order[i] = k
    BY ONLY <2>4, <2>6
  <2> QED
    BY <2>3, <2>5, <2>6
<1> PICK chain : chain = [i \in 1..N |-> rows[order[i]]]
  OBVIOUS
<1>14. Chain(rows) = chain
  <2>1. N \in 0..N
    OBVIOUS
  <2>2. path[N] = order
    BY <1>11, <2>1
  <2>3. Chain(rows) = [i \in DOMAIN rows |-> rows[path[Len(rows)][i]]]
    BY <1>9 DEF Chain, Visits
  <2> QED
    BY <1>1, <2>2, <2>3
<1>15. chain \in Lists /\ Len(chain) = N
  <2>1. chain \in [1..N -> Ids]
    BY <1>1, <1>13
  <2>2. chain \in Seq(Ids)
    BY <2>1, SeqDef
  <2>3. Len(chain) \in Nat /\ DOMAIN chain = 1..Len(chain) /\ DOMAIN chain = 1..N
    BY <2>1, <2>2, LenProperties
  <2>4. Len(chain) = N
    <3>1. Len(chain) \in Nat /\ N \in Nat /\ 1..Len(chain) = 1..N
      BY <2>3
    <3> QED
      BY ONLY <3>1, SameEnd
  <2>5. ASSUME NEW i \in 1..N, NEW j \in 1..N, chain[i] = chain[j] PROVE i = j
    <3>1. rows[order[i]] = rows[order[j]] /\ order[i] \in 1..N /\ order[j] \in 1..N
      BY <1>13, <2>5
    <3>2. order[i] = order[j]
      BY <1>1, <3>1
    <3> QED
      BY <1>13, <3>2
  <2> QED
    BY <2>2, <2>4, <2>5 DEF Lists
<1>16. Range(chain) = {chain[i] : i \in 1..N}
  BY <1>15, PartsOfList
<1>17. Range(chain) = Range(rows)
  <2>1. ASSUME NEW i \in 1..N PROVE chain[i] \in Range(rows)
    BY <1>1, <1>13
  <2>2. ASSUME NEW k \in 1..N PROVE \E i \in 1..N : chain[i] = rows[k]
    BY <1>13
  <2>3. Range(rows) = {rows[i] : i \in 1..N}
    BY <1>1
  <2>4. \A s : s \in Range(chain) => s \in Range(rows)
    BY <1>16, <2>1
  <2>5. \A s : s \in Range(rows) => s \in Range(chain)
    <3> SUFFICES ASSUME NEW k \in 1..N PROVE rows[k] \in Range(chain)
      BY <2>3
    <3>1. PICK i \in 1..N : chain[i] = rows[k]
      BY <2>2
    <3> QED
      BY <1>16, <3>1
  <2> QED
    BY ONLY <2>4, <2>5
<1> QED
  BY <1>1, <1>14, <1>15, <1>17 DEF SitedLists

\* Kinds of meal with the words W, and what a plan of them is.
MealsOf(W) == Seq([word : W, pool : SitedLists])

\* What there is to eat.
Pooled(meals) == UNION {Range(meals[i].pool) : i \in 1..Len(meals)}

PlansOf(meals, W) ==
    [days : Seq(Lists), meals : {meals}, taken : SUBSET Ids, short : SUBSET W, served : SUBSET Nat, picked : Lists]

\* A plan while the meals of a day are picked, `start` being the plan before them.
Feeding(start, W) ==
    {p \in PlansOf(start.meals, W) :
        /\ p.days = start.days /\ p.served = start.served
        /\ start.short \subseteq p.short
        /\ p.taken = start.taken \cup Range(p.picked)
        /\ Range(p.picked) \subseteq Sited /\ Range(p.picked) \cap start.taken = {}
        /\ Range(p.picked) \subseteq Pooled(start.meals)}

Given(meals, i, short, found) == meals[i].word \in short \/ Range(meals[i].pool) \cap found # {}

LEMMA NearestOfPool ==
    ASSUME NEW day \in SitedLists, day # <<>>, NEW left \in SitedLists, left # <<>>
    PROVE  Nearest(day[1], left) \in Range(left)
<1>1. Len(day) \in Nat /\ Len(day) # 0 /\ \A i \in 1..Len(day) : day[i] \in Sited
  <2>1. day \in Lists /\ Range(day) \subseteq Sited
    BY DEF SitedLists
  <2>2. day \in Seq(Ids)
    BY <2>1, PartsOfList
  <2> QED
    BY <2>1, <2>2, PartsOfList, EmptySeq
<1>2. /\ Len(left) \in Nat /\ Len(left) # 0 /\ DOMAIN left = 1..Len(left)
      /\ Range(left) = {left[i] : i \in 1..Len(left)}
  <2>1. left \in Lists
    BY DEF SitedLists
  <2>2. left \in Seq(Ids)
    BY <2>1, PartsOfList
  <2> QED
    BY <2>1, <2>2, PartsOfList, EmptySeq
<1> PICK at : at = 1..Len(left)
  OBVIOUS
<1>3. at \in SUBSET (1..Len(left)) /\ at # {} /\ day[1] \in Sited
  BY <1>1, <1>2
<1>4. NearestOf(day[1], left, at) \in at
  BY <1>3, NearestFound
<1> QED
  BY <1>2, <1>4 DEF Nearest

\* A kind of meal is short, or takes a place that no day and no other kind has.
LEMMA MealGiven ==
    ASSUME NEW W, NEW meals \in MealsOf(W), NEW start \in PlansOf(meals, W), NEW plan \in Feeding(start, W),
           NEW day \in SitedLists, day # <<>>, NEW i \in 1..Len(meals),
           NEW next, next = WithMeal(day, plan, i)
    PROVE  /\ next \in Feeding(start, W)
           /\ plan.short \subseteq next.short /\ Range(plan.picked) \subseteq Range(next.picked)
           /\ Given(meals, i, next.short, Range(next.picked))
<1>1. meals[i] \in [word : W, pool : SitedLists]
  BY ElementOfSeq DEF MealsOf
<1> PICK word \in W : word = meals[i].word
  BY <1>1
<1> PICK pool \in SitedLists : pool = meals[i].pool
  BY <1>1
<1>2. start.meals = meals /\ start.taken \in SUBSET Ids
  BY DEF PlansOf
<1>3. /\ plan \in PlansOf(meals, W) /\ plan.days = start.days /\ plan.served = start.served
      /\ start.short \subseteq plan.short /\ plan.taken = start.taken \cup Range(plan.picked)
      /\ Range(plan.picked) \subseteq Sited /\ Range(plan.picked) \cap start.taken = {}
      /\ Range(plan.picked) \subseteq Pooled(meals)
  BY <1>2 DEF Feeding
<1>4. /\ plan = [days |-> plan.days, meals |-> meals, taken |-> plan.taken, short |-> plan.short,
                 served |-> plan.served, picked |-> plan.picked]
      /\ plan.days \in Seq(Lists) /\ plan.taken \in SUBSET Ids /\ plan.short \in SUBSET W
      /\ plan.served \in SUBSET Nat /\ plan.picked \in Lists
  BY <1>3 DEF PlansOf
<1>0. PICK days, taken0, short0, served, picked0 :
         plan = [days |-> days, meals |-> meals, taken |-> taken0, short |-> short0,
                 served |-> served, picked |-> picked0]
  BY <1>4
<1>9. /\ plan.days = days /\ plan.taken = taken0 /\ plan.short = short0 /\ plan.served = served
      /\ plan.picked = picked0
  BY ONLY <1>0
<1> PICK rest : rest = Ids \ plan.taken
  OBVIOUS
<1> PICK left : left = Only(pool, rest)
  OBVIOUS
<1>5. left \in SitedLists /\ Range(left) = Range(pool) \cap rest
  <2>1. pool \in Lists /\ Range(pool) \subseteq Sited
    BY DEF SitedLists
  <2>2. left \in Lists /\ Range(left) = Range(pool) \cap rest
    BY <2>1, OnlyList
  <2> QED
    BY <2>1, <2>2 DEF SitedLists
<1> PICK s : s = Nearest(day[1], left)
  OBVIOUS
<1>6. next = IF left = <<>> THEN [plan EXCEPT !.short = @ \cup {word}]
             ELSE [plan EXCEPT !.taken = @ \cup {s}, !.picked = Append(@, s)]
  <2>1. plan.meals[i].word = word /\ plan.meals[i].pool = pool
    BY <1>4
  <2> QED
    BY ONLY <2>1, left = Only(pool, rest), rest = Ids \ plan.taken, s = Nearest(day[1], left),
            next = WithMeal(day, plan, i) DEF WithMeal
<1>7. CASE left = <<>>
  <2>1. next = [plan EXCEPT !.short = @ \cup {word}]
    BY <1>6, <1>7
  <2> PICK short : short = short0 \cup {word}
    OBVIOUS
  <2>2. next = [days |-> days, meals |-> meals, taken |-> taken0, short |-> short,
                served |-> served, picked |-> picked0]
    BY ONLY <1>0, <2>1, short = short0 \cup {word}
  <2>3. next \in PlansOf(meals, W)
    BY <1>0, <1>4, <2>2 DEF PlansOf
  <2>4. next \in Feeding(start, W)
    BY <1>0, <1>2, <1>3, <2>2, <2>3 DEF Feeding
  <2> QED
    BY <1>0, <2>2, <2>4 DEF Given
<1>8. CASE left # <<>>
  <2>1. next = [plan EXCEPT !.taken = @ \cup {s}, !.picked = Append(@, s)]
    BY <1>6, <1>8
  <2> PICK taken : taken = taken0 \cup {s}
    OBVIOUS
  <2> PICK dishes : dishes = Append(picked0, s)
    OBVIOUS
  <2>2. next = [days |-> days, meals |-> meals, taken |-> taken, short |-> short0,
                served |-> served, picked |-> dishes]
    BY ONLY <1>0, <2>1, taken = taken0 \cup {s}, dishes = Append(picked0, s)
  <2>3. s \in Range(pool) /\ s \in Ids /\ s \notin plan.taken /\ s \in Sited
    <3>1. s \in Range(left)
      BY <1>5, <1>8, NearestOfPool
    <3>2. Range(left) \subseteq Sited
      BY <1>5 DEF SitedLists
    <3> QED
      BY <1>5, <3>1, <3>2
  <2>4. dishes \in Lists /\ Range(dishes) = Range(plan.picked) \cup {s}
    <3>1. s \notin Range(plan.picked)
      BY <1>3, <2>3
    <3> QED
      BY <1>0, <1>4, <2>3, <3>1, AppendedList
  <2>5. next \in PlansOf(meals, W)
    <3>1. taken \in SUBSET Ids
      BY <1>0, <1>4, <2>3
    <3> QED
      <4>1. days \in Seq(Lists) /\ short0 \in SUBSET W /\ served \in SUBSET Nat /\ dishes \in Lists
        BY <1>4, <1>9, <2>4
      <4> QED
        BY ONLY <2>2, <3>1, <4>1 DEF PlansOf
  <2>6. taken = start.taken \cup Range(dishes) /\ Range(dishes) \subseteq Sited /\ Range(dishes) \cap start.taken = {}
    <3> PICK all : all = Range(dishes)
      OBVIOUS
    <3> PICK before : before = Range(plan.picked)
      OBVIOUS
    <3>1. all = before \cup {s} /\ plan.taken = start.taken \cup before /\ before \subseteq Sited
          /\ before \cap start.taken = {}
      BY <1>0, <1>3, <2>4
    <3>2. s \in Sited /\ s \notin start.taken
      BY <1>3, <2>3
    <3>3. taken = start.taken \cup all /\ all \subseteq Sited /\ all \cap start.taken = {}
      BY ONLY <1>9, <3>1, <3>2, taken = taken0 \cup {s}
    <3> QED
      BY <3>3
  <2>9. Range(dishes) \subseteq Pooled(meals)
    <3>1. s \in Pooled(meals)
      BY <2>3 DEF Pooled
    <3> QED
      BY ONLY <1>3, <2>4, <3>1
  <2>7. next \in Feeding(start, W)
    <3>1. /\ next.days = start.days /\ next.served = start.served /\ start.short \subseteq next.short
          /\ next.taken = taken /\ next.picked = dishes
      BY <1>3, <1>9, <2>2
    <3> QED
      BY ONLY <1>2, <2>5, <2>6, <2>9, <3>1 DEF Feeding
  <2>8. s \in Range(meals[i].pool) \cap Range(dishes)
    BY <2>3, <2>4
  <2> QED
    <3>1. next.short = plan.short /\ next.picked = dishes
      BY <1>9, <2>2
    <3>2. Range(plan.picked) \subseteq Range(dishes)
      BY <1>9, <2>4
    <3>3. Range(meals[i].pool) \cap Range(next.picked) # {}
      BY <2>8, <3>1
    <3> QED
      BY <2>7, <3>1, <3>2, <3>3 DEF Given
<1> QED
  BY <1>7, <1>8

FedBy(fed, day, picks, start) ==
    fed = [n \in 0..Len(picks) |-> IF n = 0 THEN start ELSE WithMeal(day, fed[n - 1], picks[n])]

LEMMA MealsGiven ==
    ASSUME NEW W, NEW meals \in MealsOf(W), NEW start \in PlansOf(meals, W), start.picked = <<>>,
           NEW day \in SitedLists, day # <<>>, NEW picks \in Seq(1..Len(meals)),
           NEW chosen, chosen = OneOfEach(day, picks, start)
    PROVE  /\ chosen \in Feeding(start, W)
           /\ \A k \in 1..Len(picks) : Given(meals, picks[k], chosen.short, Range(chosen.picked))
<1> PICK N \in Nat : N = Len(picks)
  BY LenProperties
<1>1. \A k \in 1..N : picks[k] \in 1..Len(meals)
  BY ElementOfSeq
<1> PICK X : X = Feeding(start, W)
  OBVIOUS
<1>2. start \in X
  <2>1. start.meals = meals
    BY DEF PlansOf
  <2> QED
    BY <2>1, NoneListed DEF Feeding
<1> DEFINE step == [i \in 1..N |-> [p \in X |-> WithMeal(day, p, picks[i])]]
<1>3. step \in [1..N -> [X -> X]]
  BY <1>1, MealGiven
<1>4. PICK f : f \in [0..N -> X] /\ f[0] = start /\ \A i \in 1..N : f[i] = step[i][f[i - 1]]
  <2> HIDE DEF step
  <2>1. N \in Nat
    OBVIOUS
  <2>2. \E f : Steps(f, N, X, start, step)
    BY ONLY <1>2, <1>3, <2>1, Iterated
  <2> QED
    BY <2>2 DEF Steps
<1>5. \A i \in 1..N : f[i - 1] \in X /\ f[i] = WithMeal(day, f[i - 1], picks[i])
  <2> SUFFICES ASSUME NEW i \in 1..N PROVE f[i - 1] \in X /\ f[i] = WithMeal(day, f[i - 1], picks[i])
    OBVIOUS
  <2>1. i - 1 \in 0..N
    OBVIOUS
  <2> PICK p \in X : p = f[i - 1]
    BY <1>4, <2>1
  <2>2. step[i][p] = WithMeal(day, p, picks[i])
    OBVIOUS
  <2>3. f[i] = step[i][p]
    BY <1>4
  <2> HIDE DEF step
  <2> QED
    BY <2>2, <2>3
<1>6. ASSUME NEW i \in 1..N
      PROVE  /\ f[i - 1].short \subseteq f[i].short /\ Range(f[i - 1].picked) \subseteq Range(f[i].picked)
             /\ Given(meals, picks[i], f[i].short, Range(f[i].picked))
  <2> PICK p \in X : p = f[i - 1]
    BY <1>5
  <2> PICK q : q = f[i]
    OBVIOUS
  <2> PICK m \in 1..Len(meals) : m = picks[i]
    BY <1>1
  <2>1. q = WithMeal(day, p, m)
    BY <1>5
  <2>2. /\ p.short \subseteq q.short /\ Range(p.picked) \subseteq Range(q.picked)
        /\ Given(meals, m, q.short, Range(q.picked))
    <3>1. p \in Feeding(start, W)
      OBVIOUS
    <3> QED
      BY ONLY <2>1, <3>1, MealGiven, meals \in MealsOf(W), start \in PlansOf(meals, W), day \in SitedLists,
              day # <<>>, m \in 1..Len(meals)
  <2> QED
    BY <2>2
<1>7. ASSUME NEW k \in 1..N PROVE Given(meals, picks[k], f[N].short, Range(f[N].picked))
  <2> DEFINE T == {i \in 0..N : k <= i => Given(meals, picks[k], f[i].short, Range(f[i].picked))}
  <2>1. 0 \in T
    OBVIOUS
  <2>2. ASSUME NEW i \in 1..N, i - 1 \in T PROVE i \in T
    <3>1. CASE i = k
      BY <1>6, <3>1
    <3>2. CASE i < k
      BY <3>2
    <3>3. CASE k < i
      <4>1. k <= i - 1
        BY <3>3
      <4>2. Given(meals, picks[k], f[i - 1].short, Range(f[i - 1].picked))
        BY <2>2, <4>1
      <4> PICK before : before = Range(f[i - 1].picked)
        OBVIOUS
      <4> PICK after : after = Range(f[i].picked)
        OBVIOUS
      <4>3. f[i - 1].short \subseteq f[i].short /\ before \subseteq after
        BY <1>6
      <4>4. Given(meals, picks[k], f[i].short, after)
        BY <4>2, <4>3 DEF Given
      <4> QED
        BY <4>4
    <3> QED
      BY <3>1, <3>2, <3>3
  <2>3. 0..N \subseteq T
    <3>1. N \in Nat /\ \A i \in 1..N : i - 1 \in T => i \in T
      BY <2>2
    <3> HIDE DEF T
    <3> QED
      BY ONLY <2>1, <3>1, Inducts
  <2>4. N \in 0..N
    OBVIOUS
  <2> QED
    BY <2>3, <2>4
<1>8. FedBy(f, day, picks, start)
  <2> HIDE DEF step
  <2>1. \A n \in 0..N : f[n] = IF n = 0 THEN start ELSE WithMeal(day, f[n - 1], picks[n])
    BY <1>4, <1>5
  <2> QED
    BY <1>4, <2>1 DEF FedBy
<1>9. PICK fed : fed = CHOOSE g : FedBy(g, day, picks, start)
  OBVIOUS
<1>10. \A n \in 0..N : fed[n] = IF n = 0 THEN start ELSE WithMeal(day, fed[n - 1], picks[n])
  <2>1. FedBy(fed, day, picks, start)
    BY <1>8, <1>9
  <2> QED
    BY <2>1 DEF FedBy
<1>11. \A n \in 0..N : fed[n] = f[n]
  <2>1. fed[0] = f[0]
    <3>1. 0 \in 0..N
      OBVIOUS
    <3> QED
      BY ONLY <1>4, <1>10, <3>1
  <2>2. \A i \in 1..N : fed[i - 1] = f[i - 1] => fed[i] = f[i]
    <3> SUFFICES ASSUME NEW i \in 1..N, fed[i - 1] = f[i - 1] PROVE fed[i] = f[i]
      OBVIOUS
    <3>1. i \in 0..N /\ i # 0
      OBVIOUS
    <3>2. fed[i] = WithMeal(day, fed[i - 1], picks[i])
      BY <1>10, <3>1
    <3> QED
      BY <1>5, <3>2
  <2>3. N \in Nat
    OBVIOUS
  <2>4. KeepsPace(fed, f, N)
    BY ONLY <2>1, <2>2 DEF KeepsPace
  <2>5. AgreeUpTo(fed, f, N)
    BY ONLY <2>3, <2>4, IteratedAlike
  <2> QED
    BY ONLY <2>5 DEF AgreeUpTo
<1>12. chosen = fed[N]
  BY <1>9 DEF OneOfEach, FedBy
<1>13. N \in 0..N
  OBVIOUS
<1>14. chosen = f[N] /\ f[N] \in X
  BY <1>4, <1>11, <1>12, <1>13
<1> QED
  BY <1>7, <1>14

\* A part of a list.
Holds(part, s) == s \in Range(part)

LEMMA PartListed ==
    ASSUME NEW list \in Lists, NEW a \in Nat, NEW e \in Nat, e <= Len(list),
           NEW m \in Int, m = a + 1, NEW part, part = SubSeq(list, m, e)
    PROVE  /\ part \in Lists /\ Range(part) \subseteq Range(list)
           /\ \A i \in 1..Len(list) : list[i] \in Range(part) => a < i /\ i <= e
           /\ m <= e => Holds(part, list[m])
<1>1. /\ list \in Seq(Ids) /\ Len(list) \in Nat /\ \A i \in 1..Len(list) : list[i] \in Ids
      /\ \A i, j \in 1..Len(list) : list[i] = list[j] => i = j
      /\ Range(list) = {list[i] : i \in 1..Len(list)}
  BY PartsOfList
<1>2. \A i \in m..e : list[i] \in Ids
  <2> SUFFICES ASSUME NEW i \in m..e PROVE list[i] \in Ids
    OBVIOUS
  <2>1. i \in 1..Len(list)
    BY <1>1
  <2> QED
    BY <1>1, <2>1
<1>3. e \in Int /\ m \in Int
  OBVIOUS
<1>4. /\ SubSeq(list, m, e) \in Seq(Ids)
      /\ Len(SubSeq(list, m, e)) = IF m <= e THEN e - m + 1 ELSE 0
      /\ \A i \in 1..(e - m + 1) : SubSeq(list, m, e)[i] = list[m + i - 1]
  BY ONLY <1>2, <1>3, SubSeqProperties
<1>5. /\ part \in Seq(Ids) /\ Len(part) = (IF a < e THEN e - a ELSE 0)
      /\ \A i \in 1..Len(part) : part[i] = list[a + i] /\ a + i \in 1..Len(list)
  <2>1. part = SubSeq(list, m, e)
    OBVIOUS
  <2>2. Len(part) = (IF a < e THEN e - a ELSE 0)
    BY <1>4, <2>1
  <2>3. ASSUME NEW i \in 1..Len(part) PROVE part[i] = list[a + i] /\ a + i \in 1..Len(list)
    <3>1. i \in 1..(e - m + 1) /\ m + i - 1 = a + i /\ a + i \in 1..Len(list)
      BY <1>1, <2>2
    <3> QED
      BY <1>4, <2>1, <3>1
  <2> QED
    BY <1>4, <2>1, <2>2, <2>3
<1>6. part \in Lists
  <2> SUFFICES ASSUME NEW i \in 1..Len(part), NEW j \in 1..Len(part), part[i] = part[j] PROVE i = j
    BY <1>5 DEF Lists
  <2>1. a + i = a + j
    BY <1>1, <1>5
  <2> QED
    BY <1>5, <2>1
<1>7. Range(part) = {part[i] : i \in 1..Len(part)}
  BY <1>6, PartsOfList
<1>8. Range(part) \subseteq Range(list)
  <2>1. ASSUME NEW i \in 1..Len(part) PROVE part[i] \in Range(list)
    <3>1. part[i] = list[a + i] /\ a + i \in 1..Len(list)
      BY ONLY <1>5, i \in 1..Len(part)
    <3>2. Range(list) = {list[k] : k \in 1..Len(list)}
      BY ONLY <1>1
    <3> QED
      BY ONLY <3>1, <3>2
  <2> QED
    BY ONLY <1>7, <2>1
<1>9. ASSUME m <= e PROVE list[m] \in Range(part)
  <2>1. 1 \in 1..Len(part)
    BY <1>5, <1>9
  <2>2. part[1] = list[m]
    BY <1>5, <2>1
  <2> QED
    BY <1>7, <2>1, <2>2
<1>10. ASSUME NEW i \in 1..Len(list), list[i] \in Range(part) PROVE a < i /\ i <= e
  <2>1. PICK k \in 1..Len(part) : part[k] = list[i]
    BY <1>7, <1>10
  <2>2. i = a + k
    BY <1>1, <1>5, <2>1
  <2> QED
    BY <1>5, <2>2
<1> QED
  BY <1>6, <1>8, <1>9, <1>10 DEF Holds

\* The legs of a trip are parts of it that do not overlap, the first of them with
\* its head.
LEMMA LegOfTrip ==
    ASSUME NEW sights \in Lists, NEW perDay \in Nat \ {0}, NEW day \in Nat \ {0},
           NEW leg, leg = Leg(sights, day, perDay)
    PROVE  /\ leg \in Lists /\ Range(leg) \subseteq Range(sights)
           /\ \A i \in 1..Len(sights) : sights[i] \in Range(leg) => (day - 1) * perDay < i /\ i <= day * perDay
           /\ day = 1 /\ sights # <<>> => leg # <<>> /\ sights[1] \in Range(leg)
<1>1. sights \in Seq(Ids) /\ Len(sights) \in Nat
  BY PartsOfList
<1> PICK a : a = (day - 1) * perDay
  OBVIOUS
<1> PICK b : b = day * perDay
  OBVIOUS
<1>2. a \in Nat /\ b \in Nat /\ b = a + perDay
  OBVIOUS
<1>3. day = 1 => a = 0
  OBVIOUS
<1> PICK e : e = IF b < Len(sights) THEN b ELSE Len(sights)
  OBVIOUS
<1>4. e \in Nat /\ e <= Len(sights) /\ e <= b
  BY <1>1, <1>2
<1> PICK m : m = a + 1
  OBVIOUS
<1>5. leg = SubSeq(sights, m, e)
  BY DEF Leg
<1>6. /\ leg \in Lists /\ Range(leg) \subseteq Range(sights)
      /\ \A i \in 1..Len(sights) : sights[i] \in Range(leg) => a < i /\ i <= e
      /\ m <= e => sights[m] \in Range(leg)
  <2>1. sights \in Lists /\ a \in Nat /\ e \in Nat /\ e <= Len(sights) /\ m \in Int /\ m = a + 1
    BY <1>2, <1>4
  <2>2. leg \in Lists
    BY ONLY <1>5, <2>1, PartListed
  <2>3. Range(leg) \subseteq Range(sights)
    BY ONLY <1>5, <2>1, PartListed
  <2>4. \A i \in 1..Len(sights) : sights[i] \in Range(leg) => a < i /\ i <= e
    BY ONLY <1>5, <2>1, PartListed
  <2>5. m <= e => Holds(leg, sights[m])
    BY ONLY <1>5, <2>1, PartListed
  <2> QED
    BY <2>2, <2>3, <2>4, <2>5 DEF Holds
<1>7. ASSUME NEW i \in 1..Len(sights), sights[i] \in Range(leg) PROVE a < i /\ i <= b
  <2>1. a < i /\ i <= e
    BY <1>6, <1>7
  <2> QED
    BY <1>1, <1>2, <1>4, <2>1
<1>8. ASSUME day = 1, sights # <<>> PROVE leg # <<>> /\ sights[1] \in Range(leg)
  <2>1. Len(sights) # 0
    BY <1>1, <1>8, EmptySeq
  <2>2. m = 1 /\ m <= e
    BY <1>1, <1>2, <1>3, <1>8, <2>1
  <2>3. sights[1] \in Range(leg)
    BY <1>6, <2>2
  <2> QED
    BY <2>3, NoneListed
<1> QED
  BY <1>6, <1>7, <1>8

\* Every kind of meal whose turn it is is a kind that there is.
LEMMA PicksTyped ==
    ASSUME NEW kinds \in Nat, NEW perMeal \in Nat, perMeal <= kinds, NEW day \in Nat \ {0},
           NEW picks, picks = Picks(kinds, day, perMeal)
    PROVE  picks \in Seq(1..kinds)
<1>1. ASSUME NEW slot \in 1..perMeal PROVE picks[slot] \in 1..kinds
  <2>1. kinds \in Nat \ {0}
    OBVIOUS
  <2> PICK turn : turn = (day - 1) * perMeal
    OBVIOUS
  <2>2. turn \in Nat
    OBVIOUS
  <2>3. turn + slot - 1 \in Nat
    BY <2>2
  <2>4. (turn + slot - 1) % kinds \in 0..(kinds - 1)
    BY <2>1, <2>3
  <2>5. picks[slot] = ((turn + slot - 1) % kinds) + 1
    BY DEF Picks
  <2> QED
    BY <2>1, <2>4, <2>5
<1>2. picks \in [1..perMeal -> 1..kinds]
  BY <1>1 DEF Picks
<1> QED
  BY <1>2, SeqDef

\* A day more: a leg of the trip and what was picked to eat on it.
DayOf(plan, next, leg, picks, meals, W) ==
    \E today, dishes \in Lists : \E short \in SUBSET W :
        /\ Range(dishes) \cap plan.taken = {} /\ Range(dishes) \subseteq Ids
        /\ Range(dishes) \subseteq Pooled(meals)
        /\ Range(today) = Range(leg) \cup Range(dishes)
        /\ plan.short \subseteq short
        /\ \A k \in 1..Len(picks) : Given(meals, picks[k], short, Range(dishes))
        /\ next = [days |-> Append(plan.days, today), meals |-> meals, taken |-> plan.taken \cup Range(dishes),
                   short |-> short, served |-> plan.served \cup Range(picks), picked |-> dishes]

LEMMA DayMade ==
    ASSUME NEW W, NEW meals \in MealsOf(W), NEW plan \in PlansOf(meals, W),
           NEW leg \in SitedLists, leg # <<>>, Range(leg) \subseteq plan.taken, NEW picks \in Seq(1..Len(meals)),
           NEW chosen, chosen = OneOfEach(leg, picks, [plan EXCEPT !.picked = <<>>]),
           NEW next, next = [chosen EXCEPT !.days = Append(@, Chain(leg \o chosen.picked)),
                                           !.served = @ \cup Range(picks)]
    PROVE  DayOf(plan, next, leg, picks, meals, W)
<1>1. PICK days \in Seq(Lists), taken \in SUBSET Ids, short0 \in SUBSET W, served \in SUBSET Nat, picked0 \in Lists :
         plan = [days |-> days, meals |-> meals, taken |-> taken, short |-> short0, served |-> served,
                 picked |-> picked0]
  BY DEF PlansOf
<1> PICK start : start = [plan EXCEPT !.picked = <<>>]
  OBVIOUS
<1>2. start = [days |-> days, meals |-> meals, taken |-> taken, short |-> short0, served |-> served,
               picked |-> <<>>]
  BY ONLY <1>1, start = [plan EXCEPT !.picked = <<>>]
<1>3. start \in PlansOf(meals, W) /\ start.picked = <<>> /\ start.meals = meals
  BY <1>2, NoneListed DEF PlansOf
<1>4. chosen \in Feeding(start, W) /\ \A k \in 1..Len(picks) : Given(meals, picks[k], chosen.short, Range(chosen.picked))
  BY <1>3, MealsGiven
<1>5. /\ chosen \in PlansOf(meals, W) /\ chosen.days = days /\ chosen.served = served
      /\ short0 \subseteq chosen.short /\ chosen.taken = taken \cup Range(chosen.picked)
      /\ Range(chosen.picked) \subseteq Sited /\ Range(chosen.picked) \cap taken = {}
      /\ Range(chosen.picked) \subseteq Pooled(meals)
  <2>1. /\ chosen \in PlansOf(meals, W) /\ chosen.days = start.days /\ chosen.served = start.served
        /\ start.short \subseteq chosen.short /\ chosen.taken = start.taken \cup Range(chosen.picked)
        /\ Range(chosen.picked) \subseteq Sited /\ Range(chosen.picked) \cap start.taken = {}
        /\ Range(chosen.picked) \subseteq Pooled(meals)
    BY <1>3, <1>4 DEF Feeding
  <2> QED
    BY ONLY <1>2, <2>1
<1>6. PICK short \in SUBSET W, dishes \in Lists :
         chosen = [days |-> days, meals |-> meals, taken |-> taken \cup Range(dishes), short |-> short,
                   served |-> served, picked |-> dishes]
  <2>1. PICK short \in SUBSET W, dishes \in Lists : \E d, t, sv :
           chosen = [days |-> d, meals |-> meals, taken |-> t, short |-> short, served |-> sv, picked |-> dishes]
    BY <1>5 DEF PlansOf
  <2>2. PICK d, t, sv :
           chosen = [days |-> d, meals |-> meals, taken |-> t, short |-> short, served |-> sv, picked |-> dishes]
    BY <2>1
  <2>3. d = days /\ t = taken \cup Range(dishes) /\ sv = served
    BY ONLY <1>5, <2>2
  <2> QED
    BY <2>2, <2>3
<1>7. chosen.short = short /\ chosen.picked = dishes
  BY ONLY <1>6
<1> PICK joined : joined = leg \o dishes
  OBVIOUS
<1>8. joined \in SitedLists /\ Range(joined) = Range(leg) \cup Range(dishes)
  <2>1. leg \in Lists /\ Range(leg) \subseteq Sited
    BY DEF SitedLists
  <2>2. Range(leg) \cap Range(dishes) = {}
    <3> PICK ours : ours = Range(leg)
      OBVIOUS
    <3>1. ours \subseteq taken
      BY <1>1
    <3> PICK theirs : theirs = Range(dishes)
      OBVIOUS
    <3>2. theirs \cap taken = {}
      BY <1>5, <1>7
    <3> QED
      BY <3>1, <3>2
  <2>3. joined \in Lists /\ Range(joined) = Range(leg) \cup Range(dishes)
    BY <2>1, <2>2, JoinedList
  <2>4. Range(joined) \subseteq Sited
    BY ONLY <1>5, <1>7, <2>1, <2>3
  <2> QED
    BY <2>3, <2>4 DEF SitedLists
<1> PICK today : today = Chain(joined)
  OBVIOUS
<1>9. today \in Lists /\ Range(today) = Range(leg) \cup Range(dishes)
  BY <1>8, ChainVisits DEF SitedLists
<1>10. next = [days |-> Append(days, today), meals |-> meals, taken |-> taken \cup Range(dishes),
               short |-> short, served |-> served \cup Range(picks), picked |-> dishes]
  <2>1. next = [chosen EXCEPT !.days = Append(@, today), !.served = @ \cup Range(picks)]
    BY <1>7
  <2> PICK eaten : eaten = taken \cup Range(dishes)
    OBVIOUS
  <2> PICK added : added = served \cup Range(picks)
    OBVIOUS
  <2> PICK longer : longer = Append(days, today)
    OBVIOUS
  <2>2. chosen = [days |-> days, meals |-> meals, taken |-> eaten, short |-> short,
                   served |-> served, picked |-> dishes]
    BY <1>6
  <2>3. next = [days |-> longer, meals |-> meals, taken |-> eaten, short |-> short, served |-> added,
                picked |-> dishes]
    BY ONLY <2>1, <2>2, longer = Append(days, today), added = served \cup Range(picks)
  <2> QED
    BY <2>3
<1>11. plan.days = days /\ plan.taken = taken /\ plan.short = short0 /\ plan.served = served
  BY ONLY <1>1
<1>12. /\ Range(dishes) \cap plan.taken = {} /\ Range(dishes) \subseteq Ids /\ plan.short \subseteq short
       /\ Range(dishes) \subseteq Pooled(meals)
  BY <1>5, <1>7, <1>11 DEF Sited
<1>13. \A k \in 1..Len(picks) : Given(meals, picks[k], short, Range(dishes))
  BY <1>4, <1>7
<1> QED
  BY ONLY <1>9, <1>10, <1>11, <1>12, <1>13, short \in SUBSET W, dishes \in Lists DEF DayOf

\* What a plan of the first days keeps, when no later sight than `reach` is on them.
TripsOf(meals, ordered, W) ==
    {p \in PlansOf(meals, W) : /\ Range(ordered) \subseteq p.taken /\ p.taken \subseteq Range(ordered) \cup Pooled(meals)
                               /\ \A d \in 1..Len(p.days) : Range(p.days[d]) \subseteq p.taken}

OnSomeDay(meals, i, short, days) ==
    meals[i].word \in short \/ \E d \in 1..Len(days) : Range(meals[i].pool) \cap Range(days[d]) # {}

Apartness(days) == \A d, e \in 1..Len(days) : Range(days[d]) \cap Range(days[e]) # {} => d = e

TripHolds(p, meals, ordered, reach) ==
    /\ Apartness(p.days)
    /\ \A d \in 1..Len(p.days) : \A i \in 1..Len(ordered) : ordered[i] \in Range(p.days[d]) => i <= reach
    /\ \A i \in p.served : OnSomeDay(meals, i, p.short, p.days)
    /\ ordered = <<>> => p.days = <<>>

SetsOut(p, ordered) == ordered # <<>> => Len(p.days) > 0 /\ ordered[1] \in Range(p.days[1])

\* A day is put after the others.
LEMMA DayAfter ==
    ASSUME NEW days \in Seq(Lists), NEW today \in Lists
    PROVE  /\ Append(days, today) \in Seq(Lists) /\ Len(Append(days, today)) = Len(days) + 1 /\ Len(days) \in Nat
           /\ \A d \in 1..Len(days) : Append(days, today)[d] = days[d]
           /\ Append(days, today)[Len(days) + 1] = today
BY AppendProperties, LenProperties

LEMMA DayAdded ==
    ASSUME NEW W, NEW meals \in MealsOf(W), NEW ordered \in SitedLists, NEW plan \in TripsOf(meals, ordered, W),
           NEW before \in Nat, NEW reach \in Nat, before <= reach,
           NEW leg \in SitedLists, leg # <<>>, Range(leg) \subseteq Range(ordered),
           \A i \in 1..Len(ordered) : ordered[i] \in Range(leg) => before < i /\ i <= reach,
           NEW picks \in Seq(1..Len(meals)), Range(picks) = {picks[k] : k \in 1..Len(picks)},
           Range(picks) \subseteq Nat, NEW next, DayOf(plan, next, leg, picks, meals, W)
    PROVE  /\ next \in TripsOf(meals, ordered, W)
           /\ TripHolds(plan, meals, ordered, before) => TripHolds(next, meals, ordered, reach)
           /\ SetsOut(plan, ordered) \/ (plan.days = <<>> /\ ordered[1] \in Range(leg)) => SetsOut(next, ordered)
<1>1. PICK today \in Lists, dishes \in Lists, short \in SUBSET W :
        /\ Range(dishes) \cap plan.taken = {} /\ Range(dishes) \subseteq Ids
        /\ Range(dishes) \subseteq Pooled(meals)
        /\ Range(today) = Range(leg) \cup Range(dishes)
        /\ plan.short \subseteq short
        /\ \A k \in 1..Len(picks) : Given(meals, picks[k], short, Range(dishes))
        /\ next = [days |-> Append(plan.days, today), meals |-> meals, taken |-> plan.taken \cup Range(dishes),
                   short |-> short, served |-> plan.served \cup Range(picks), picked |-> dishes]
  BY DEF DayOf
<1>2. /\ plan.days \in Seq(Lists) /\ plan.taken \in SUBSET Ids /\ plan.served \in SUBSET Nat
      /\ Range(ordered) \subseteq plan.taken /\ plan.taken \subseteq Range(ordered) \cup Pooled(meals)
      /\ \A d \in 1..Len(plan.days) : Range(plan.days[d]) \subseteq plan.taken
  BY DEF TripsOf, PlansOf
<1> PICK days \in Seq(Lists) : days = plan.days
  BY <1>2
<1> PICK later : later = Append(days, today)
  OBVIOUS
<1>3. /\ later \in Seq(Lists) /\ Len(later) = Len(days) + 1 /\ Len(days) \in Nat
      /\ \A d \in 1..Len(days) : later[d] = days[d]
      /\ later[Len(days) + 1] = today
  BY DayAfter
<1>4. /\ next.days = later /\ next.taken = plan.taken \cup Range(dishes) /\ next.short = short
      /\ next.served = plan.served \cup Range(picks) /\ next.picked = dishes /\ next.meals = meals
  BY ONLY <1>1, later = Append(days, today), days = plan.days
<1>5. \A d \in 1..Len(later) : d \in 1..Len(days) \/ d = Len(days) + 1
  BY <1>3
<1> PICK eaten : eaten = Range(dishes)
  OBVIOUS
<1> PICK walked : walked = Range(leg)
  OBVIOUS
<1> PICK visited : visited = Range(today)
  OBVIOUS
<1> PICK taken : taken = plan.taken
  OBVIOUS
<1>6. /\ visited = walked \cup eaten /\ eaten \cap taken = {} /\ walked \subseteq taken
      /\ \A d \in 1..Len(days) : Range(days[d]) \subseteq taken
  BY <1>1, <1>2
<1>7. next \in TripsOf(meals, ordered, W)
  <2>1. next \in PlansOf(meals, W)
    <3>1. plan.taken \cup Range(dishes) \in SUBSET Ids /\ plan.served \cup Range(picks) \in SUBSET Nat
      BY <1>1, <1>2
    <3> QED
      BY <1>1, <1>3, <3>1 DEF PlansOf
  <2>2. Range(ordered) \subseteq next.taken
    BY <1>2, <1>4
  <2>4. next.taken \subseteq Range(ordered) \cup Pooled(meals)
    BY ONLY <1>1, <1>2, <1>4
  <2>3. ASSUME NEW d \in 1..Len(later) PROVE Range(later[d]) \subseteq next.taken
    <3>1. CASE d \in 1..Len(days)
      BY <1>3, <1>4, <1>6, <3>1
    <3>2. CASE d = Len(days) + 1
      BY <1>3, <1>4, <1>6, <3>2
    <3> QED
      BY <1>5, <3>1, <3>2
  <2> QED
    BY <1>4, <2>1, <2>2, <2>3, <2>4 DEF TripsOf
<1>8. ASSUME TripHolds(plan, meals, ordered, before) PROVE TripHolds(next, meals, ordered, reach)
  <2>1. /\ Apartness(days)
        /\ \A d \in 1..Len(days) : \A i \in 1..Len(ordered) : ordered[i] \in Range(days[d]) => i <= before
        /\ \A i \in plan.served : OnSomeDay(meals, i, plan.short, days)
        /\ ordered = <<>> => days = <<>>
    BY <1>8 DEF TripHolds
  <2>2. \A i \in 1..Len(ordered) : ordered[i] \in Ids /\ Range(ordered) = {ordered[k] : k \in 1..Len(ordered)}
    BY PartsOfList DEF SitedLists
  <2>3. ASSUME NEW d \in 1..Len(days) PROVE Range(days[d]) \cap visited = {}
    <3> SUFFICES ASSUME NEW s \in Range(days[d]), s \in visited PROVE FALSE
      OBVIOUS
    <3>1. s \in taken
      BY <1>6
    <3>2. s \in walked
      BY <1>6, <3>1
    <3>3. PICK i \in 1..Len(ordered) : ordered[i] = s
      <4>1. s \in Range(ordered)
        BY <3>2
      <4>2. Range(ordered) = {ordered[k] : k \in 1..Len(ordered)}
        BY PartsOfList DEF SitedLists
      <4> QED
        BY <4>1, <4>2
    <3>4. before < i /\ i <= before
      <4>1. ordered[i] \in Range(leg)
        BY <3>2, <3>3
      <4>2. ordered[i] \in Range(days[d])
        BY <3>3
      <4> QED
        BY <2>1, <4>1, <4>2
    <3>5. i \in Nat
      BY PartsOfList DEF SitedLists
    <3> QED
      BY <3>4, <3>5
  <2>4. Apartness(later)
    <3> SUFFICES ASSUME NEW d \in 1..Len(later), NEW e \in 1..Len(later),
                        Range(later[d]) \cap Range(later[e]) # {}
                 PROVE  d = e
      BY DEF Apartness
    <3>1. CASE d \in 1..Len(days) /\ e \in 1..Len(days)
      BY <1>3, <2>1, <3>1 DEF Apartness
    <3>2. CASE d \in 1..Len(days) /\ e = Len(days) + 1
      BY <1>3, <2>3, <3>2
    <3>3. CASE d = Len(days) + 1 /\ e \in 1..Len(days)
      BY <1>3, <2>3, <3>3
    <3> QED
      BY <1>5, <3>1, <3>2, <3>3
  <2>5. ASSUME NEW d \in 1..Len(later), NEW i \in 1..Len(ordered), ordered[i] \in Range(later[d])
        PROVE  i <= reach
    <3>1. i \in Nat
      BY PartsOfList DEF SitedLists
    <3>2. CASE d \in 1..Len(days)
      <4>1. i <= before
        BY <1>3, <2>1, <2>5, <3>2
      <4> QED
        BY <3>1, <4>1
    <3>3. CASE d = Len(days) + 1
      <4>1. ordered[i] \in visited
        BY <1>3, <2>5, <3>3
      <4>2. ordered[i] \in taken
        <5>1. ordered[i] \in Range(ordered)
          BY PartsOfList DEF SitedLists
        <5> QED
          BY <1>2, <5>1
      <4>3. ordered[i] \in walked
        BY <1>6, <4>1, <4>2
      <4> QED
        BY <4>3
    <3> QED
      BY <1>5, <3>2, <3>3
  <2>6. ASSUME NEW i \in next.served PROVE OnSomeDay(meals, i, short, later)
    <3>1. CASE i \in plan.served
      <4>1. OnSomeDay(meals, i, plan.short, days)
        BY <2>1, <3>1
      <4>2. CASE meals[i].word \in plan.short
        BY <1>1, <4>2 DEF OnSomeDay
      <4>3. ASSUME NEW d \in 1..Len(days), Range(meals[i].pool) \cap Range(days[d]) # {}
            PROVE  OnSomeDay(meals, i, short, later)
        <5>1. d \in 1..Len(later) /\ later[d] = days[d]
          BY <1>3
        <5> QED
          BY <4>3, <5>1 DEF OnSomeDay
      <4> QED
        BY <4>1, <4>2, <4>3 DEF OnSomeDay
    <3>2. CASE i \in Range(picks)
      <4>1. PICK k \in 1..Len(picks) : picks[k] = i
        BY <3>2
      <4>2. Given(meals, i, short, eaten)
        BY <1>1, <4>1
      <4>3. CASE Range(meals[i].pool) \cap eaten # {}
        <5>1. Range(meals[i].pool) \cap visited # {}
          BY <1>6, <4>3
        <5>2. Len(days) + 1 \in 1..Len(later) /\ Range(later[Len(days) + 1]) = visited
          BY <1>3
        <5> QED
          BY <5>1, <5>2 DEF OnSomeDay
      <4> QED
        BY <4>2, <4>3 DEF Given, OnSomeDay
    <3> QED
      BY <1>4, <3>1, <3>2
  <2>7. ordered # <<>>
    <3>1. walked # {}
      <4>1. leg \in Lists /\ leg \in Seq(Ids) /\ Len(leg) \in Nat /\ Range(leg) = {leg[i] : i \in 1..Len(leg)}
        BY PartsOfList DEF SitedLists
      <4>2. Len(leg) # 0
        BY <4>1, EmptySeq
      <4>3. leg[1] \in Range(leg)
        BY <4>1, <4>2
      <4> QED
        BY <4>3
    <3> QED
      BY <3>1, NoneListed
  <2> QED
    BY <1>4, <2>4, <2>5, <2>6, <2>7 DEF TripHolds
<1>9. ASSUME SetsOut(plan, ordered) \/ (plan.days = <<>> /\ ordered[1] \in Range(leg)), ordered # <<>>
      PROVE  Len(later) > 0 /\ ordered[1] \in Range(later[1])
  <2>1. CASE days = <<>> /\ ordered[1] \in Range(leg)
    <3>1. Len(days) = 0 /\ later[1] = today
      BY <1>3, <2>1
    <3>2. ordered[1] \in visited
      BY <1>6, <2>1
    <3> QED
      BY <1>3, <3>1, <3>2
  <2>2. CASE SetsOut(plan, ordered)
    <3>1. Len(days) > 0 /\ ordered[1] \in Range(days[1])
      BY <1>9, <2>2 DEF SetsOut
    <3> QED
      BY <1>3, <3>1
  <2> QED
    BY <1>9, <2>1, <2>2
<1> QED
  BY <1>4, <1>7, <1>8, <1>9 DEF SetsOut

LEMMA DayTaken ==
    ASSUME NEW W, NEW meals \in MealsOf(W), NEW ordered \in SitedLists, NEW plan \in TripsOf(meals, ordered, W),
           NEW day \in Nat \ {0}, NEW perMeal \in Nat, perMeal <= Len(meals), NEW perDay \in Nat \ {0},
           perDay = PerDay - perMeal, NEW next, next = WithDay(plan, ordered, day, perMeal)
    PROVE  /\ next \in TripsOf(meals, ordered, W)
           /\ TripHolds(plan, meals, ordered, (day - 1) * perDay) => TripHolds(next, meals, ordered, day * perDay)
           /\ SetsOut(plan, ordered) \/ (day = 1 /\ plan.days = <<>>) => SetsOut(next, ordered)
<1> PICK leg : leg = Leg(ordered, day, perDay)
  OBVIOUS
<1> PICK picks : picks = Picks(Len(meals), day, perMeal)
  OBVIOUS
<1> PICK chosen : chosen = OneOfEach(leg, picks, [plan EXCEPT !.picked = <<>>])
  OBVIOUS
<1>1. plan \in PlansOf(meals, W) /\ plan.meals = meals /\ Range(ordered) \subseteq plan.taken
  BY DEF TripsOf, PlansOf
<1>2. next = IF leg = <<>> THEN plan
             ELSE [chosen EXCEPT !.days = Append(@, Chain(leg \o chosen.picked)),
                                 !.served = @ \cup Range(picks)]
  BY <1>1 DEF WithDay
<1>3. ordered \in Lists /\ Range(ordered) \subseteq Sited
  BY DEF SitedLists
<1> PICK before : before = (day - 1) * perDay
  OBVIOUS
<1> PICK reach : reach = day * perDay
  OBVIOUS
<1>4. before \in Nat /\ reach \in Nat /\ before <= reach
  <2>1. reach = before + perDay /\ before \in Nat
    OBVIOUS
  <2> QED
    BY <2>1
<1>5. /\ leg \in Lists /\ Range(leg) \subseteq Range(ordered)
      /\ \A i \in 1..Len(ordered) : ordered[i] \in Range(leg) => before < i /\ i <= reach
      /\ day = 1 /\ ordered # <<>> => leg # <<>> /\ ordered[1] \in Range(leg)
  BY <1>3, LegOfTrip
<1>6. leg \in SitedLists
  BY <1>3, <1>5 DEF SitedLists
<1>7. CASE leg = <<>>
  <2>1. next = plan
    BY <1>2, <1>7
  <2>2. ASSUME TripHolds(plan, meals, ordered, before) PROVE TripHolds(plan, meals, ordered, reach)
    <3>1. ASSUME NEW i \in 1..Len(ordered), i <= before PROVE i <= reach
      <4>1. Len(ordered) \in Nat
        BY <1>3, PartsOfList
      <4> QED
        BY <1>4, <3>1, <4>1
    <3> QED
      BY <2>2, <3>1 DEF TripHolds
  <2>3. day = 1 => SetsOut(plan, ordered)
    BY <1>5, <1>7 DEF SetsOut
  <2> QED
    BY <2>1, <2>2, <2>3
<1>8. CASE leg # <<>>
  <2>1. Len(meals) \in Nat
    BY LenProperties DEF MealsOf
  <2>2. picks \in Seq(1..Len(meals)) /\ Range(picks) = {picks[k] : k \in 1..Len(picks)}
    <3> PICK kinds : kinds = Len(meals)
      OBVIOUS
    <3>1. kinds \in Nat /\ perMeal \in Nat /\ perMeal <= kinds /\ day \in Nat \ {0} /\ picks = Picks(kinds, day, perMeal)
      BY <2>1
    <3>2. picks \in Seq(1..kinds)
      BY ONLY <3>1, PicksTyped
    <3>3. DOMAIN picks = 1..Len(picks)
      BY <3>2, LenProperties
    <3> QED
      BY <3>2, <3>3 DEF Range
  <2>3. Range(picks) \subseteq Nat
    <3>1. \A k \in 1..Len(picks) : picks[k] \in 1..Len(meals)
      BY <2>2, ElementOfSeq
    <3> QED
      BY <2>1, <2>2, <3>1
  <2>4. next = [chosen EXCEPT !.days = Append(@, Chain(leg \o chosen.picked)), !.served = @ \cup Range(picks)]
    BY <1>2, <1>8
  <2>5. Range(leg) \subseteq plan.taken
    BY <1>1, <1>5
  <2>6. DayOf(plan, next, leg, picks, meals, W)
    BY <1>1, <1>6, <1>8, <2>2, <2>4, <2>5, DayMade
  <2>7. /\ next \in TripsOf(meals, ordered, W)
        /\ TripHolds(plan, meals, ordered, before) => TripHolds(next, meals, ordered, reach)
        /\ SetsOut(plan, ordered) \/ (plan.days = <<>> /\ ordered[1] \in Range(leg)) => SetsOut(next, ordered)
    <3>1. \A i \in 1..Len(ordered) : ordered[i] \in Range(leg) => before < i /\ i <= reach
      BY <1>5
    <3>2. Range(leg) \subseteq Range(ordered)
      BY <1>5
    <3> QED
      BY ONLY <1>4, <1>6, <1>8, <2>2, <2>3, <2>6, <3>1, <3>2, DayAdded, meals \in MealsOf(W),
              ordered \in SitedLists, plan \in TripsOf(meals, ordered, W)
  <2>8. ASSUME day = 1, plan.days = <<>> PROVE SetsOut(next, ordered)
    <3>1. CASE ordered = <<>>
      BY <3>1 DEF SetsOut
    <3>2. CASE ordered # <<>>
      BY <1>5, <2>7, <2>8, <3>2
    <3> QED
      BY <3>1, <3>2
  <2> QED
    BY <2>7, <2>8
<1> QED
  BY <1>7, <1>8

PlannedBy(plan, left, ordered, days, perMeal) ==
    plan = [day \in 0..days |->
               IF day = 0 THEN [days |-> <<>>, meals |-> left, taken |-> Range(ordered),
                                short |-> {}, served |-> {}, picked |-> <<>>]
               ELSE WithDay(plan[day - 1], ordered, day, perMeal)]

PlansBy(left, ordered, days, perMeal) == CHOOSE plan : PlannedBy(plan, left, ordered, days, perMeal)

\* The plan after all the days.
LEMMA DaysTaken ==
    ASSUME NEW W, NEW meals \in MealsOf(W), NEW ordered \in SitedLists, NEW days \in Nat \ {0},
           NEW perMeal \in Nat, perMeal <= Len(meals), NEW perDay \in Nat \ {0}, perDay = PerDay - perMeal,
           NEW plan, plan = CHOOSE g : PlannedBy(g, meals, ordered, days, perMeal)
    PROVE  /\ plan[days] \in TripsOf(meals, ordered, W)
           /\ TripHolds(plan[days], meals, ordered, days * perDay) /\ SetsOut(plan[days], ordered)
<1> PICK X : X = TripsOf(meals, ordered, W)
  OBVIOUS
<1> PICK start : start = [days |-> <<>>, meals |-> meals, taken |-> Range(ordered),
                          short |-> {}, served |-> {}, picked |-> <<>>]
  OBVIOUS
<1>1. start \in X /\ start.days = <<>> /\ start.served = {} /\ Len(start.days) = 0
  <2>1. <<>> \in Seq(Lists) /\ Len(<<>>) = 0
    BY EmptySeq
  <2>2. <<>> \in Lists /\ Range(ordered) \in SUBSET Ids
    BY NoneListed DEF SitedLists, Sited
  <2>3. start \in PlansOf(meals, W)
    BY <2>1, <2>2 DEF PlansOf
  <2>4. start.days = <<>> /\ start.taken = Range(ordered) /\ start.served = {}
    OBVIOUS
  <2>5. \A d \in 1..Len(<<>>) : Range(start.days[d]) \subseteq start.taken
    BY <2>1
  <2> QED
    BY <2>1, <2>3, <2>4, <2>5 DEF TripsOf
<1> DEFINE step == [i \in 1..days |-> [p \in X |-> WithDay(p, ordered, i, perMeal)]]
<1>2. step \in [1..days -> [X -> X]]
  <2> SUFFICES ASSUME NEW i \in 1..days, NEW p \in X PROVE WithDay(p, ordered, i, perMeal) \in X
    OBVIOUS
  <2>1. i \in Nat \ {0}
    OBVIOUS
  <2> QED
    BY <2>1, DayTaken
<1>3. PICK f : f \in [0..days -> X] /\ f[0] = start /\ \A i \in 1..days : f[i] = step[i][f[i - 1]]
  <2> HIDE DEF step
  <2>1. days \in Nat
    OBVIOUS
  <2>2. \E f : Steps(f, days, X, start, step)
    BY ONLY <1>1, <1>2, <2>1, Iterated
  <2> QED
    BY <2>2 DEF Steps
<1>4. \A i \in 1..days : f[i - 1] \in X /\ f[i] = WithDay(f[i - 1], ordered, i, perMeal)
  <2> SUFFICES ASSUME NEW i \in 1..days PROVE f[i - 1] \in X /\ f[i] = WithDay(f[i - 1], ordered, i, perMeal)
    OBVIOUS
  <2>1. i - 1 \in 0..days
    OBVIOUS
  <2> PICK p \in X : p = f[i - 1]
    BY <1>3, <2>1
  <2>2. step[i][p] = WithDay(p, ordered, i, perMeal)
    OBVIOUS
  <2>3. f[i] = step[i][p]
    BY <1>3
  <2> HIDE DEF step
  <2> QED
    BY <2>2, <2>3
<1>5. ASSUME NEW i \in 1..days
      PROVE  /\ TripHolds(f[i - 1], meals, ordered, (i - 1) * perDay) => TripHolds(f[i], meals, ordered, i * perDay)
             /\ SetsOut(f[i - 1], ordered) \/ (i = 1 /\ f[i - 1].days = <<>>) => SetsOut(f[i], ordered)
  <2> PICK p \in X : p = f[i - 1]
    BY <1>4
  <2> PICK q : q = f[i]
    OBVIOUS
  <2>1. q = WithDay(p, ordered, i, perMeal) /\ i \in Nat \ {0} /\ p \in TripsOf(meals, ordered, W)
    BY <1>4
  <2>2. /\ TripHolds(p, meals, ordered, (i - 1) * perDay) => TripHolds(q, meals, ordered, i * perDay)
        /\ SetsOut(p, ordered) \/ (i = 1 /\ p.days = <<>>) => SetsOut(q, ordered)
    BY <2>1, DayTaken
  <2> QED
    BY <2>2
<1>6. ASSUME NEW k \in 0..days
      PROVE  TripHolds(f[k], meals, ordered, k * perDay) /\ (k > 0 => SetsOut(f[k], ordered))
  <2> DEFINE T == {i \in 0..days : /\ TripHolds(f[i], meals, ordered, i * perDay)
                                   /\ i > 0 => SetsOut(f[i], ordered)}
  <2>1. 0 \in T
    <3>1. TripHolds(start, meals, ordered, 0)
      BY <1>1 DEF TripHolds, Apartness
    <3>2. 0 * perDay = 0 /\ 0 \in 0..days
      OBVIOUS
    <3>3. f[0] = start
      BY ONLY <1>3
    <3>4. TripHolds(f[0], meals, ordered, 0 * perDay)
      BY ONLY <3>1, <3>2, <3>3
    <3> QED
      BY ONLY <3>2, <3>4
  <2>2. ASSUME NEW i \in 1..days, i - 1 \in T PROVE i \in T
    <3>1. TripHolds(f[i - 1], meals, ordered, (i - 1) * perDay)
      BY <2>2
    <3>2. SetsOut(f[i - 1], ordered) \/ (i = 1 /\ f[i - 1].days = <<>>)
      <4>1. CASE i = 1
        BY <1>1, <1>3, <4>1
      <4>2. CASE i # 1
        <5>1. i - 1 > 0
          BY <4>2
        <5> QED
          BY <2>2, <5>1
      <4> QED
        BY <4>1, <4>2
    <3>3. i \in 0..days
      OBVIOUS
    <3> QED
      BY <1>5, <3>1, <3>2, <3>3
  <2>3. 0..days \subseteq T
    <3>1. days \in Nat /\ \A i \in 1..days : i - 1 \in T => i \in T
      BY <2>2
    <3> HIDE DEF T
    <3> QED
      BY ONLY <2>1, <3>1, Inducts
  <2> QED
    BY <2>3
<1>7. PlannedBy(f, meals, ordered, days, perMeal)
  <2> HIDE DEF step
  <2>1. \A n \in 0..days : f[n] = IF n = 0 THEN start ELSE WithDay(f[n - 1], ordered, n, perMeal)
    BY <1>3, <1>4
  <2> QED
    BY <1>3, <2>1 DEF PlannedBy
<1>8. \A n \in 0..days : plan[n] = IF n = 0 THEN start ELSE WithDay(plan[n - 1], ordered, n, perMeal)
  <2>1. PlannedBy(plan, meals, ordered, days, perMeal)
    BY <1>7
  <2> QED
    BY ONLY <2>1, start = [days |-> <<>>, meals |-> meals, taken |-> Range(ordered),
                           short |-> {}, served |-> {}, picked |-> <<>>]
            DEF PlannedBy
<1>9. \A n \in 0..days : plan[n] = f[n]
  <2>1. plan[0] = f[0]
    <3>1. 0 \in 0..days
      OBVIOUS
    <3> QED
      BY ONLY <1>3, <1>8, <3>1
  <2>2. \A i \in 1..days : plan[i - 1] = f[i - 1] => plan[i] = f[i]
    <3> SUFFICES ASSUME NEW i \in 1..days, plan[i - 1] = f[i - 1] PROVE plan[i] = f[i]
      OBVIOUS
    <3>1. i \in 0..days /\ i # 0
      OBVIOUS
    <3>2. plan[i] = WithDay(plan[i - 1], ordered, i, perMeal)
      BY <1>8, <3>1
    <3> QED
      BY <1>4, <3>2
  <2>3. days \in Nat
    OBVIOUS
  <2>4. KeepsPace(plan, f, days)
    BY ONLY <2>1, <2>2 DEF KeepsPace
  <2>5. AgreeUpTo(plan, f, days)
    BY ONLY <2>3, <2>4, IteratedAlike
  <2> QED
    BY ONLY <2>5 DEF AgreeUpTo
<1>10. days \in 0..days /\ days > 0
  OBVIOUS
<1>11. plan[days] = f[days] /\ f[days] \in X
  BY <1>3, <1>9, <1>10
<1> QED
  BY <1>6, <1>10, <1>11

\* No place is on the days of a plan twice, and each kind of meal is on one of them
\* or the plan says that it is short of it.
LEMMA Assembled ==
    ASSUME NEW W, NEW meals \in MealsOf(W), NEW sights \in SitedLists, NEW days \in Nat \ {0},
           NEW result, result = Assemble(sights, meals, days)
    PROVE  /\ result.days \in Seq(Lists) /\ result.short \subseteq W /\ Apartness(result.days)
           /\ \A d \in 1..Len(result.days) : Range(result.days[d]) \subseteq Range(sights) \cup Pooled(meals)
           /\ result.days # <<>> => \A i \in 1..Len(meals) : OnSomeDay(meals, i, result.short, result.days)
<1> DEFINE none == sights = <<>> /\ meals # <<>>
           looked == IF none THEN meals[1].pool ELSE sights
           rest == IF none THEN Tail(meals) ELSE meals
           each == IF Len(rest) < PerDay - 1 THEN Len(rest) ELSE PerDay - 1
           path == Chain(Take(looked, days * (PerDay - each)))
<1>17. result = [days |-> PlansBy(rest, path, days, each)[days].days,
                short |-> IF path = <<>> THEN {} ELSE Short(PlansBy(rest, path, days, each)[days])]
  BY DEF Assemble, PlannedBy, PlansBy
<1> PICK bare : bare = (sights = <<>> /\ meals # <<>>)
  OBVIOUS
<1> PICK frame : frame = IF bare THEN meals[1].pool ELSE sights
  OBVIOUS
<1> PICK left : left = IF bare THEN Tail(meals) ELSE meals
  OBVIOUS
<1> PICK perMeal : perMeal = IF Len(left) < PerDay - 1 THEN Len(left) ELSE PerDay - 1
  OBVIOUS
<1>19. frame = looked /\ left = rest
  BY ONLY bare = (sights = <<>> /\ meals # <<>>), frame = IF bare THEN meals[1].pool ELSE sights,
          left = IF bare THEN Tail(meals) ELSE meals
<1>20. perMeal = each
  <2> HIDE DEF rest
  <2> QED
    BY ONLY <1>19, perMeal = IF Len(left) < PerDay - 1 THEN Len(left) ELSE PerDay - 1
<1> PICK perDay : perDay = PerDay - perMeal
  OBVIOUS
<1> PICK first : first = Take(frame, days * perDay)
  OBVIOUS
<1> PICK ordered : ordered = Chain(first)
  OBVIOUS
<1> PICK plans : plans = PlansBy(left, ordered, days, perMeal)
  OBVIOUS
<1> PICK plan : plan = plans[days]
  OBVIOUS
<1>18. path = ordered
  <2> HIDE DEF looked, each
  <2> QED
    BY ONLY path = Chain(Take(looked, days * (PerDay - each))), <1>19, <1>20,
            perDay = PerDay - perMeal, first = Take(frame, days * perDay), ordered = Chain(first)
<1>1. result = [days |-> plan.days, short |-> IF ordered = <<>> THEN {} ELSE Short(plan)]
  <2> HIDE DEF path, rest, each
  <2> QED
    BY ONLY <1>17, <1>18, <1>19, <1>20, plans = PlansBy(left, ordered, days, perMeal),
            plan = plans[days]
<1> HIDE DEF none, looked, rest, each, path
<1>2. meals \in Seq([word : W, pool : SitedLists]) /\ Len(meals) \in Nat
  BY LenProperties DEF MealsOf
<1>3. bare => /\ meals[1] \in [word : W, pool : SitedLists] /\ 1 \in 1..Len(meals)
              /\ Tail(meals) \in MealsOf(W) /\ Len(Tail(meals)) = Len(meals) - 1
              /\ \A i \in 1..Len(Tail(meals)) : Tail(meals)[i] = meals[i + 1]
  <2> SUFFICES ASSUME meals # <<>>
               PROVE  /\ meals[1] \in [word : W, pool : SitedLists] /\ 1 \in 1..Len(meals)
                      /\ Tail(meals) \in MealsOf(W) /\ Len(Tail(meals)) = Len(meals) - 1
                      /\ \A i \in 1..Len(Tail(meals)) : Tail(meals)[i] = meals[i + 1]
    OBVIOUS
  <2> PICK M : M = [word : W, pool : SitedLists]
    OBVIOUS
  <2>1. meals \in Seq(M) /\ Len(meals) # 0
    BY <1>2, EmptySeq
  <2>2. 1 \in 1..Len(meals)
    BY <1>2, <2>1
  <2>3. meals[1] \in M
    BY <2>1, <2>2, ElementOfSeq
  <2>4. /\ Tail(meals) \in Seq(M) /\ Len(Tail(meals)) = Len(meals) - 1
        /\ \A i \in 1..Len(Tail(meals)) : Tail(meals)[i] = meals[i + 1]
    BY <2>1, HeadTailProperties
  <2> QED
    BY <2>2, <2>3, <2>4 DEF MealsOf
<1>4. left \in MealsOf(W) /\ frame \in SitedLists
  BY <1>3
<1>5. Len(left) \in Nat /\ DOMAIN left = 1..Len(left) /\ \A i \in 1..Len(left) : left[i].word \in W
  <2> PICK M : M = [word : W, pool : SitedLists]
    OBVIOUS
  <2>1. left \in Seq(M) /\ \A m \in M : m.word \in W
    BY <1>4 DEF MealsOf
  <2> QED
    BY <2>1, LenProperties, ElementOfSeq
<1>6. perMeal \in Nat /\ perMeal <= Len(left) /\ perDay \in Nat \ {0}
  BY <1>5, ItineraryAssumption
<1>7. ordered \in SitedLists /\ Range(ordered) \subseteq Range(frame)
  <2>1. days * perDay \in Nat
    BY <1>6
  <2>2. frame \in Lists /\ Range(frame) \subseteq Sited
    BY <1>4 DEF SitedLists
  <2>3. first \in Lists /\ Range(first) \subseteq Range(frame)
    BY <2>1, <2>2, TakeList
  <2>4. first \in SitedLists
    BY <2>2, <2>3 DEF SitedLists
  <2>5. ordered \in SitedLists /\ Range(ordered) = Range(first)
    BY <2>4, ChainVisits
  <2> QED
    BY <2>3, <2>5
<1>8. /\ plan \in TripsOf(left, ordered, W)
      /\ TripHolds(plan, left, ordered, days * perDay) /\ SetsOut(plan, ordered)
  BY ONLY <1>4, <1>6, <1>7, DaysTaken, days \in Nat \ {0}, perDay = PerDay - perMeal,
          plans = PlansBy(left, ordered, days, perMeal), plan = plans[days] DEF PlansBy
<1>9. /\ plan.days \in Seq(Lists) /\ plan.meals = left /\ plan.short \in SUBSET W
      /\ Apartness(plan.days) /\ (ordered = <<>> => plan.days = <<>>)
      /\ \A i \in plan.served : OnSomeDay(left, i, plan.short, plan.days)
  BY <1>8 DEF TripsOf, PlansOf, TripHolds
<1>10. Short(plan) = plan.short \cup {left[i].word : i \in (1..Len(left)) \ plan.served}
  <2>1. plan.meals = left /\ DOMAIN left = 1..Len(left)
    BY <1>5, <1>9
  <2> QED
    BY ONLY <2>1 DEF Short
<1>11. Short(plan) \subseteq W
  <2>1. plan.short \subseteq W
    BY ONLY <1>9
  <2>2. {left[i].word : i \in (1..Len(left)) \ plan.served} \subseteq W
    BY ONLY <1>5
  <2> QED
    BY ONLY <1>10, <2>1, <2>2
<1>12. result.days = plan.days /\ result.short \subseteq W /\ (ordered # <<>> => result.short = Short(plan))
  BY <1>1, <1>11
<1>13. ASSUME ordered # <<>>, NEW i \in 1..Len(left) PROVE OnSomeDay(left, i, Short(plan), plan.days)
  <2>1. CASE i \in plan.served
    <3>1. OnSomeDay(left, i, plan.short, plan.days)
      BY <1>9, <2>1
    <3>2. plan.short \subseteq Short(plan)
      BY <1>10
    <3> QED
      BY ONLY <3>1, <3>2 DEF OnSomeDay
  <2>2. CASE i \notin plan.served
    BY <1>10, <1>13, <2>2 DEF OnSomeDay
  <2> QED
    BY <2>1, <2>2
<1>14. ASSUME ordered # <<>>, NEW i \in 1..Len(meals) PROVE OnSomeDay(meals, i, Short(plan), plan.days)
  <2>1. CASE ~bare
    BY <1>13, <1>14, <2>1
  <2>2. CASE bare /\ i = 1
    <3>1. Len(plan.days) > 0 /\ ordered[1] \in Range(plan.days[1])
      BY <1>8, <1>14 DEF SetsOut
    <3>2. Len(plan.days) \in Nat
      BY <1>9, LenProperties
    <3>3. ordered[1] \in Range(frame)
      <4>1. ordered \in Lists /\ ordered \in Seq(Ids) /\ Len(ordered) \in Nat
            /\ Range(ordered) = {ordered[k] : k \in 1..Len(ordered)}
        BY <1>7, PartsOfList DEF SitedLists
      <4>2. Len(ordered) # 0
        BY <1>14, <4>1, EmptySeq
      <4>3. ordered[1] \in Range(ordered)
        BY <4>1, <4>2
      <4> QED
        BY <1>7, <4>3
    <3>4. frame = meals[1].pool
      BY <2>2
    <3>5. 1 \in 1..Len(plan.days)
      BY ONLY <3>1, <3>2
    <3>6. ordered[1] \in Range(meals[1].pool) /\ ordered[1] \in Range(plan.days[1])
      BY ONLY <3>1, <3>3, <3>4
    <3> QED
      BY ONLY <2>2, <3>5, <3>6 DEF OnSomeDay
  <2>3. CASE bare /\ i # 1
    <3>1. left = Tail(meals)
      BY <2>3
    <3>2. i - 1 \in 1..Len(left) /\ (i - 1) + 1 = i
      BY <1>2, <1>3, <2>3, <3>1
    <3>3. left[i - 1] = meals[i]
      BY <1>3, <2>3, <3>1, <3>2
    <3>4. OnSomeDay(left, i - 1, Short(plan), plan.days)
      BY <1>13, <1>14, <3>2
    <3> QED
      BY ONLY <3>3, <3>4 DEF OnSomeDay
  <2> QED
    BY <2>1, <2>2, <2>3
<1>15. result.days # <<>> => ordered # <<>>
  BY <1>9, <1>12
<1>16. \A d \in 1..Len(plan.days) : Range(plan.days[d]) \subseteq Range(sights) \cup Pooled(meals)
  <2>1. Range(frame) \subseteq Range(sights) \cup Pooled(meals)
    <3>1. bare => Range(meals[1].pool) \subseteq Pooled(meals)
      BY <1>3 DEF Pooled
    <3> QED
      BY <3>1
  <2>2. Pooled(left) \subseteq Pooled(meals)
    <3> SUFFICES ASSUME bare PROVE Pooled(left) \subseteq Pooled(meals)
      OBVIOUS
    <3>1. \A i \in 1..Len(left) : left[i] = meals[i + 1] /\ i + 1 \in 1..Len(meals)
      BY <1>2, <1>3
    <3> QED
      BY ONLY <3>1 DEF Pooled
  <2>3. plan.taken \subseteq Range(ordered) \cup Pooled(left)
    BY <1>8 DEF TripsOf
  <2>4. \A d \in 1..Len(plan.days) : Range(plan.days[d]) \subseteq plan.taken
    BY <1>8 DEF TripsOf
  <2> QED
    BY ONLY <1>7, <2>1, <2>2, <2>3, <2>4
<1>21. result.days \in Seq(Lists) /\ result.short \subseteq W /\ Apartness(result.days)
  BY ONLY <1>9, <1>12
<1>22. \A d \in 1..Len(result.days) : Range(result.days[d]) \subseteq Range(sights) \cup Pooled(meals)
  BY ONLY <1>12, <1>16
<1>23. ASSUME result.days # <<>>, NEW i \in 1..Len(meals) PROVE OnSomeDay(meals, i, result.short, result.days)
  <2>1. ordered # <<>>
    BY ONLY <1>15, <1>23
  <2>2. OnSomeDay(meals, i, Short(plan), plan.days)
    BY ONLY <1>14, <2>1, i \in 1..Len(meals)
  <2>3. result.short = Short(plan) /\ result.days = plan.days
    BY ONLY <1>12, <2>1
  <2> QED
    BY ONLY <2>2, <2>3
<1> QED
  BY ONLY <1>21, <1>22, <1>23

\* Words that ask for the same kind of meal have one pool.
LEMMA SlotKeys ==
    ASSUME NEW word \in MealWords, NEW other \in MealWords, SlotKey(word) = SlotKey(other)
    PROVE  Eats[word] = Eats[other] /\ Dish[word] = Dish[other]
<1>1. Eats[word] \in {"food", "cafe"} /\ (Eats[word] # "food" => Dish[word] = None)
  BY SearchAssumption DEF MealWords
<1>2. Eats[other] \in {"food", "cafe"} /\ (Eats[other] # "food" => Dish[other] = None)
  BY SearchAssumption DEF MealWords
<1>3. /\ Eats[word] = Eats[other]
      /\ (IF Eats[word] = "food" THEN Dish[word] ELSE None) = (IF Eats[other] = "food" THEN Dish[other] ELSE None)
  <2>1. SlotKey(word)[1] = SlotKey(other)[1] /\ SlotKey(word)[2] = SlotKey(other)[2]
    OBVIOUS
  <2> QED
    BY ONLY <2>1 DEF SlotKey
<1> QED
  BY ONLY <1>1, <1>2, <1>3

HasSlot(slots, word) == \E n \in 1..Len(slots) : SlotKey(slots[n]) = SlotKey(word)

\* Each word has a slot, and each slot is one of the words.
LEMMA SlotsFirst ==
    ASSUME NEW X, NEW eating \in Seq(X), NEW slots, slots = Slots(eating)
    PROVE  slots \in Seq(X) /\ \A i \in 1..Len(eating) : HasSlot(slots, eating[i])
<1>1. Len(eating) \in Nat /\ DOMAIN eating = 1..Len(eating) /\ \A i \in 1..Len(eating) : eating[i] \in X
  BY LenProperties, ElementOfSeq
<1>2. PICK n : n = Len(eating)
  OBVIOUS
<1>3. PICK class : class = [i \in 1..n |-> SlotKey(eating[i])]
  OBVIOUS
<1>4. PICK I : I = FirstOfClass(class, n)
  OBVIOUS
<1>5. I = {i \in DOMAIN eating : \A j \in 1..(i - 1) : SlotKey(eating[j]) # SlotKey(eating[i])}
  <2>1. \A i \in 1..n : \A j \in 1..(i - 1) : j \in 1..n
    BY <1>1, <1>2
  <2>2. DOMAIN eating = 1..n
    BY <1>1, <1>2
  <2> QED
    BY ONLY <1>3, <1>4, <2>1, <2>2 DEF FirstOfClass
<1>6. I \in SUBSET Int /\ I \subseteq 1..n
  BY <1>1, <1>2, <1>4 DEF FirstOfClass
<1>7. IsFiniteSet(I)
  <2>1. IsFiniteSet(1..n)
    BY <1>1, <1>2, FS_Interval
  <2> QED
    BY ONLY <1>6, <2>1, FS_Subset
<1>8. PICK first : first = InOrder(I)
  OBVIOUS
<1>9. ListOf(first, I)
  <2>1. PICK key : key = [i \in I |-> i]
    OBVIOUS
  <2>2. \A i \in I : key[i] \in Int
    BY <1>6, <2>1
  <2> QED
    BY <1>6, <1>7, <1>8, <2>1, <2>2, OrderedLists DEF InOrder
<1>10. /\ Len(first) \in Nat /\ DOMAIN first = 1..Len(first) /\ \A m \in 1..Len(first) : first[m] \in I
       /\ \A i \in I : \E m \in 1..Len(first) : first[m] = i
  <2>1. first \in Seq(I) /\ \A i \in I : \E m \in 1..Len(first) : first[m] = i
    BY <1>9 DEF ListOf
  <2> QED
    BY <2>1, LenProperties, ElementOfSeq
<1>11. slots = [m \in 1..Len(first) |-> eating[first[m]]]
  BY <1>5, <1>8, <1>10 DEF Slots
<1>12. slots \in Seq(X) /\ Len(slots) = Len(first)
  <2>1. slots \in [1..Len(first) -> X]
    BY <1>1, <1>2, <1>6, <1>10, <1>11
  <2>2. slots \in Seq(X)
    BY <1>10, <2>1, SeqDef
  <2>3. 1..Len(slots) = 1..Len(first) /\ Len(slots) \in Nat
    BY <2>1, <2>2, LenProperties
  <2> QED
    BY ONLY <1>10, <2>2, <2>3, SameEnd
<1>13. ASSUME NEW i \in 1..Len(eating) PROVE HasSlot(slots, eating[i])
  <2>1. \E k \in FirstOfClass(class, n) : class[k] = class[i]
    BY <1>1, <1>2, <1>13, ClassesFirst
  <2>2. PICK k \in I : class[k] = class[i]
    BY <1>4, <2>1
  <2>3. SlotKey(eating[k]) = SlotKey(eating[i])
    BY <1>2, <1>3, <1>6, <1>13, <2>2
  <2>4. PICK m \in 1..Len(first) : first[m] = k
    BY <1>10
  <2>5. m \in 1..Len(slots) /\ slots[m] = eating[k]
    BY <1>11, <1>12, <2>4
  <2> QED
    BY <2>3, <2>5 DEF HasSlot
<1> QED
  BY <1>12, <1>13

\* What the pool of a word holds serves it, and lies in the region.
LEMMA PoolServes ==
    ASSUME NEW word \in MealWords, NEW scope, NEW crowd \in Crowds,
           NEW ctx, ctx.shown \in SUBSET Ids, NEW pool, pool = MealPool(word, scope, crowd, ctx)
    PROVE  pool \in SitedLists /\ Range(pool) \subseteq InScope(scope) /\ \A s \in Range(pool) : Serves(s, word)
<1>1. Eats[word] \in {"food", "cafe"} /\ (Eats[word] # "food" => Dish[word] = None)
  BY SearchAssumption DEF MealWords
<1> PICK kind : kind = Eats[word]
  OBVIOUS
<1> PICK dish : dish = IF Eats[word] = "food" /\ Dish[word] # None THEN {Dish[word]} ELSE {}
  OBVIOUS
<1> PICK asked : asked = [Query EXCEPT !.scope = scope, !.title = dish]
  OBVIOUS
<1> PICK q : q = [asked EXCEPT !.pool = kind, !.theme = kind, !.codes = {}]
  OBVIOUS
<1>2. q = AskedFor(kind, kind, {}, scope, dish, None, FALSE, {})
  BY ONLY asked = [Query EXCEPT !.scope = scope, !.title = dish],
          q = [asked EXCEPT !.pool = kind, !.theme = kind, !.codes = {}] DEF AskedFor, Query
<1> PICK some \in SUBSET Ids : some = ctx.shown
  OBVIOUS
<1> PICK rows : rows = SearchCandidates(q, crowd, FALSE, some)
  OBVIOUS
<1>3. rows \in Lists /\ \A s \in Range(rows) : InPool(kind, s) /\ dish \subseteq Title[s] /\ s \in InScope(scope)
  <2>1. kind \in Themes
    BY <1>1 DEF Themes
  <2>2. Answers(rows, Meets(kind, {}, scope, dish, FALSE, {}, some), crowd, FALSE)
    BY ONLY <1>2, <2>1, SearchAnswers, crowd \in Crowds, some \in SUBSET Ids,
            rows = SearchCandidates(q, crowd, FALSE, some)
  <2> QED
    BY <2>2 DEF Answers, Meets, InScope
<1>4. rows = SearchFood(asked, kind, crowd, FALSE, ctx.shown)
  <2>1. kind = IF kind = "cafe" THEN "cafe" ELSE "food"
    BY <1>1
  <2> QED
    BY ONLY <2>1, q = [asked EXCEPT !.pool = kind, !.theme = kind, !.codes = {}],
            rows = SearchCandidates(q, crowd, FALSE, some), some = ctx.shown DEF SearchFood
<1>5. pool = WithoutOutliers(Placed(rows))
  BY ONLY <1>4, pool = MealPool(word, scope, crowd, ctx), kind = Eats[word],
          dish = IF Eats[word] = "food" /\ Dish[word] # None THEN {Dish[word]} ELSE {},
          asked = [Query EXCEPT !.scope = scope, !.title = dish] DEF MealPool
<1>6. pool \in SitedLists /\ Range(pool) \subseteq Range(rows)
  BY <1>3, <1>5, PlacedRows
<1>7. ASSUME NEW s \in Range(pool) PROVE Serves(s, word) /\ s \in InScope(scope)
  <2>1. InPool(kind, s) /\ dish \subseteq Title[s] /\ s \in InScope(scope)
    BY <1>3, <1>6
  <2>2. In(Eats[word], s)
    BY <1>1, <2>1 DEF InPool
  <2>3. Dish[word] # None => Dish[word] \in Title[s]
    BY <1>1, <2>1
  <2> QED
    BY <2>1, <2>2, <2>3 DEF Serves
<1> QED
  BY <1>6, <1>7

LEMMA RegionSearched ==
    ASSUME NEW scope, NEW codes, NEW some \in SUBSET Ids, NEW q,
           q = [Query EXCEPT !.scope = scope, !.codes = codes], NEW preference \in Crowds
    PROVE  /\ SearchCandidates(q, preference, FALSE, some) \in Lists
           /\ Range(SearchCandidates(q, preference, FALSE, some)) \subseteq InScope(scope)
<1>1. q = AskedFor("travel", "spot", codes, scope, {}, None, FALSE, {})
  BY ONLY q = [Query EXCEPT !.scope = scope, !.codes = codes] DEF Query, AskedFor
<1>2. "spot" \in Themes
  BY DEF Themes
<1> PICK found : found = SearchCandidates(q, preference, FALSE, some)
  OBVIOUS
<1>3. Answers(found, Meets("travel", codes, scope, {}, FALSE, {}, some), preference, FALSE)
  BY ONLY <1>1, <1>2, SearchAnswers, some \in SUBSET Ids, found = SearchCandidates(q, preference, FALSE, some),
          preference \in Crowds
<1> QED
  BY <1>3 DEF Answers, Meets, InScope

LEMMA SightsListed ==
    ASSUME NEW call, NEW scope, NEW usable, NEW ctx, ctx.shown \in SUBSET Ids,
           NEW sights, sights = Sights(call, scope, usable, ctx)
    PROVE  sights \in SitedLists /\ Range(sights) \subseteq InScope(scope)
<1> PICK codes : codes = ResolveCodes(usable)
  OBVIOUS
<1> PICK crowd : crowd = CrowdOf(call)
  OBVIOUS
<1> PICK q : q = [Query EXCEPT !.scope = scope, !.codes = codes]
  OBVIOUS
<1>1. crowd \in Crowds
  BY DEF CrowdOf, Crowds
<1> PICK some \in SUBSET Ids : some = ctx.shown
  OBVIOUS
<1> PICK rows : rows = SearchCandidates(q, crowd, FALSE, some)
  OBVIOUS
<1>2. rows \in Lists /\ Range(rows) \subseteq InScope(scope)
  BY ONLY <1>1, RegionSearched, some \in SUBSET Ids, q = [Query EXCEPT !.scope = scope, !.codes = codes],
          rows = SearchCandidates(q, crowd, FALSE, some)
<1>3. sights = WithoutOutliers(Placed(rows))
  BY ONLY sights = Sights(call, scope, usable, ctx), codes = ResolveCodes(usable), crowd = CrowdOf(call),
          q = [Query EXCEPT !.scope = scope, !.codes = codes],
          rows = SearchCandidates(q, crowd, FALSE, some), some = ctx.shown DEF Sights
<1>4. sights \in SitedLists /\ Range(sights) \subseteq Range(rows)
  BY <1>2, <1>3, PlacedRows
<1> QED
  BY <1>2, <1>4

HasPool(pools, word) == \E n \in 1..Len(pools) : SlotKey(pools[n].word) = SlotKey(word)

ForEach(words, pools) == \A word \in words : HasPool(pools, word)

Serving(meals) == \A i \in 1..Len(meals) : \A s \in Range(meals[i].pool) : Serves(s, meals[i].word)

\* Each word for a meal has a pool of what serves it.
LEMMA PoolsMade ==
    ASSUME NEW call, NEW X, call.words \in Seq(X), NEW scope, NEW ctx, ctx.shown \in SUBSET Ids,
           NEW W, W = Range(call.words) \cap MealWords, NEW pools, pools = Pools(call, scope, ctx)
    PROVE  /\ pools \in MealsOf(W) /\ Serving(pools) /\ ForEach(W, pools)
           /\ Pooled(pools) \subseteq InScope(scope)
<1> PICK words : words = call.words
  OBVIOUS
<1> PICK crowd : crowd = CrowdOf(call)
  OBVIOUS
<1> PICK R : R = Range(words)
  OBVIOUS
<1> PICK eating : eating = Only(words, MealWords)
  OBVIOUS
<1> PICK slots : slots = Slots(eating)
  OBVIOUS
<1>1. words \in Seq(R) /\ Len(words) \in Nat /\ DOMAIN words = 1..Len(words)
  <2>1. words \in Seq(X) /\ words \in [1..Len(words) -> X] /\ Len(words) \in Nat /\ DOMAIN words = 1..Len(words)
    BY LenProperties
  <2>2. words \in [1..Len(words) -> R]
    BY <2>1 DEF Range
  <2> QED
    BY <2>1, <2>2, SeqDef
<1>2. eating \in Seq(W) /\ InPlaces(eating, words, MealWords)
  <2>1. W = R \cap MealWords
    OBVIOUS
  <2> QED
    BY <1>1, <2>1, OnlyLists
<1>3. Len(eating) \in Nat /\ \A i \in 1..Len(eating) : eating[i] \in W
  BY <1>2, LenProperties, ElementOfSeq
<1>4. ASSUME NEW word \in W PROVE \E i \in 1..Len(eating) : eating[i] = word
  <2>1. PICK at : /\ ListOf(at, HeldAt(words, MealWords)) /\ Len(eating) = Len(at)
                  /\ \A n \in 1..Len(at) : eating[n] = words[at[n]]
    BY <1>2 DEF InPlaces
  <2>2. PICK k \in 1..Len(words) : words[k] = word
    BY <1>1 DEF Range
  <2>3. k \in HeldAt(words, MealWords)
    BY <2>2 DEF HeldAt
  <2>4. PICK n \in 1..Len(at) : at[n] = k
    BY <2>1, <2>3 DEF ListOf
  <2> QED
    BY <2>1, <2>2, <2>4
<1>5. slots \in Seq(W) /\ \A i \in 1..Len(eating) : HasSlot(slots, eating[i])
  BY <1>2, SlotsFirst
<1>6. Len(slots) \in Nat /\ DOMAIN slots = 1..Len(slots) /\ \A n \in 1..Len(slots) : slots[n] \in W
  BY <1>5, LenProperties, ElementOfSeq
<1>7. pools = [n \in 1..Len(slots) |-> [word |-> slots[n], pool |-> MealPool(slots[n], scope, crowd, ctx)]]
  BY ONLY <1>6, pools = Pools(call, scope, ctx), words = call.words, crowd = CrowdOf(call),
          eating = Only(words, MealWords), slots = Slots(eating) DEF Pools
<1>8. ASSUME NEW n \in 1..Len(slots)
      PROVE  /\ pools[n] \in [word : W, pool : SitedLists]
             /\ pools[n].word = slots[n] /\ \A s \in Range(pools[n].pool) : Serves(s, slots[n])
             /\ Range(pools[n].pool) \subseteq InScope(scope)
  <2> PICK pool : pool = MealPool(slots[n], scope, crowd, ctx)
    OBVIOUS
  <2>1. slots[n] \in W /\ slots[n] \in MealWords
    BY <1>6
  <2>2. crowd \in Crowds
    BY DEF CrowdOf, Crowds
  <2>3. pool \in SitedLists /\ Range(pool) \subseteq InScope(scope) /\ \A s \in Range(pool) : Serves(s, slots[n])
    BY <2>1, <2>2, PoolServes
  <2>4. pools[n] = [word |-> slots[n], pool |-> pool]
    BY <1>7
  <2> QED
    BY <2>1, <2>3, <2>4
<1>9. pools \in MealsOf(W) /\ Len(pools) = Len(slots)
  <2> PICK M : M = [word : W, pool : SitedLists]
    OBVIOUS
  <2>1. \A n \in 1..Len(slots) : pools[n] \in M
    BY <1>8
  <2>2. pools \in [1..Len(slots) -> M]
    BY ONLY <1>7, <2>1
  <2>3. pools \in Seq(M)
    BY ONLY <1>6, <2>2, SeqDef
  <2>4. 1..Len(pools) = 1..Len(slots) /\ Len(pools) \in Nat
    BY <2>2, <2>3, LenProperties
  <2>5. Len(pools) = Len(slots)
    BY ONLY <1>6, <2>4, SameEnd
  <2> QED
    BY <2>3, <2>5 DEF MealsOf
<1>10. Serving(pools)
  BY <1>8, <1>9 DEF Serving
<1>11. ASSUME NEW word \in W PROVE HasPool(pools, word)
  <2>1. PICK i \in 1..Len(eating) : eating[i] = word
    BY <1>4
  <2>2. HasSlot(slots, word)
    BY <1>5, <2>1
  <2>3. PICK n \in 1..Len(slots) : SlotKey(slots[n]) = SlotKey(word)
    BY <2>2 DEF HasSlot
  <2> QED
    BY <1>8, <1>9, <2>3 DEF HasPool
<1>12. Pooled(pools) \subseteq InScope(scope)
  <2>1. \A n \in 1..Len(pools) : Range(pools[n].pool) \subseteq InScope(scope)
    BY <1>8, <1>9
  <2> QED
    BY ONLY <2>1 DEF Pooled
<1> QED
  BY <1>9, <1>10, <1>11, <1>12 DEF ForEach

Leaves(meals, pools) == \A n \in 1..Len(pools) : pools[n].pool = <<>> \/ \E i \in 1..Len(meals) : meals[i] = pools[n]

\* A pool that holds something is left.
LEMMA PoolsLeft ==
    ASSUME NEW W, NEW pools \in MealsOf(W), NEW full, full = {p \in Range(pools) : p.pool # <<>>},
           NEW meals, meals = Only(pools, full)
    PROVE  meals \in MealsOf(W) /\ Leaves(meals, pools) /\ Pooled(meals) \subseteq Pooled(pools)
<1> PICK M : M = [word : W, pool : SitedLists]
  OBVIOUS
<1>1. pools \in Seq(M)
  BY DEF MealsOf
<1>2. meals \in Seq(M \cap full) /\ InPlaces(meals, pools, full)
  BY <1>1, OnlyLists
<1>3. meals \in MealsOf(W)
  <2>1. M \cap full \subseteq M
    OBVIOUS
  <2>2. meals \in Seq(M)
    BY ONLY <1>2, <2>1, SeqMonotonic
  <2> QED
    BY <2>2 DEF MealsOf
<1>4. DOMAIN pools = 1..Len(pools)
  BY <1>1, LenProperties
<1>5. ASSUME NEW n \in 1..Len(pools), pools[n].pool # <<>>
      PROVE  \E i \in 1..Len(meals) : meals[i] = pools[n]
  <2>1. PICK at : /\ ListOf(at, HeldAt(pools, full)) /\ Len(meals) = Len(at)
                  /\ \A i \in 1..Len(at) : meals[i] = pools[at[i]]
    BY <1>2 DEF InPlaces
  <2>2. pools[n] \in full
    BY <1>4, <1>5 DEF Range
  <2>3. n \in HeldAt(pools, full)
    BY <2>2 DEF HeldAt
  <2>4. PICK i \in 1..Len(at) : at[i] = n
    BY <2>1, <2>3 DEF ListOf
  <2> QED
    BY <2>1, <2>4
<1>6. Pooled(meals) \subseteq Pooled(pools)
  <2>1. PICK at : /\ ListOf(at, HeldAt(pools, full)) /\ Len(meals) = Len(at)
                  /\ \A i \in 1..Len(at) : meals[i] = pools[at[i]]
    BY <1>2 DEF InPlaces
  <2>2. \A i \in 1..Len(at) : at[i] \in 1..Len(pools)
    <3>1. at \in Seq(HeldAt(pools, full))
      BY <2>1 DEF ListOf
    <3>2. \A i \in 1..Len(at) : at[i] \in HeldAt(pools, full)
      BY <3>1, ElementOfSeq
    <3> QED
      BY <3>2 DEF HeldAt
  <2> QED
    BY ONLY <2>1, <2>2 DEF Pooled
<1> QED
  BY <1>3, <1>5, <1>6 DEF Leaves

LEMMA PlanHonors ==
    ASSUME NEW words, NEW W, W = words \cap MealWords, NEW pools \in MealsOf(W), Serving(pools),
           ForEach(W, pools), NEW full, full = {p \in Range(pools) : p.pool # <<>>},
           NEW sights \in SitedLists, NEW days \in Nat \ {0},
           NEW plan, plan = Assemble(sights, Only(pools, full), days), plan.days # <<>>,
           NEW fact, fact.days = plan.days, fact.short = plan.short,
           \A n \in 1..Len(pools) : pools[n].pool = <<>> => pools[n].word \in fact.missing
    PROVE  Honored(words, fact)
<1> PICK meals : meals = Only(pools, full)
  OBVIOUS
<1>1. meals \in MealsOf(W) /\ Leaves(meals, pools)
  BY PoolsLeft
<1>2. /\ plan.days \in Seq(Lists) /\ plan.short \subseteq W /\ Apartness(plan.days)
      /\ \A i \in 1..Len(meals) : OnSomeDay(meals, i, plan.short, plan.days)
  BY <1>1, Assembled
<1>3. /\ DOMAIN fact.days = 1..Len(fact.days) /\ Apartness(fact.days)
      /\ \A d \in 1..Len(fact.days) : fact.days[d] \in Lists
  BY <1>2, LenProperties, ElementOfSeq
<1>4. ASSUME NEW d \in DOMAIN fact.days, NEW e \in DOMAIN fact.days, NEW i \in DOMAIN fact.days[d],
             NEW k \in DOMAIN fact.days[e], fact.days[d][i] = fact.days[e][k]
      PROVE  d = e /\ i = k
  <2> PICK one : one = fact.days[d]
    OBVIOUS
  <2> PICK two : two = fact.days[e]
    OBVIOUS
  <2>1. one \in Lists /\ two \in Lists
    BY <1>3
  <2>2. DOMAIN one = 1..Len(one) /\ \A m, n \in 1..Len(one) : one[m] = one[n] => m = n
    BY <2>1, PartsOfList
  <2>3. one[i] \in Range(one) /\ one[i] \in Range(two)
    BY <1>4 DEF Range
  <2>4. d = e
    BY <1>3, <2>3 DEF Apartness
  <2> QED
    BY <1>4, <2>2, <2>4
<1>5. ASSUME NEW word \in words \cap MealWords
      PROVE  \/ \E d \in DOMAIN fact.days : \E s \in Range(fact.days[d]) : Serves(s, word)
             \/ \E other \in words \cap (fact.missing \cup fact.short) :
                   Eats[other] = Eats[word] /\ Dish[other] = Dish[word]
  <2>1. HasPool(pools, word)
    BY <1>5 DEF ForEach
  <2>2. PICK n \in 1..Len(pools) : SlotKey(pools[n].word) = SlotKey(word)
    BY <2>1 DEF HasPool
  <2> PICK other : other = pools[n].word
    OBVIOUS
  <2>3. other \in W
    <3> PICK M : M = [word : W, pool : SitedLists]
      OBVIOUS
    <3>1. pools \in Seq(M)
      BY DEF MealsOf
    <3>2. pools[n] \in M
      BY <3>1, ElementOfSeq
    <3> QED
      BY <3>2
  <2>4. Eats[other] = Eats[word] /\ Dish[other] = Dish[word]
    BY <2>2, <2>3, SlotKeys
  <2>5. CASE pools[n].pool = <<>>
    BY <2>3, <2>4, <2>5
  <2>6. CASE pools[n].pool # <<>>
    <3>1. PICK i \in 1..Len(meals) : meals[i] = pools[n]
      BY <1>1, <2>6 DEF Leaves
    <3>2. OnSomeDay(meals, i, fact.short, fact.days)
      BY <1>2
    <3>3. CASE other \in fact.short
      BY <2>3, <2>4, <3>3
    <3>4. CASE other \notin fact.short
      <4>1. PICK d \in 1..Len(fact.days) : Range(pools[n].pool) \cap Range(fact.days[d]) # {}
        BY <3>1, <3>2, <3>4 DEF OnSomeDay
      <4>2. PICK s \in Range(fact.days[d]) : s \in Range(pools[n].pool)
        BY <4>1
      <4>3. Serves(s, other)
        BY <4>2 DEF Serving
      <4>4. Serves(s, word)
        BY <2>4, <4>3 DEF Serves
      <4> QED
        BY <1>3, <4>1, <4>2, <4>4
    <3> QED
      BY <3>3, <3>4
  <2> QED
    BY <2>5, <2>6
<1> QED
  BY <1>4, <1>5 DEF Honored

LEMMA Facts ==
    /\ Nothing.fact = None /\ TooLate.fact = None
    /\ \A of : Told(of).fact = Fact(of) /\ Told(of).fact.of = of
    /\ \A rows, fact : [Result(rows) EXCEPT !.fact = fact].fact = fact
<1>1. \A rows, fact : [Result(rows) EXCEPT !.fact = fact].fact = fact /\ Result(rows).fact = None
  BY DEF Result
<1>2. Nothing.fact = None
  BY <1>1 DEF Nothing
<1>3. TooLate.fact = None
  <2> PICK nothing : nothing = Nothing
    OBVIOUS
  <2>1. \A late : [nothing EXCEPT !.late = late].fact = None
    BY <1>2 DEF Nothing, Result
  <2> QED
    BY <2>1 DEF TooLate
<1>4. ASSUME NEW of PROVE Told(of).fact = Fact(of) /\ Told(of).fact.of = of
  <2>1. Told(of).fact = Fact(of)
    BY ONLY <1>1 DEF Told, Nothing
  <2>2. Fact(of).of = of
    BY DEF Fact
  <2> QED
    BY <2>1, <2>2
<1> QED
  BY <1>1, <1>2, <1>3, <1>4

PlanHeld(call, result) ==
    call.name = "plan_itinerary" /\ result.fact # None /\ result.fact.of = "plan"
    => Honored(Range(call.words), result.fact)

LEMMA PlanMade ==
    ASSUME NEW call, Plain(call), NEW ctx, ctx.shown \in SUBSET Ids,
           NEW result, result = PlanItinerary(call, ctx)
    PROVE  PlanHeld(call, result)
<1> PICK scope : scope = Scope(<<call.hints[1]>>)
  OBVIOUS
<1> PICK W : W = Range(call.words) \cap MealWords
  OBVIOUS
<1> PICK pools : pools = Pools(call, scope, ctx)
  OBVIOUS
<1> PICK seeing : seeing = Only(call.words, Range(call.words) \ MealWords)
  OBVIOUS
<1> PICK usable : usable = SelectSeq(seeing, LAMBDA word : ~OutsidePool(word))
  OBVIOUS
<1> PICK sights : sights = Sights(call, scope, usable, ctx)
  OBVIOUS
<1> PICK full : full = {p \in Range(pools) : p.pool # <<>>}
  OBVIOUS
<1> PICK days : days = DaysOf(call)
  OBVIOUS
<1> PICK plan : plan = Assemble(sights, Only(pools, full), days)
  OBVIOUS
<1> PICK missing : missing = Missing(pools, sights, usable)
  OBVIOUS
<1> PICK unsupported : unsupported = Range(seeing) \ Range(usable)
  OBVIOUS
<1>1. PICK X : call.words \in Seq(X)
  BY DEF Plain, WordList
<1>2. pools \in MealsOf(W) /\ Serving(pools) /\ ForEach(W, pools)
  <2>1. ctx.shown \in SUBSET Ids /\ call.words \in Seq(X)
    BY <1>1
  <2>2. /\ pools \in MealsOf(W) /\ Serving(pools) /\ ForEach(W, pools)
        /\ Pooled(pools) \subseteq InScope(scope)
    BY ONLY <2>1, PoolsMade, W = Range(call.words) \cap MealWords, pools = Pools(call, scope, ctx)
  <2> QED
    BY <2>2
<1>3. sights \in SitedLists
  BY SightsListed
<1>4. days \in Nat \ {0}
  <2>1. MaxDays \in Nat \ {0, 1} /\ call.days \in Int
    BY ToolsAssumption DEF Plain
  <2> QED
    BY <2>1 DEF DaysOf
<1>5. \A n \in 1..Len(pools) : pools[n].pool = <<>> => pools[n].word \in missing
  <2>1. DOMAIN pools = 1..Len(pools)
    BY <1>2, LenProperties DEF MealsOf
  <2> QED
    BY <2>1 DEF Missing
<1>6. CASE result = Planned(plan, missing, unsupported)
  <2>1. CASE plan.days = <<>>
    BY <1>6, <2>1, Facts DEF Planned, PlanHeld
  <2>2. CASE plan.days # <<>>
    <3> PICK fact : fact = [of |-> "plan", days |-> plan.days, missing |-> missing, short |-> plan.short,
                            unsupported |-> unsupported]
      OBVIOUS
    <3> PICK rows : rows = FlattenSeq(plan.days)
      OBVIOUS
    <3>1. result = [Result(rows) EXCEPT !.fact = fact]
      BY ONLY <1>6, <2>2, rows = FlattenSeq(plan.days),
              fact = [of |-> "plan", days |-> plan.days, missing |-> missing, short |-> plan.short,
                      unsupported |-> unsupported] DEF Planned
    <3>2. result.fact = fact
      BY ONLY <3>1, Facts
    <3>3. fact.days = plan.days /\ fact.short = plan.short /\ fact.missing = missing
      OBVIOUS
    <3>4. Honored(Range(call.words), fact)
      <4> PICK words : words = Range(call.words)
        OBVIOUS
      <4>1. Honored(words, fact)
        BY ONLY <1>2, <1>3, <1>4, <1>5, <2>2, <3>3, PlanHonors, words = Range(call.words),
                W = Range(call.words) \cap MealWords, full = {p \in Range(pools) : p.pool # <<>>},
                plan = Assemble(sights, Only(pools, full), days)
      <4> QED
        BY <4>1
    <3> QED
      BY <3>2, <3>4 DEF PlanHeld
  <2> QED
    BY <2>1, <2>2
<1>7. CASE result = Told("needs region") \/ result = Told("unknown region")
  BY <1>7, Facts DEF PlanHeld
<1>8. \/ result = Told("needs region") \/ result = Told("unknown region")
      \/ result = Planned(plan, missing, unsupported)
  <2>1. \/ result = Told("needs region") \/ result = PlanIn(call, scope, ctx)
    BY DEF PlanItinerary
  <2>2. \/ PlanIn(call, scope, ctx) = Told("unknown region")
        \/ PlanIn(call, scope, ctx) = PlanFrom(call, seeing, usable, pools, sights)
    BY DEF PlanIn
  <2>3. PlanFrom(call, seeing, usable, pools, sights) = Planned(plan, missing, unsupported)
    BY DEF PlanFrom
  <2> QED
    BY <2>1, <2>2, <2>3
<1> QED
  BY <1>6, <1>7, <1>8

\* No day of an itinerary leads to a place another visit has led to, and every
\* kind of meal that was asked for is on one of its days or named among those it
\* could not find, for any spots, words and days (plan_itinerary, _assemble,
\* _one_of_each, _chain).
THEOREM PlansKept == Spec => []PlanKept
<1>1. TraceInv => PlanKept
  <2> SUFFICES ASSUME TraceInv, NEW i \in Plans, NEW call, NEW step, call = trace.calls[i], step = trace.steps[i]
               PROVE  Honored(Range(call.words), step.fact)
    BY DEF PlanKept
  <2>1. i \in DOMAIN trace.calls /\ call.name = "plan_itinerary" /\ step.fact # None /\ step.fact.of = "plan"
    BY DEF Plans, CallsOf
  <2>2. Gave(call, step, request, shown, changes)
    BY <2>1, CallMade
  <2>3. Plain(call)
    BY <2>2 DEF Gave
  <2>4. PICK some \in SUBSET Ids : Returned(call, step, request, some)
    BY <2>2 DEF Gave
  <2>5. step # TooLate
    BY <2>1, Facts
  <2>6. PICK up \in BOOLEAN : step = Run(call, CtxOf(request, some, up))
    BY <2>4, <2>5 DEF Returned
  <2> PICK ctx : ctx = CtxOf(request, some, up)
    OBVIOUS
  <2>7. ctx.shown \in SUBSET Ids
    BY DEF CtxOf
  <2>8. step = PlanItinerary(call, ctx)
    BY <2>1, <2>6 DEF Run
  <2>9. PlanHeld(call, step)
    BY <2>3, <2>7, <2>8, PlanMade
  <2> QED
    BY <2>1, <2>9 DEF PlanHeld
<1> QED
  BY <1>1, TraceKept, PTL

---------------------------------------------------------------------------
\* The tools that keep to the regions they were asked for.

LEMMA StaysInScope ==
    ASSUME NEW call, Plain(call), ~Unread(call), NEW step, Range(step.rows) \subseteq InScope(Scope(HintsOf(call))),
           call.name \notin {"plan_itinerary", "compare_regions"}
    PROVE  StaysIn(call, step)
<1> SUFFICES ASSUME call.name \in Regional, call.hints # <<>>, NEW s \in Range(step.rows)
             PROVE  \E hints \in Asking(call) : InNamed(s, hints)
  BY DEF StaysIn
<1>1. Asking(call) = {HintsOf(call)}
  <2>1. call.name # "plan_itinerary" /\ call.name # "compare_regions"
    OBVIOUS
  <2> QED
    BY ONLY <2>1 DEF Asking
<1>2. s \in Ids /\ Within(Addr[s], Scope(HintsOf(call)))
  BY Scoped DEF InScope
<1>3. InNamed(s, HintsOf(call))
  BY <1>2, ScopeNames
<1> QED
  BY <1>1, <1>3

LEMMA StaysNowhere == ASSUME NEW call, NEW step, step.rows = <<>> PROVE StaysIn(call, step)
BY Rowless DEF StaysIn

LEMMA SearchStays ==
    ASSUME NEW call, Plain(call), call.name = "category_search", NEW step, NEW some \in SUBSET Ids, NEW near,
           SearchGives(call, step, some, near)
    PROVE  StaysIn(call, step)
<1>1. CASE step.rows = <<>>
  BY <1>1, StaysNowhere
<1>2. CASE step.rows # <<>>
  <2>1. PICK pool, codes : Answers(step.rows, Wanted(call, pool, codes, some), call.crowd, near)
    BY <1>2 DEF SearchGives
  <2>2. Range(step.rows) \subseteq InScope(Scope(HintsOf(call)))
    BY <2>1 DEF Answers, Wanted, Meets, InScope
  <2>3. ~Unread(call)
    BY <1>2 DEF SearchGives
  <2> QED
    BY <2>2, <2>3, StaysInScope
<1> QED
  BY <1>1, <1>2

\* A hint has a few words, and each is of one region at most.
LEMMA ScopeFinite == ASSUME NEW hints, WordList(hints) PROVE IsFiniteSet(Scope(hints))
<1> PICK X : hints \in Seq(X)
  BY DEF WordList
<1> PICK n \in Nat : n = Len(hints)
  BY LenProperties
<1> PICK D : D = ((1..n) \X (0..MaxHintTokens)) \X (0..1)
  OBVIOUS
<1>1. IsFiniteSet(D)
  <2>1. IsFiniteSet(1..n) /\ IsFiniteSet(0..MaxHintTokens) /\ IsFiniteSet(0..1)
    <3>1. MaxHintTokens \in Int /\ 0 \in Int /\ 1 \in Int /\ n \in Int
      BY DEF MaxHintTokens
    <3> QED
      BY ONLY <3>1, FS_Interval
  <2>2. IsFiniteSet((1..n) \X (0..MaxHintTokens))
    BY ONLY <2>1, FS_Product
  <2> QED
    BY ONLY <2>1, <2>2, FS_Product, D = ((1..n) \X (0..MaxHintTokens)) \X (0..1)
<1> DEFINE Token(i, j) == IF j = 0 THEN hints[i] ELSE <<hints[i][j]>>
           Spelling(p, k) == IF k = 0 THEN p ELSE <<Merged[p[1]]>> \o Tail(p)
           f == [d \in D |-> Spelling(Picked(Token(d[1][1], d[1][2])), d[2])]
<1>2. ASSUME NEW p \in Resolved(hints) PROVE \E i \in 1..n, j \in 0..MaxHintTokens : p = Picked(Token(i, j))
  <2>1. PICK token \in UNION {HintTokens(hints[h]) : h \in DOMAIN hints} : p = Picked(token)
    BY DEF Resolved
  <2> PICK i \in DOMAIN hints : token \in HintTokens(hints[i])
    OBVIOUS
  <2>2. i \in 1..n
    BY LenProperties
  <2>3. CASE token = hints[i]
    <3>1. 0 \in 0..MaxHintTokens /\ Token(i, 0) = token
      BY <2>3 DEF MaxHintTokens
    <3> QED
      BY <2>1, <2>2, <3>1
  <2>4. CASE token # hints[i]
    <3>1. PICK j \in 1..(IF Len(hints[i]) < MaxHintTokens THEN Len(hints[i]) ELSE MaxHintTokens) : token = <<hints[i][j]>>
      BY <2>4 DEF HintTokens
    <3>2. j \in 0..MaxHintTokens /\ j # 0
      BY DEF MaxHintTokens
    <3> QED
      BY <2>1, <2>2, <3>1, <3>2
  <2> QED
    BY <2>3, <2>4
<1>3. ASSUME NEW q \in Scope(hints) PROVE \E d \in D : f[d] = q
  <2>1. PICK p \in Resolved(hints) : q \in Spellings(p)
    BY DEF Scope
  <2>2. PICK k \in 0..1 : q = Spelling(p, k)
    <3>1. q = p \/ q = <<Merged[p[1]]>> \o Tail(p)
      BY <2>1 DEF Spellings
    <3>2. q = Spelling(p, 0) \/ q = Spelling(p, 1)
      BY <3>1
    <3> QED
      BY <3>2
  <2>3. PICK i \in 1..n, j \in 0..MaxHintTokens : p = Picked(Token(i, j))
    BY <1>2
  <2> PICK d : d = <<<<i, j>>, k>>
    OBVIOUS
  <2>4. d \in D /\ d[1][1] = i /\ d[1][2] = j /\ d[2] = k
    OBVIOUS
  <2>5. f[d] = q
    <3> HIDE DEF Token, Spelling
    <3> QED
      BY <2>2, <2>3, <2>4
  <2> QED
    BY <2>4, <2>5
<1> PICK g : g = f
  OBVIOUS
<1> PICK image : image = {g[d] : d \in D}
  OBVIOUS
<1>4. g \in Surjection(D, image)
  <2>1. DOMAIN g = D /\ g = [d \in D |-> g[d]]
    OBVIOUS
  <2>2. g \in [D -> image]
    BY ONLY <2>1, image = {g[d] : d \in D}
  <2>3. \A t \in image : \E d \in D : g[d] = t
    BY ONLY image = {g[d] : d \in D}
  <2> QED
    BY ONLY <2>2, <2>3 DEF Surjection
<1>5. IsFiniteSet(image)
  BY ONLY <1>1, <1>4, FS_Surjection
<1>6. Scope(hints) \subseteq image
  <2> HIDE DEF f
  <2> QED
    BY <1>3
<1> QED
  BY <1>5, <1>6, FS_Subset

LEMMA SetListed == ASSUME NEW S, IsFiniteSet(S) PROVE SetToSeq(S) \in Seq(S)
<1> PICK n \in Nat : n = Cardinality(S)
  BY FS_CardinalityType
<1>1. PICK f \in Bijection(1..n, S) : TRUE
  BY FS_CardinalityType DEF ExistsBijection
<1>2. f \in [1..n -> S] /\ IsInjective(f)
  BY DEF Bijection, Injection
<1>3. SetToSeq(S) \in [1..n -> S]
  BY <1>2 DEF SetToSeq
<1> QED
  BY <1>3, SeqDef

\* The hints that are read.
LEMMA HintsTaken ==
    ASSUME NEW call, Plain(call)
    PROVE  WordList(HintsOf(call)) /\ \A i \in DOMAIN HintsOf(call) : i \in DOMAIN call.hints /\ HintsOf(call)[i] = call.hints[i]
<1> PICK hints : hints = call.hints
  OBVIOUS
<1> PICK X : hints \in Seq(X)
  BY DEF Plain, WordList
<1>1. MaxRegionHints \in Nat
  BY ONLY ToolsAssumption DEF ToolsAssumption
<1> PICK taken : taken = Take(hints, MaxRegionHints)
  OBVIOUS
<1>2. /\ taken \in Seq(X) /\ Len(taken) = (IF Len(hints) < MaxRegionHints THEN Len(hints) ELSE MaxRegionHints)
      /\ \A i \in 1..Len(taken) : taken[i] = hints[i]
  BY <1>1, TakeLists
<1>3. Len(hints) \in Nat /\ DOMAIN hints = 1..Len(hints) /\ DOMAIN taken = 1..Len(taken)
  BY <1>2, LenProperties
<1>4. \A i \in 1..Len(taken) : i \in 1..Len(hints)
  BY <1>1, <1>2, <1>3
<1> QED
  BY <1>2, <1>3, <1>4 DEF HintsOf, WordList

LEMMA TitleRowsTyped ==
    ASSUME NEW word, NEW prefix, NEW some \in SUBSET Ids
    PROVE  TitleRows(word, prefix, some) \in Seq(Ids)
<1> PICK rows : rows = {s \in some : word \in Title[s] /\ Near(prefix, s)}
  OBVIOUS
<1> PICK same : same = [s \in rows |-> s]
  OBVIOUS
<1>1. rows \in SUBSET Ids /\ rows \in SUBSET Int /\ \A s \in rows : same[s] \in Int
  BY IdsFinite
<1>2. TitleLimit \in Nat
  BY SearchAssumption
<1>3. TitleRows(word, prefix, some) = Take(Ordered(rows, same), TitleLimit)
  BY DEF TitleRows, InOrder
<1>4. Take(Ordered(rows, same), TitleLimit) \in Lists
  BY ONLY <1>1, <1>2, FirstRows
<1> QED
  BY <1>3, <1>4 DEF Lists

LEMMA TitleStays ==
    ASSUME NEW call, Plain(call), call.name = "title_search", NEW ctx, ctx.shown \subseteq Ids,
           NEW step, step = TitleSearch(call, ctx)
    PROVE  StaysIn(call, step)
<1>1. CASE call.words = <<>> \/ Unread(call)
  BY <1>1, Rowless, StaysNowhere DEF TitleSearch
<1>2. CASE ~(call.words = <<>> \/ Unread(call))
  <2> PICK scope : scope = Scope(HintsOf(call))
    OBVIOUS
  <2> PICK places : places = IF scope = {} THEN <<NoRegion>> ELSE SetToSeq(scope)
    OBVIOUS
  <2> PICK found : found = FlattenSeq([i \in DOMAIN call.words |->
          FlattenSeq([j \in DOMAIN places |-> TitleRows(call.words[i], places[j], ctx.shown)])])
    OBVIOUS
  <2> PICK rows : rows = Briefs(Distinct(found), ctx.shown)
    OBVIOUS
  <2>1. step.rows = Only(rows, InScope(scope))
    BY <1>2, Rowless DEF TitleSearch, SearchByTitle, InScope
  <2>2. \E X : rows \in Seq(X)
    <3>1. \E Y : places \in Seq(Y)
      <4>1. IsFiniteSet(scope)
        <5>1. WordList(HintsOf(call))
          BY HintsTaken
        <5> QED
          BY <5>1, ScopeFinite
      <4>2. SetToSeq(scope) \in Seq(scope)
        BY <4>1, SetListed
      <4>3. <<NoRegion>> \in Seq({NoRegion})
        OBVIOUS
      <4> QED
        BY <4>2, <4>3
    <3> PICK m \in Nat : DOMAIN places = 1..m
      BY <3>1, LenProperties
    <3> PICK n \in Nat : DOMAIN call.words = 1..n
      BY LenProperties DEF Plain, WordList
    <3> DEFINE Of(word) == [j \in 1..m |-> TitleRows(word, places[j], ctx.shown)]
    <3>2. ASSUME NEW word PROVE FlattenSeq(Of(word)) \in Seq(Ids)
      <4>1. \A j \in 1..m : TitleRows(word, places[j], ctx.shown) \in Seq(Ids)
        BY TitleRowsTyped
      <4> PICK rowss : rowss = Of(word)
        OBVIOUS
      <4>2. rowss \in [1..m -> Seq(Ids)]
        BY <4>1
      <4>3. rowss \in Seq(Seq(Ids))
        BY ONLY <4>2, m \in Nat, SeqDef
      <4>4. FlattenSeq(rowss) \in Seq(Ids)
        BY ONLY <4>3, Flattened
      <4> QED
        BY <4>4
    <3> PICK per : per = [i \in 1..n |-> FlattenSeq(Of(call.words[i]))]
      OBVIOUS
    <3>3. found = FlattenSeq(per)
      OBVIOUS
    <3>4. per \in Seq(Seq(Ids))
      <4> HIDE DEF Of
      <4>1. per \in [1..n -> Seq(Ids)]
        BY <3>2
      <4> QED
        BY ONLY <4>1, n \in Nat, SeqDef
    <3>5. found \in Seq(Ids)
      BY ONLY <3>3, <3>4, Flattened
    <3> QED
      BY <3>5, DistinctRows, BriefRows
  <2>3. Range(Only(rows, InScope(scope))) \subseteq InScope(scope)
    <3> PICK X : rows \in Seq(X)
      BY <2>2
    <3> PICK kept : kept = Only(rows, InScope(scope))
      OBVIOUS
    <3>1. kept \in Seq(X \cap InScope(scope))
      BY OnlyLists
    <3>2. Range(kept) \subseteq X \cap InScope(scope)
      BY ONLY <3>1, SeqRows
    <3> QED
      BY <3>2
  <2> QED
    BY <1>2, <2>1, <2>3, StaysInScope
<1> QED
  BY <1>1, <1>2

LEMMA PhotoStays ==
    ASSUME NEW call, Plain(call), call.name = "photo_match", NEW ctx, ctx.shown \subseteq Ids,
           NEW step, step = PhotoMatch(call, ctx)
    PROVE  StaysIn(call, step)
<1>1. CASE call.kind \notin DOMAIN SceneVector \/ Unread(call)
  BY <1>1, Rowless, StaysNowhere DEF PhotoMatch
<1>2. CASE ~(call.kind \notin DOMAIN SceneVector \/ Unread(call))
  <2> PICK scope : scope = Scope(HintsOf(call))
    OBVIOUS
  <2> PICK found : found = Matching(SceneVector[call.kind], MatchLimit, scope, ctx.shown)
    OBVIOUS
  <2>1. found \in Lists /\ Range(found) \subseteq InScope(scope)
    <3>1. SceneVector[call.kind] \in Int /\ MatchLimit \in Nat
      BY <1>2, ToolsAssumption, SearchAssumption
    <3> QED
      BY <3>1, MatchingIn
  <2>2. step.rows = Only(found, ctx.shown \cap Photo)
    BY <1>2, Rowless DEF PhotoMatch, Briefs
  <2>3. Range(step.rows) \subseteq InScope(scope)
    BY <2>1, <2>2, OnlyList
  <2> QED
    BY <1>2, <2>3, StaysInScope
<1> QED
  BY <1>1, <1>2

LEMMA SavedStays ==
    ASSUME NEW call, Plain(call), call.name = "from_saved", NEW ctx, ctx.shown \in SUBSET Ids,
           ctx.saved \in Seq(Ids) \cup {None}, NEW step, step = FromSaved(call, ctx)
    PROVE  StaysIn(call, step)
<1>1. CASE step.rows = <<>>
  BY <1>1, StaysNowhere
<1>2. CASE step.rows # <<>>
  <2>1. ~Unread(call) /\ Range(step.rows) \subseteq InScope(Scope(HintsOf(call)))
    BY <1>2, FoundForSaved
  <2> QED
    BY <2>1, StaysInScope
<1> QED
  BY <1>1, <1>2

\* A search for sights of a region and of codes.
LEMMA ProfileStays ==
    ASSUME NEW call, Plain(call), call.name = "region_profile", NEW ctx, ctx.shown \in SUBSET Ids,
           NEW step, step = RegionProfile(call, ctx)
    PROVE  StaysIn(call, step)
<1>1. CASE call.hints = <<>> \/ Unread(call)
  BY <1>1, Rowless, StaysNowhere DEF RegionProfile
<1>2. CASE ~(call.hints = <<>> \/ Unread(call))
  <2> PICK scope : scope = Scope(HintsOf(call))
    OBVIOUS
  <2> PICK q : q = [Query EXCEPT !.scope = scope]
    OBVIOUS
  <2> PICK found : found = SearchCandidates(q, "any", FALSE, ctx.shown)
    OBVIOUS
  <2>1. step.rows = Take(found, ProfileShown)
    BY <1>2, Rowless DEF RegionProfile
  <2>2. q = [Query EXCEPT !.scope = scope, !.codes = {}]
    <3>1. q = AskedFor("travel", "spot", {}, scope, {}, None, FALSE, {})
      BY ONLY q = [Query EXCEPT !.scope = scope] DEF Query, AskedFor
    <3>2. [Query EXCEPT !.scope = scope, !.codes = {}] = AskedFor("travel", "spot", {}, scope, {}, None, FALSE, {})
      <4> PICK none : none = [Query EXCEPT !.scope = scope, !.codes = {}]
        OBVIOUS
      <4>1. none = AskedFor("travel", "spot", {}, scope, {}, None, FALSE, {})
        BY ONLY none = [Query EXCEPT !.scope = scope, !.codes = {}] DEF Query, AskedFor
      <4> QED
        BY <4>1
    <3> QED
      BY ONLY <3>1, <3>2
  <2>3. found \in Lists /\ Range(found) \subseteq InScope(scope)
    BY <2>2, RegionSearched DEF Crowds
  <2>4. ProfileShown \in Nat
    BY ToolsAssumption
  <2>5. Range(step.rows) \subseteq InScope(scope)
    BY <2>1, <2>3, <2>4, TakeList
  <2> QED
    BY <1>2, <2>5, StaysInScope
<1> QED
  BY <1>1, <1>2

\* An itinerary leads through the region it was asked for, and through that alone.
LEMMA PlanPlaced ==
    ASSUME NEW sights \in SitedLists, NEW W, NEW pools \in MealsOf(W), NEW full, full = {p \in Range(pools) : p.pool # <<>>},
           NEW days \in Nat \ {0}, NEW plan, plan = Assemble(sights, Only(pools, full), days),
           NEW S, Range(sights) \subseteq S, Pooled(pools) \subseteq S
    PROVE  Range(FlattenSeq(plan.days)) \subseteq S
<1> PICK meals : meals = Only(pools, full)
  OBVIOUS
<1> PICK visits : visits = plan.days
  OBVIOUS
<1>1. meals \in MealsOf(W) /\ Pooled(meals) \subseteq S
  <2>1. meals \in MealsOf(W) /\ Pooled(meals) \subseteq Pooled(pools)
    BY PoolsLeft
  <2> QED
    BY <2>1
<1>2. visits \in Seq(Lists) /\ \A d \in 1..Len(visits) : Range(visits[d]) \subseteq Range(sights) \cup Pooled(meals)
  <2>1. plan = Assemble(sights, meals, days)
    OBVIOUS
  <2>2. /\ plan.days \in Seq(Lists)
        /\ \A d \in 1..Len(plan.days) : Range(plan.days[d]) \subseteq Range(sights) \cup Pooled(meals)
    BY ONLY <1>1, <2>1, Assembled, sights \in SitedLists, days \in Nat \ {0}
  <2> QED
    BY ONLY <2>2, visits = plan.days
<1>3. \A d \in 1..Len(visits) : visits[d] \in Seq(S)
  <2> SUFFICES ASSUME NEW d \in 1..Len(visits) PROVE visits[d] \in Seq(S)
    OBVIOUS
  <2>1. visits[d] \in Lists
    BY ONLY <1>2, ElementOfSeq
  <2>2. visits[d] \in Seq(Ids)
    BY ONLY <2>1, PartsOfList
  <2>3. Range(visits[d]) \subseteq S
    BY <1>1, <1>2
  <2> QED
    BY ONLY <2>2, <2>3, RowsOfSeq
<1>4. visits \in Seq(Seq(S))
  <2> PICK Y : Y = Seq(S)
    OBVIOUS
  <2>1. visits \in [1..Len(visits) -> Lists] /\ Len(visits) \in Nat
    BY ONLY <1>2, LenProperties
  <2>2. visits \in [1..Len(visits) -> Y]
    BY <1>3, <2>1
  <2> QED
    BY <2>1, <2>2, SeqDef
<1>5. FlattenSeq(visits) \in Seq(S)
  BY ONLY <1>4, Flattened
<1> QED
  BY <1>5, SeqRows

LEMMA PlanStays ==
    ASSUME NEW call, Plain(call), call.name = "plan_itinerary", NEW ctx, ctx.shown \in SUBSET Ids,
           NEW step, step = PlanItinerary(call, ctx)
    PROVE  StaysIn(call, step)
<1> PICK hint : hint = <<call.hints[1]>>
  OBVIOUS
<1> PICK scope : scope = Scope(hint)
  OBVIOUS
<1> PICK seeing : seeing = Only(call.words, Range(call.words) \ MealWords)
  OBVIOUS
<1> PICK usable : usable = SelectSeq(seeing, LAMBDA word : ~OutsidePool(word))
  OBVIOUS
<1> PICK W : W = Range(call.words) \cap MealWords
  OBVIOUS
<1> PICK pools : pools = Pools(call, scope, ctx)
  OBVIOUS
<1> PICK sights : sights = Sights(call, scope, usable, ctx)
  OBVIOUS
<1> PICK full : full = {p \in Range(pools) : p.pool # <<>>}
  OBVIOUS
<1> PICK days : days = DaysOf(call)
  OBVIOUS
<1> PICK plan : plan = Assemble(sights, Only(pools, full), days)
  OBVIOUS
<1> PICK missing : missing = Missing(pools, sights, usable)
  OBVIOUS
<1> PICK unsupported : unsupported = Range(seeing) \ Range(usable)
  OBVIOUS
<1>1. ctx.shown \in SUBSET Ids
  OBVIOUS
<1>2. pools \in MealsOf(W) /\ Pooled(pools) \subseteq InScope(scope)
  <2> PICK X : call.words \in Seq(X)
    BY DEF Plain, WordList
  <2>1. call.words \in Seq(X)
    OBVIOUS
  <2> QED
    BY ONLY <1>1, <2>1, PoolsMade, W = Range(call.words) \cap MealWords, pools = Pools(call, scope, ctx)
<1>3. sights \in SitedLists /\ Range(sights) \subseteq InScope(scope)
  BY ONLY <1>1, SightsListed, sights = Sights(call, scope, usable, ctx)
<1>4. days \in Nat \ {0}
  <2>1. MaxDays \in Nat \ {0, 1} /\ call.days \in Int
    BY ToolsAssumption DEF Plain
  <2> QED
    BY <2>1 DEF DaysOf
<1>5. Range(FlattenSeq(plan.days)) \subseteq InScope(scope)
  BY ONLY <1>2, <1>3, <1>4, PlanPlaced, full = {p \in Range(pools) : p.pool # <<>>},
          plan = Assemble(sights, Only(pools, full), days)
<1>6. CASE scope = {}
  <2>1. step = Told("needs region") \/ step = Told("unknown region")
    BY <1>6 DEF PlanItinerary, PlanIn
  <2> QED
    BY <2>1, Rowless, StaysNowhere
<1>7. CASE scope # {}
  <2>1. step = Told("needs region") \/ step = Planned(plan, missing, unsupported)
    <3>1. step = Told("needs region") \/ step = PlanIn(call, scope, ctx)
      BY DEF PlanItinerary
    <3>2. PlanIn(call, scope, ctx) = PlanFrom(call, seeing, usable, pools, sights)
      BY <1>7 DEF PlanIn
    <3>3. PlanFrom(call, seeing, usable, pools, sights) = Planned(plan, missing, unsupported)
      BY DEF PlanFrom
    <3> QED
      BY ONLY <3>1, <3>2, <3>3
  <2>2. Range(step.rows) \subseteq InScope(scope)
    <3>1. CASE step.rows = <<>>
      BY <3>1, Rowless
    <3>2. CASE step.rows # <<>>
      <4>1. step = Planned(plan, missing, unsupported) /\ plan.days # <<>>
        <5>1. step = Planned(plan, missing, unsupported)
          BY ONLY <2>1, <3>2, Rowless
        <5>2. plan.days = <<>> => Planned(plan, missing, unsupported) = Nothing
          BY ONLY DEF Planned
        <5>3. Nothing.rows = <<>>
          BY Rowless
        <5> QED
          BY ONLY <3>2, <5>1, <5>2, <5>3
      <4>2. step.rows = FlattenSeq(plan.days)
        BY ONLY <4>1, Rowless DEF Planned
      <4> QED
        BY <1>5, <4>2
    <3> QED
      BY <3>1, <3>2
  <2>3. \A s \in Range(step.rows) : InNamed(s, hint)
    BY <1>7, <2>2, ScopeNames DEF InScope
  <2>4. Asking(call) = {hint}
    BY DEF Asking
  <2> QED
    BY <2>3, <2>4 DEF StaysIn
<1> QED
  BY <1>6, <1>7

\* Each hint of a comparison is searched for itself.
LEMMA CompareStays ==
    ASSUME NEW call, Plain(call), call.name = "compare_regions", NEW ctx, ctx.shown \in SUBSET Ids,
           NEW step, step = CompareRegions(call, ctx)
    PROVE  StaysIn(call, step)
<1> PICK hints : hints = Take(HintsOf(call), MaxRegions)
  OBVIOUS
<1> PICK rows : rows = FlattenSeq([i \in DOMAIN hints |-> Take(RegionRows(hints[i], call.words, ctx), TopPerRegion)])
  OBVIOUS
<1>1. Range(step.rows) \subseteq Range(rows)
  <2>1. step = IF Len(hints) < 2 THEN Nothing ELSE Result(rows)
    BY DEF CompareRegions
  <2> QED
    BY <2>1, Rowless
<1> PICK named : named = {s \in Ids : \E i \in DOMAIN call.hints : InNamed(s, <<call.hints[i]>>)}
  OBVIOUS
<1>2. MaxRegions \in Nat /\ TopPerRegion \in Nat
  BY ToolsAssumption
<1>3. PICK n \in Nat : DOMAIN hints = 1..n /\ \A i \in 1..n : i \in DOMAIN call.hints /\ hints[i] = call.hints[i]
  <2> PICK read : read = HintsOf(call)
    OBVIOUS
  <2>1. WordList(read) /\ \A i \in DOMAIN read : i \in DOMAIN call.hints /\ read[i] = call.hints[i]
    BY HintsTaken
  <2> PICK X : read \in Seq(X)
    BY <2>1 DEF WordList
  <2>2. hints \in Seq(X) /\ Len(hints) = (IF Len(read) < MaxRegions THEN Len(read) ELSE MaxRegions)
        /\ \A i \in 1..Len(hints) : hints[i] = read[i]
    BY <1>2, TakeLists
  <2>3. DOMAIN hints = 1..Len(hints) /\ DOMAIN read = 1..Len(read) /\ Len(hints) \in Nat /\ Len(read) \in Nat
    BY <2>2, LenProperties
  <2>4. \A i \in 1..Len(hints) : i \in 1..Len(read)
    BY <1>2, <2>2, <2>3
  <2> QED
    BY <2>1, <2>2, <2>3, <2>4
<1>4. ASSUME NEW i \in 1..n PROVE Take(RegionRows(hints[i], call.words, ctx), TopPerRegion) \in Seq(named)
  <2> PICK scope : scope = Scope(<<hints[i]>>)
    OBVIOUS
  <2> PICK one : one = RegionRows(hints[i], call.words, ctx)
    OBVIOUS
  <2> PICK q : q = [Query EXCEPT !.scope = scope, !.codes = ResolveCodes(call.words)]
    OBVIOUS
  <2>1. one = IF scope = {} THEN <<>> ELSE SearchCandidates(q, "any", FALSE, ctx.shown)
    BY DEF RegionRows
  <2>2. one \in Lists /\ (scope # {} \/ one = <<>>) /\ Range(one) \subseteq InScope(scope)
    <3>1. CASE scope = {}
      BY <2>1, <3>1, NoneListed
    <3>2. CASE scope # {}
      <4> PICK codes : codes = ResolveCodes(call.words)
        OBVIOUS
      <4> PICK some \in SUBSET Ids : some = ctx.shown
        OBVIOUS
      <4>1. q = [Query EXCEPT !.scope = scope, !.codes = codes] /\ one = SearchCandidates(q, "any", FALSE, some)
        BY <2>1, <3>2
      <4>2. "any" \in Crowds
        BY DEF Crowds
      <4>3. one \in Lists /\ Range(one) \subseteq InScope(scope)
        BY ONLY <4>1, <4>2, RegionSearched, some \in SUBSET Ids
      <4> QED
        BY <3>2, <4>3
    <3> QED
      BY <3>1, <3>2
  <2>3. Range(one) \subseteq named
    <3>1. \A s \in InScope(scope) : scope # {} => s \in Ids /\ InNamed(s, <<hints[i]>>)
      BY ScopeNames DEF InScope
    <3>2. i \in DOMAIN call.hints /\ hints[i] = call.hints[i]
      BY <1>3
    <3> QED
      BY <2>2, <3>1, <3>2, Rowless
  <2> PICK few : few = Take(one, TopPerRegion)
    OBVIOUS
  <2>4. few \in Lists /\ Range(few) \subseteq Range(one)
    BY <1>2, <2>2, TakeList
  <2>5. few \in Seq(Ids)
    BY <2>4 DEF Lists
  <2>6. Range(few) \subseteq named
    BY ONLY <2>3, <2>4
  <2>7. few \in Seq(named)
    BY ONLY <2>5, <2>6, RowsOfSeq
  <2> QED
    BY <2>7
<1>5. Range(rows) \subseteq named
  <2> PICK per : per = [i \in 1..n |-> Take(RegionRows(hints[i], call.words, ctx), TopPerRegion)]
    OBVIOUS
  <2>1. per \in [1..n -> Seq(named)]
    BY <1>4
  <2>2. per \in Seq(Seq(named))
    BY ONLY <2>1, n \in Nat, SeqDef
  <2>3. rows = FlattenSeq(per)
    BY <1>3
  <2>4. rows \in Seq(named)
    BY ONLY <2>2, <2>3, Flattened
  <2> QED
    BY <2>4, SeqRows
<1>6. Asking(call) = {<<call.hints[i]>> : i \in DOMAIN call.hints}
  BY DEF Asking
<1> QED
  BY <1>1, <1>5, <1>6 DEF StaysIn

---------------------------------------------------------------------------
\* A region like another one.

LEMMA PickedProvince == ASSUME NEW token, Picked(token) # NoRegion PROVE Picked(token)[1] \in DOMAIN Merged
<1> PICK rows : rows = IF token \in Tokens THEN Named[token] ELSE {}
  OBVIOUS
<1> PICK sidos : sidos = {row \in rows : Len(row) = 1}
  OBVIOUS
<1>1. rows \subseteq Seq(STRING) \ {<<>>} /\ \A row \in rows : row[1] \in DOMAIN Merged
  BY RegionAssumption
<1> PICK one : one = CHOOSE row \in rows : TRUE
  OBVIOUS
<1> PICK sido : sido = CHOOSE row \in sidos : TRUE
  OBVIOUS
<1>2. Picked(token) = IF sidos # {} THEN IF Cardinality(sidos) = 1 THEN sido ELSE NoRegion
                      ELSE IF rows = {} THEN NoRegion
                      ELSE IF Cardinality(rows) = 1 THEN one ELSE Districts(rows)
  BY DEF Picked
<1>3. (sidos # {} => sido \in rows) /\ (rows # {} => one \in rows)
  <2>1. sidos # {} => sido \in sidos
    OBVIOUS
  <2>2. rows # {} => one \in rows
    OBVIOUS
  <2> QED
    BY <2>1, <2>2
<1>4. ASSUME rows # {}, Districts(rows) # NoRegion PROVE Districts(rows)[1] = one[1]
  <2> PICK shared : shared = SubSeq(one, 1, 2)
    OBVIOUS
  <2>1. Districts(rows) = IF \A row \in rows : Len(row) = 3 /\ SubSeq(row, 1, 2) = shared THEN shared ELSE NoRegion
    BY DEF Districts
  <2>2. Len(one) = 3 /\ Districts(rows) = shared
    BY <1>3, <1>4, <2>1
  <2>3. one \in Seq(STRING)
    BY <1>1, <1>3, <1>4
  <2>4. \A i \in 1..2 : one[i] \in STRING
    <3>1. \A i \in 1..2 : i \in 1..Len(one)
      BY <2>2
    <3> QED
      BY <2>3, <3>1, ElementOfSeq
  <2>5. shared[1] = one[1]
    BY <2>2, <2>3, <2>4
  <2> QED
    BY <2>2, <2>5
<1> QED
  BY <1>1, <1>2, <1>3, <1>4

\* Who lies in a scope of one province lies in that province.
LEMMA OneProvince ==
    ASSUME NEW hints, NEW sido, \A p \in Resolved(hints) : p[1] = sido, Merged[sido] = NoRegion,
           NEW s \in Ids, Within(Addr[s], Scope(hints))
    PROVE  Addr[s] # NoRegion /\ Addr[s][1] = sido
<1>1. PICK p \in Scope(hints) : Addr[s] # NoRegion /\ IsPrefix(p, Addr[s])
  BY DEF Within
<1>2. PICK r \in Resolved(hints) : p \in Spellings(r)
  BY DEF Scope
<1>3. p = r /\ p[1] = sido
  BY <1>2 DEF Spellings
<1>4. p \in Seq(STRING) \ {<<>>} /\ Addr[s] \in Seq(STRING) \ {<<>>}
  BY <1>1, <1>2, <1>3, ResolvedTyped, SearchAssumption
<1> PICK addr : addr = Addr[s]
  OBVIOUS
<1>5. WordForWord(p, addr)
  <2>1. p \in Seq(STRING) /\ addr \in Seq(STRING) /\ IsPrefix(p, addr)
    BY <1>1, <1>4
  <2> QED
    BY ONLY <2>1, PrefixWords
<1>6. Len(p) \in Nat /\ Len(p) # 0
  BY <1>4, EmptySeq, LenProperties
<1>7. p[1] = addr[1]
  BY ONLY <1>5, <1>6 DEF WordForWord
<1> QED
  BY <1>1, <1>3, <1>7

LEMMA VotesTyped ==
    ASSUME NEW seeds \in Seq(Embedded), NEW source, NEW ctx, ctx.shown \in SUBSET Ids
    PROVE  Vote(seeds, source, ctx) \in Seq({s \in Ids : SidoOfRow(s) \notin source})
<1> PICK n \in Nat : DOMAIN seeds = 1..n /\ \A i \in 1..n : seeds[i] \in Embedded
  BY LenProperties, ElementOfSeq
<1> PICK per : per = [i \in 1..n |-> Briefs(Matching(Vector[seeds[i]], Neighbours, {}, ctx.shown), ctx.shown)]
  OBVIOUS
<1>1. ASSUME NEW i \in 1..n PROVE Briefs(Matching(Vector[seeds[i]], Neighbours, {}, ctx.shown), ctx.shown) \in Seq(Ids)
  <2>1. Vector[seeds[i]] \in Int /\ Neighbours \in Nat
    BY SearchAssumption, ToolsAssumption
  <2> PICK found : found = Matching(Vector[seeds[i]], Neighbours, {}, ctx.shown)
    OBVIOUS
  <2>2. found \in Lists
    BY <2>1, MatchingIn
  <2>3. Briefs(found, ctx.shown) \in Lists
    BY <2>2, OnlyList DEF Briefs
  <2> QED
    BY <2>3 DEF Lists
<1>2. per \in Seq(Seq(Ids))
  <2>1. per \in [1..n -> Seq(Ids)]
    BY <1>1
  <2> QED
    BY ONLY <2>1, n \in Nat, SeqDef
<1> PICK all : all = Distinct(FlattenSeq(per))
  OBVIOUS
<1>3. all \in Seq(Ids)
  BY <1>2, Flattened, DistinctRows
<1> PICK far : far = {s \in Ids : SidoOfRow(s) \notin source}
  OBVIOUS
<1>4. Vote(seeds, source, ctx) = Only(all, far)
  BY DEF Vote
<1>5. Only(all, far) \in Seq(Ids \cap far)
  BY <1>3, OnlyLists
<1>6. Ids \cap far = far
  OBVIOUS
<1> QED
  BY <1>4, <1>5, <1>6

LEMMA TallyTyped ==
    ASSUME NEW X \in SUBSET Ids, NEW rows \in Seq(X)
    PROVE  Tally(rows) \in Seq(Seq(X))
<1> PICK sidos : sidos = [i \in DOMAIN rows |-> SidoOfRow(rows[i])]
  OBVIOUS
<1> PICK names : names = Distinct(Only(sidos, Range(sidos) \ {NoRegion}))
  OBVIOUS
<1> PICK of : of = [n \in DOMAIN names |-> Only(rows, {s \in Ids : SidoOfRow(s) = names[n]})]
  OBVIOUS
<1> PICK order : order = Ordered(DOMAIN names, [n \in DOMAIN names |-> -Len(of[n])])
  OBVIOUS
<1>1. Tally(rows) = [n \in DOMAIN names |-> of[order[n]]]
  BY DEF Tally
<1>2. PICK n \in Nat : DOMAIN names = 1..n
  <2>1. sidos \in Seq(Range(sidos))
    <3>1. DOMAIN rows = 1..Len(rows) /\ Len(rows) \in Nat
      BY LenProperties
    <3>2. DOMAIN sidos = 1..Len(rows) /\ sidos = [i \in 1..Len(rows) |-> sidos[i]]
      BY <3>1
    <3>3. sidos \in [1..Len(rows) -> Range(sidos)]
      BY ONLY <3>2 DEF Range
    <3> QED
      BY ONLY <3>1, <3>3, SeqDef
  <2>2. PICK Y : Only(sidos, Range(sidos) \ {NoRegion}) \in Seq(Y)
    BY <2>1, OnlyLists
  <2>3. names \in Seq(Y)
    BY <2>2, DistinctRows
  <2> QED
    BY <2>3, LenProperties
<1>3. \A i \in 1..n : of[i] \in Seq(X)
  <2> SUFFICES ASSUME NEW i \in 1..n PROVE of[i] \in Seq(X)
    OBVIOUS
  <2> PICK there : there = {s \in Ids : SidoOfRow(s) = names[i]}
    OBVIOUS
  <2>1. of[i] = Only(rows, there)
    BY <1>2
  <2>2. Only(rows, there) \in Seq(X \cap there)
    BY OnlyLists
  <2>3. X \cap there \subseteq X
    OBVIOUS
  <2> QED
    BY ONLY <2>1, <2>2, <2>3, SeqMonotonic
<1>4. \A i \in 1..n : order[i] \in 1..n
  <2> PICK key : key = [m \in DOMAIN names |-> -Len(of[m])]
    OBVIOUS
  <2>1. \A m \in 1..n : key[m] \in Int
    <3> SUFFICES ASSUME NEW m \in 1..n PROVE key[m] \in Int
      OBVIOUS
    <3>1. Len(of[m]) \in Nat
      BY <1>3, LenProperties
    <3>2. key[m] = -Len(of[m])
      BY <1>2
    <3> QED
      BY <3>1, <3>2
  <2>2. order = Ordered(1..n, key)
    BY <1>2
  <2>3. 1..n \in SUBSET Int /\ IsFiniteSet(1..n) /\ Cardinality(1..n) = n
    BY FS_Interval
  <2>4. ListOf(order, 1..n)
    BY ONLY <2>1, <2>2, <2>3, OrderedLists
  <2> QED
    BY ONLY <2>3, <2>4, LenProperties, ElementOfSeq DEF ListOf
<1> PICK tally : tally = [i \in 1..n |-> of[order[i]]]
  OBVIOUS
<1>5. Tally(rows) = tally
  BY <1>1, <1>2
<1>6. tally \in [1..n -> Seq(X)]
  BY ONLY <1>3, <1>4, tally = [i \in 1..n |-> of[order[i]]]
<1>7. tally \in Seq(Seq(X))
  BY ONLY <1>6, n \in Nat, ListedSeq
<1> QED
  BY ONLY <1>5, <1>7

LEMMA SimilarElsewhere ==
    ASSUME NEW call, Plain(call), call.name = "similar_region", NEW ctx, ctx.shown \in SUBSET Ids,
           NEW step, step = SimilarRegion(call, ctx)
    PROVE  Elsewhere(call, step)
<1> SUFFICES ASSUME NEW region \in Resolved(HintsOf(call)), Merged[region[1]] = NoRegion,
                    \A other \in Resolved(HintsOf(call)) : other[1] = region[1], NEW s \in Range(step.rows)
             PROVE  SidoOfRow(s) # region[1]
  BY DEF Elsewhere
<1> PICK scope : scope = Scope(HintsOf(call))
  OBVIOUS
<1> PICK near : near = EmbeddedIn(scope, Seeds, ctx.shown)
  OBVIOUS
<1> PICK seeds : seeds = Briefs(near, ctx.shown)
  OBVIOUS
<1> PICK source : source = {SidoOfRow(seeds[i]) : i \in DOMAIN seeds} \ {NoRegion}
  OBVIOUS
<1> PICK voted : voted = Vote(seeds, source, ctx)
  OBVIOUS
<1> PICK ranked : ranked = Take(Tally(voted), TopRegions)
  OBVIOUS
<1> PICK rows : rows = FlattenSeq([i \in DOMAIN ranked |-> Take(ranked[i], TopRegions)])
  OBVIOUS
<1>1. seeds # <<>> /\ step.rows = Take(rows, SimilarShown)
  <2>1. step = IF call.hints = <<>> \/ Unread(call) \/ seeds = <<>> THEN Nothing ELSE Result(Take(rows, SimilarShown))
    BY DEF SimilarRegion
  <2> QED
    BY <2>1, Rowless
<1>2. {TopRegions, SimilarShown, Seeds} \subseteq Nat
  BY ToolsAssumption
<1> PICK there : there = {t \in ctx.shown \cap Fit : Within(Addr[t], scope)}
  OBVIOUS
<1>3. seeds \in Seq(there) /\ there \subseteq Embedded /\ there \subseteq Ids
  <2>1. there \subseteq Ids /\ there \subseteq Embedded /\ there \in SUBSET Ids
    BY SearchAssumption
  <2> PICK same : same = [t \in there |-> t]
    OBVIOUS
  <2>2. \A t \in there : same[t] \in Int
    BY <2>1, IdsFinite
  <2>3. near = Take(Ordered(there, same), Seeds)
    BY DEF EmbeddedIn, InOrder
  <2>4. near \in Lists /\ Range(near) \subseteq there
    BY ONLY <1>2, <2>1, <2>2, <2>3, FirstRows
  <2>5. seeds \in Lists /\ Range(seeds) \subseteq there
    BY <2>4, OnlyList DEF Briefs
  <2>6. seeds \in Seq(Ids)
    BY <2>5 DEF Lists
  <2> QED
    BY <2>1, <2>5, <2>6, RowsOfSeq
<1>4. region[1] \in source
  <2>1. 1 \in DOMAIN seeds /\ seeds[1] \in there
    <3>1. Len(seeds) \in Nat /\ DOMAIN seeds = 1..Len(seeds) /\ Len(seeds) # 0 /\ \A i \in 1..Len(seeds) : seeds[i] \in there
      BY <1>1, <1>3, EmptySeq, LenProperties, ElementOfSeq
    <3> QED
      BY <3>1
  <2>2. Addr[seeds[1]] # NoRegion /\ Addr[seeds[1]][1] = region[1]
    <3> PICK first : first = seeds[1]
      OBVIOUS
    <3> PICK hints : hints = HintsOf(call)
      OBVIOUS
    <3>1. first \in Ids /\ Within(Addr[first], Scope(hints))
      BY <2>1, there = {t \in ctx.shown \cap Fit : Within(Addr[t], scope)}
    <3>2. \A other \in Resolved(hints) : other[1] = region[1]
      OBVIOUS
    <3>3. Addr[first] # NoRegion /\ Addr[first][1] = region[1]
      BY ONLY <3>1, <3>2, Merged[region[1]] = NoRegion, OneProvince
    <3> QED
      BY ONLY <3>3, first = seeds[1]
  <2>3. region[1] # NoRegion
    <3>1. PICK token : region = Picked(token) /\ region # NoRegion
      BY DEF Resolved
    <3>2. region[1] \in DOMAIN Merged
      BY <3>1, PickedProvince
    <3> QED
      BY <3>2, RegionAssumption
  <2>4. SidoOfRow(seeds[1]) = region[1]
    BY <2>2 DEF SidoOfRow
  <2> QED
    BY <2>1, <2>3, <2>4
<1> PICK far : far = {t \in Ids : SidoOfRow(t) \notin source}
  OBVIOUS
<1>5. rows \in Seq(far)
  <2>1. seeds \in Seq(Embedded)
    BY <1>3, SeqMonotonic
  <2>2. voted \in Seq(far)
    BY <2>1, VotesTyped
  <2>3. far \in SUBSET Ids
    OBVIOUS
  <2>4. Tally(voted) \in Seq(Seq(far))
    BY <2>2, <2>3, TallyTyped
  <2>5. ranked \in Seq(Seq(far))
    BY <1>2, <2>4, TakeLists
  <2> PICK n : n = Len(ranked)
    OBVIOUS
  <2>8. n \in Nat /\ DOMAIN ranked = 1..n
    BY ONLY <2>5, LenProperties, n = Len(ranked)
  <2>9. \A i \in 1..n : ranked[i] \in Seq(far)
    BY ONLY <2>5, ElementOfSeq, n = Len(ranked)
  <2> PICK per : per = [i \in 1..n |-> Take(ranked[i], TopRegions)]
    OBVIOUS
  <2>6. per \in [1..n -> Seq(far)]
    BY <1>2, <2>9, TakeLists
  <2>7. per \in Seq(Seq(far))
    BY ONLY <2>6, <2>8, SeqDef
  <2>10. rows = FlattenSeq(per)
    BY ONLY <2>8, rows = FlattenSeq([i \in DOMAIN ranked |-> Take(ranked[i], TopRegions)]),
            per = [i \in 1..n |-> Take(ranked[i], TopRegions)]
  <2> QED
    BY <2>7, <2>10, Flattened
<1>6. Range(step.rows) \subseteq far
  <2>1. step.rows \in Seq(far)
    BY <1>1, <1>2, <1>5, TakeLists
  <2> QED
    BY <2>1, SeqRows
<1> QED
  BY <1>4, <1>6

---------------------------------------------------------------------------
\* A place that is named with its province is found there and nowhere else.

\* Where a spot of a province lies, by the name it has or the merged one.
OfSido(sido) == {s \in Ids : Addr[s] # NoRegion /\ Addr[s][1] \in {sido, Merged[sido]}}

\* What was found is no spot, or one of the province.
Fixed(found, sido) == found.spot \in Ids => found.spot \in OfSido(sido)

LEMMA FirstOf == ASSUME NEW S \in SUBSET Nat, S # {} PROVE Min(S) \in S
<1>1. \E i \in S : \A k \in S : i <= k
  BY LeastOf
<1> QED
  BY <1>1 DEF Min

LEMMA Unmade ==
    ASSUME NEW sido
    PROVE  /\ Fixed(Unmatched, sido)
           /\ \A status, confidence : Fixed(Found(status, confidence, None), sido)
           /\ \A status, confidence : \A s \in OfSido(sido) : Fixed(Found(status, confidence, s), sido)
<1>1. None \notin Ids
  BY ToolsAssumption
<1> QED
  BY <1>1 DEF Unmatched, Found, Fixed

LEMMA EitherFixed ==
    ASSUME NEW sido, NEW found, NEW other, Fixed(found, sido), Fixed(other, sido), NEW place
    PROVE  /\ Fixed(Pick(found, other), sido) /\ Fixed(OrElse(found, other), sido)
           /\ Fixed(FoundFirst(place, found, other), sido)
<1>1. \A a, b : Pick(a, b) \in {a, b}
  BY DEF Pick
<1>2. Fixed(Pick(found, other), sido)
  BY <1>1
<1>3. Fixed(OrElse(found, other), sido)
  BY <1>2 DEF OrElse
<1>4. FoundFirst(place, found, other) \in {Unmatched, found, other, Pick(found, other)}
  BY DEF FoundFirst
<1> QED
  BY <1>2, <1>3, <1>4, Unmade

LEMMA LikeRowsTyped ==
    ASSUME NEW query \in DOMAIN Likeness, NEW region, NEW type, NEW some \in SUBSET Ids
    PROVE  LikeRows(query, region, type, some) \in Seq({s \in some : Near(region, s)})
<1> PICK rows : rows = {s \in some : Likeness[query][s] >= WORD_SIMILARITY /\ Near(region, s)}
  OBVIOUS
<1> PICK key : key = [s \in Ids |-> -2 * Likeness[query][s] - (IF s \in Preferred[type] THEN 1 ELSE 0)]
  OBVIOUS
<1>1. LikeRows(query, region, type, some) = Take(Ordered(rows, key), 3)
  BY DEF LikeRows
<1>2. rows \in SUBSET Ids
  OBVIOUS
<1>3. \A s \in rows : key[s] \in Int
  <2> SUFFICES ASSUME NEW s \in Ids PROVE key[s] \in Int
    BY <1>2
  <2>1. Likeness[query][s] \in Nat
    BY PlaceAssumption
  <2>2. key[s] = -2 * Likeness[query][s] - (IF s \in Preferred[type] THEN 1 ELSE 0)
    OBVIOUS
  <2> PICK extra \in {0, 1} : extra = IF s \in Preferred[type] THEN 1 ELSE 0
    OBVIOUS
  <2> PICK like \in Nat : like = Likeness[query][s]
    BY <2>1
  <2>3. key[s] = -2 * like - extra
    BY <2>2
  <2> QED
    BY ONLY <2>3, like \in Nat, extra \in {0, 1}
<1> PICK list : list = Take(Ordered(rows, key), 3)
  OBVIOUS
<1>4. list \in Lists /\ Range(list) \subseteq rows
  BY ONLY <1>2, <1>3, FirstRows, list = Take(Ordered(rows, key), 3)
<1>5. list \in Seq(Ids)
  BY <1>4 DEF Lists
<1>6. Range(list) \subseteq {s \in some : Near(region, s)}
  BY <1>4
<1> QED
  BY ONLY <1>1, <1>5, <1>6, RowsOfSeq, list = Take(Ordered(rows, key), 3)

LEMMA RowsSeenIn ==
    ASSUME NEW place, NEW sido, NEW query \in DOMAIN Likeness, NEW some \in SUBSET Ids
    PROVE  RowsSeen(place, {sido}, query, some) \in Seq(OfSido(sido))
<1> PICK regions : regions = Regions(place, {sido})
  OBVIOUS
<1> PICK answers : answers = {i \in DOMAIN regions : LikeRows(query, regions[i], place.type, some) # <<>>}
  OBVIOUS
<1> PICK there : there = {s \in Ids : SidoOk(Addr[s], {sido})}
  OBVIOUS
<1> PICK region : region = regions[Min(answers)]
  OBVIOUS
<1>1. RowsSeen(place, {sido}, query, some) = IF answers = {} THEN <<>> ELSE Only(LikeRows(query, region, place.type, some), there)
  BY DEF RowsSeen
<1>2. there \subseteq OfSido(sido)
  BY DEF SidoOk, OfSido
<1>3. Only(LikeRows(query, region, place.type, some), there) \in Seq(OfSido(sido))
  <2> PICK X : X = {s \in some : Near(region, s)}
    OBVIOUS
  <2> PICK list : list = LikeRows(query, region, place.type, some)
    OBVIOUS
  <2>3. list \in Seq(X)
    BY LikeRowsTyped
  <2>1. Only(LikeRows(query, region, place.type, some), there) \in Seq(X \cap there)
    BY ONLY <2>3, OnlyLists, list = LikeRows(query, region, place.type, some)
  <2>2. X \cap there \subseteq OfSido(sido)
    BY <1>2
  <2> QED
    BY ONLY <2>1, <2>2, SeqMonotonic
<1>4. <<>> \in Seq(OfSido(sido))
  BY EmptySeq
<1> QED
  BY <1>1, <1>3, <1>4

LEMMA BestFixed ==
    ASSUME NEW sido, NEW rows \in Seq([spot : OfSido(sido), like : Nat])
    PROVE  Fixed(BestLocal(rows), sido)
<1> PICK matches : matches = {i \in DOMAIN rows : rows[i].like >= MATCH_CONFIDENCE}
  OBVIOUS
<1> PICK best : best = {i \in DOMAIN rows : \A j \in DOMAIN rows : rows[j].like <= rows[i].like}
  OBVIOUS
<1>1. DOMAIN rows = 1..Len(rows) /\ Len(rows) \in Nat /\ \A i \in 1..Len(rows) : rows[i].spot \in OfSido(sido)
  <2>1. DOMAIN rows = 1..Len(rows) /\ Len(rows) \in Nat
    BY LenProperties
  <2>2. \A i \in 1..Len(rows) : rows[i] \in [spot : OfSido(sido), like : Nat]
    BY ElementOfSeq
  <2> QED
    BY ONLY <2>1, <2>2
<1>2. matches \in SUBSET (1..Len(rows)) /\ best \in SUBSET (1..Len(rows)) /\ 1..Len(rows) \subseteq Nat
  BY <1>1
<1>3. matches \in SUBSET Nat /\ best \in SUBSET Nat
  BY <1>2
<1>4. (matches # {} => rows[Min(matches)].spot \in OfSido(sido)) /\ (best # {} => rows[Min(best)].spot \in OfSido(sido))
  BY <1>1, <1>2, <1>3, FirstOf
<1>5. BestLocal(rows) =
        IF matches # {} THEN Found("matched", rows[Min(matches)].like, rows[Min(matches)].spot)
        ELSE IF best # {} /\ rows[Min(best)].like >= AMBIGUOUS_CONFIDENCE
          THEN Found("ambiguous", rows[Min(best)].like, rows[Min(best)].spot)
          ELSE Unmatched
  BY DEF BestLocal
<1> QED
  BY <1>4, <1>5, Unmade

LEMMA LocalFixed ==
    ASSUME NEW place, place.name \in DOMAIN Queries, NEW sido, NEW some \in SUBSET Ids
    PROVE  Fixed(KtoLocal(place, {sido}, some), sido)
<1> PICK asked : asked = Queries[place.name]
  OBVIOUS
<1> PICK n : n = Len(asked)
  OBVIOUS
<1>1. asked \in Seq(DOMAIN Likeness)
  BY PlaceAssumption
<1>2. n \in Nat /\ DOMAIN asked = 1..n /\ \A i \in 1..n : asked[i] \in DOMAIN Likeness
  BY ONLY <1>1, LenProperties, ElementOfSeq, n = Len(asked)
<1> PICK R : R = [spot : OfSido(sido), like : Nat]
  OBVIOUS
<1> PICK per : per = [i \in DOMAIN asked |-> Liked(asked[i], RowsSeen(place, {sido}, asked[i], some))]
  OBVIOUS
<1>3. \A i \in 1..n : per[i] \in Seq(R)
  <2> SUFFICES ASSUME NEW i \in 1..n PROVE per[i] \in Seq(R)
    OBVIOUS
  <2> PICK query \in DOMAIN Likeness : query = asked[i]
    BY <1>2
  <2> PICK seen : seen = RowsSeen(place, {sido}, query, some)
    OBVIOUS
  <2>1. seen \in Seq(OfSido(sido))
    BY RowsSeenIn
  <2>2. Len(seen) \in Nat /\ DOMAIN seen = 1..Len(seen) /\ \A j \in 1..Len(seen) : seen[j] \in OfSido(sido)
    BY ONLY <2>1, LenProperties, ElementOfSeq
  <2>3. \A s \in OfSido(sido) : Likeness[query][s] \in Nat
    BY PlaceAssumption DEF OfSido
  <2>4. per[i] = [j \in 1..Len(seen) |-> [spot |-> seen[j], like |-> Likeness[query][seen[j]]]]
    BY <1>2, <2>2 DEF Liked
  <2>5. [j \in 1..Len(seen) |-> [spot |-> seen[j], like |-> Likeness[query][seen[j]]]] \in [1..Len(seen) -> R]
    BY ONLY <2>2, <2>3, R = [spot : OfSido(sido), like : Nat]
  <2> QED
    BY ONLY <2>2, <2>4, <2>5, SeqDef
<1>4. per \in Seq(Seq(R))
  <2>1. per = [i \in 1..n |-> per[i]]
    BY <1>2
  <2>2. per \in [1..n -> Seq(R)]
    BY ONLY <1>3, <2>1
  <2> QED
    BY ONLY <1>2, <2>2, SeqDef
<1>5. FlattenSeq(per) \in Seq([spot : OfSido(sido), like : Nat])
  BY <1>4, Flattened
<1>6. KtoLocal(place, {sido}, some) = BestLocal(FlattenSeq(per))
  BY DEF KtoLocal
<1> QED
  BY <1>5, <1>6, BestFixed

LEMMA NaverFixed ==
    ASSUME AddressesAgree, NEW place, place.name \in DOMAIN Queries, NEW sido, NEW some \in SUBSET Ids,
           NEW hits \in {NaverSays[place.name], <<>>}
    PROVE  Fixed(FromNaver(place, {sido}, hits, some), sido)
<1> PICK fine : fine = {h \in Range(hits) : SidoOk(h.addr, {sido})}
  OBVIOUS
<1> PICK good : good = Only(hits, fine)
  OBVIOUS
<1> PICK hit : hit = good[1]
  OBVIOUS
<1> PICK region : region = <<IF Len(hit.addr) > 1 THEN hit.addr[2] ELSE hit.addr[1]>>
  OBVIOUS
<1> PICK close : close = {s \in Ids : Place[s] # None /\ Distance(s, hit.at) <= CloseBy}
  OBVIOUS
<1> PICK like : like = LikeRows(place.name, region, place.type, some)
  OBVIOUS
<1> PICK rows : rows = Only(like, close)
  OBVIOUS
<1>1. FromNaver(place, {sido}, hits, some) =
        IF good = <<>> THEN Unmatched
        ELSE IF rows # <<>> THEN Found("matched", 90, rows[1]) ELSE Found("naver_only", 70, None)
  BY DEF FromNaver
<1>2. hits \in Seq(Range(hits))
  <2>1. CASE hits = <<>>
    BY <2>1, EmptySeq
  <2>2. CASE hits = NaverSays[place.name]
    BY <2>2, ToolsAssumption
  <2> QED
    BY <2>1, <2>2
<1>3. good \in Seq(fine)
  <2>1. good \in Seq(Range(hits) \cap fine)
    BY <1>2, OnlyLists
  <2>2. Range(hits) \cap fine \subseteq fine
    OBVIOUS
  <2> QED
    BY ONLY <2>1, <2>2, SeqMonotonic
<1>4. ASSUME good # <<>> PROVE hit \in Range(NaverSays[place.name]) /\ SidoOk(hit.addr, {sido})
  <2>1. Len(good) \in Nat /\ Len(good) # 0 /\ \A i \in 1..Len(good) : good[i] \in fine
    BY <1>3, <1>4, EmptySeq, LenProperties, ElementOfSeq
  <2>2. hit \in fine
    BY ONLY <2>1, hit = good[1]
  <2>3. hits # <<>>
    <3>1. Range(<<>>) = {}
      BY NoWords
    <3> QED
      BY <2>2, <3>1
  <2> QED
    BY <2>2, <2>3
<1>5. ASSUME good # <<>> PROVE close \cap {s \in some : Near(region, s)} \subseteq OfSido(sido)
  <2> SUFFICES ASSUME NEW s \in Ids, Place[s] # None, Distance(s, hit.at) <= CloseBy, Near(region, s)
               PROVE  s \in OfSido(sido)
    OBVIOUS
  <2>1. hit.addr[1] = sido
    BY <1>4, <1>5 DEF SidoOk
  <2>2. place.name \in DOMAIN NaverSays
    BY ToolsAssumption
  <2>3. Addr[s] # NoRegion /\ Addr[s][1] \in {hit.addr[1], Merged[hit.addr[1]]}
    BY <1>4, <1>5, <2>2 DEF AddressesAgree
  <2> QED
    BY <2>1, <2>3 DEF OfSido
<1>6. ASSUME good # <<>>, rows # <<>> PROVE rows[1] \in OfSido(sido)
  <2>1. place.name \in DOMAIN Likeness
    BY PlaceAssumption
  <2>2. like \in Seq({s \in some : Near(region, s)})
    BY <2>1, LikeRowsTyped
  <2>3. rows \in Seq({s \in some : Near(region, s)} \cap close)
    BY <2>2, OnlyLists
  <2> PICK both : both = {s \in some : Near(region, s)} \cap close
    OBVIOUS
  <2>4. rows \in Seq(both)
    BY ONLY <2>3, both = {s \in some : Near(region, s)} \cap close
  <2>5. Len(rows) \in Nat
    BY ONLY <2>4, LenProperties
  <2>6. Len(rows) # 0
    BY ONLY <1>6, <2>4, EmptySeq
  <2>7. 1 \in 1..Len(rows)
    BY ONLY <2>5, <2>6
  <2>8. rows[1] \in both
    BY ONLY <2>4, <2>7, ElementOfSeq
  <2>9. both \subseteq OfSido(sido)
    BY <1>5, <1>6
  <2> QED
    BY ONLY <2>8, <2>9
<1> PICK at : at = FromNaver(place, {sido}, hits, some)
  OBVIOUS
<1> SUFFICES Fixed(at, sido)
  OBVIOUS
<1>7. CASE good = <<>>
  <2>1. at = Unmatched
    BY ONLY <1>1, <1>7, at = FromNaver(place, {sido}, hits, some)
  <2> QED
    BY ONLY <2>1, Unmade
<1>8. CASE good # <<>> /\ rows # <<>>
  <2>1. at = Found("matched", 90, rows[1])
    BY ONLY <1>1, <1>8, at = FromNaver(place, {sido}, hits, some)
  <2>2. rows[1] \in OfSido(sido)
    BY ONLY <1>6, <1>8
  <2> QED
    BY ONLY <2>1, <2>2, Unmade
<1>9. CASE good # <<>> /\ rows = <<>>
  <2>1. at = Found("naver_only", 70, None)
    BY ONLY <1>1, <1>9, at = FromNaver(place, {sido}, hits, some)
  <2> QED
    BY ONLY <2>1, Unmade
<1> QED
  BY ONLY <1>7, <1>8, <1>9

LEMMA KtoFixed ==
    ASSUME AddressesAgree, NEW place, place.name \in DOMAIN Queries, NEW sido,
           NEW items \in {KtoSays[place.name], <<>>}
    PROVE  Fixed(KtoFallback(place, {sido}, items), sido)
<1> PICK fine : fine = {item \in Range(items) : SidoOk(item.addr, {sido})}
  OBVIOUS
<1> PICK good : good = Only(items, fine)
  OBVIOUS
<1>1. KtoFallback(place, {sido}, items) = IF good = <<>> THEN Unmatched ELSE Found("matched", 65, good[1].spot)
  BY DEF KtoFallback
<1>2. items \in Seq(Range(items))
  <2>1. CASE items = <<>>
    BY <2>1, EmptySeq
  <2>2. CASE items = KtoSays[place.name]
    BY <2>2, ToolsAssumption
  <2> QED
    BY <2>1, <2>2
<1>3. ASSUME good # <<>> PROVE good[1] \in Range(KtoSays[place.name]) /\ SidoOk(good[1].addr, {sido})
  <2>1. good \in Seq(Range(items) \cap fine)
    BY <1>2, OnlyLists
  <2>2. Len(good) \in Nat /\ Len(good) # 0 /\ \A i \in 1..Len(good) : good[i] \in Range(items) \cap fine
    BY <1>3, <2>1, EmptySeq, LenProperties, ElementOfSeq
  <2>3. good[1] \in fine
    BY ONLY <2>2
  <2>4. items # <<>>
    <3>1. Range(<<>>) = {}
      BY NoWords
    <3> QED
      BY <2>3, <3>1
  <2> QED
    BY <2>3, <2>4
<1>4. ASSUME good # <<>>, good[1].spot \in Ids PROVE good[1].spot \in OfSido(sido)
  <2> PICK item : item = good[1]
    OBVIOUS
  <2>1. item \in Range(KtoSays[place.name]) /\ item.addr[1] = sido
    BY <1>3, <1>4 DEF SidoOk
  <2>2. place.name \in DOMAIN KtoSays
    BY ToolsAssumption
  <2>3. Addr[item.spot] # NoRegion /\ Addr[item.spot][1] \in {item.addr[1], Merged[item.addr[1]]}
    BY <1>4, <2>1, <2>2 DEF AddressesAgree
  <2> QED
    BY <1>4, <2>1, <2>3 DEF OfSido
<1>5. CASE good = <<>>
  BY <1>1, <1>5, Unmade
<1>6. CASE good # <<>>
  <2> PICK s : s = good[1].spot
    OBVIOUS
  <2>2. KtoFallback(place, {sido}, items) = Found("matched", 65, s)
    BY <1>1, <1>6
  <2>3. Found("matched", 65, s).spot = s
    BY DEF Found
  <2>1. KtoFallback(place, {sido}, items).spot = good[1].spot
    BY ONLY <2>2, <2>3, s = good[1].spot
  <2> QED
    BY <1>4, <1>6, <2>1 DEF Fixed
<1> QED
  BY <1>5, <1>6

LEMMA PlaceStays ==
    ASSUME AddressesAgree, NEW call, Plain(call), call.name = "resolve_place", NEW ctx, ctx.shown \in SUBSET Ids,
           NEW step, step = FindPlaces(call, ctx)
    PROVE  InProvince(call, step)
<1> PICK places : places = NamedPlaces(call)
  OBVIOUS
<1> SUFFICES ASSUME NEW i \in DOMAIN places, NEW sido, sido = PlaceSido(places[i]), sido # NoRegion
             PROVE  \A s \in Range(step.rows) : Addr[s] # NoRegion /\ Addr[s][1] \in {sido, Merged[sido]}
  BY DEF InProvince
<1> PICK names : names = Lettered(call.words)
  OBVIOUS
<1> PICK hint : hint = IF call.hints = <<>> THEN <<>> ELSE call.hints[1]
  OBVIOUS
<1>1. PICK n \in Nat : DOMAIN names = 1..n /\ \A j \in 1..n : names[j] \in DOMAIN Queries
  <2>1. PICK X : call.words \in Seq(X)
    BY DEF Plain, WordList
  <2>2. names \in Seq(X \cap DOMAIN Queries)
    BY <2>1, OnlyLists DEF Lettered
  <2>3. Len(names) \in Nat /\ DOMAIN names = 1..Len(names) /\ \A j \in 1..Len(names) : names[j] \in X \cap DOMAIN Queries
    BY ONLY <2>2, LenProperties, ElementOfSeq
  <2> QED
    BY ONLY <2>3
<1>2. places = [j \in 1..n |-> [name |-> names[j], type |-> call.kind, hint |-> hint]]
  BY <1>1 DEF NamedPlaces
<1>3. DOMAIN places = 1..n /\ \A j \in 1..n : places[j].name \in DOMAIN Queries /\ places[j].hint = hint
  BY ONLY <1>1, <1>2
<1>4. \A j \in 1..n : PlaceSido(places[j]) = sido
  <2> SUFFICES ASSUME NEW j \in 1..n PROVE PlaceSido(places[j]) = sido
    OBVIOUS
  <2>1. places[i].hint = places[j].hint
    BY <1>3
  <2>2. \A a, b : a.hint = b.hint => PlaceSido(a) = PlaceSido(b)
    BY DEF PlaceSido
  <2> QED
    BY <2>1, <2>2
<1> DEFINE says(name) == IF ctx.up THEN NaverSays[name] ELSE <<>>
           knows(name) == IF ctx.up THEN KtoSays[name] ELSE <<>>
           found(j) == ResolvePlace(places[j], places, says(places[j].name), knows(places[j].name), ctx.shown)
<1>5. \A j \in 1..n : Fixed(found(j), sido)
  <2> SUFFICES ASSUME NEW j \in 1..n PROVE Fixed(found(j), sido)
    OBVIOUS
  <2> PICK place : place = places[j]
    OBVIOUS
  <2> PICK hits : hits = says(place.name)
    OBVIOUS
  <2> PICK items : items = knows(place.name)
    OBVIOUS
  <2>1. place.name \in DOMAIN Queries /\ PlaceSido(place) = sido
    BY <1>3, <1>4
  <2>2. AllowedFor(place, places) = {sido}
    BY <2>1 DEF AllowedFor
  <2>3. hits \in {NaverSays[place.name], <<>>} /\ items \in {KtoSays[place.name], <<>>}
    OBVIOUS
  <2>4. found(j) = OrElse(FoundFirst(place, KtoLocal(place, {sido}, ctx.shown), FromNaver(place, {sido}, hits, ctx.shown)),
                          KtoFallback(place, {sido}, items))
    BY <2>2 DEF ResolvePlace
  <2>5. Fixed(KtoLocal(place, {sido}, ctx.shown), sido)
    BY <2>1, LocalFixed
  <2>6. Fixed(FromNaver(place, {sido}, hits, ctx.shown), sido)
    BY <2>1, <2>3, NaverFixed
  <2>7. Fixed(KtoFallback(place, {sido}, items), sido)
    BY <2>1, <2>3, KtoFixed
  <2>8. Fixed(FoundFirst(place, KtoLocal(place, {sido}, ctx.shown), FromNaver(place, {sido}, hits, ctx.shown)), sido)
    BY ONLY <2>5, <2>6, EitherFixed
  <2> HIDE DEF found
  <2> QED
    BY ONLY <2>4, <2>7, <2>8, EitherFixed
<1> PICK spots : spots = [j \in DOMAIN places |-> found(j).spot]
  OBVIOUS
<1>6. step.rows = <<>> \/ step.rows = Briefs(spots, ctx.shown)
  <2>1. step = IF call.words = <<>> THEN Nothing
               ELSE IF places = <<>> THEN [Nothing EXCEPT !.stop = TRUE]
               ELSE Result(Briefs(spots, ctx.shown))
    BY DEF FindPlaces
  <2>2. [Nothing EXCEPT !.stop = TRUE].rows = Nothing.rows
    BY DEF Nothing, Result
  <2> QED
    BY <2>1, <2>2, Rowless
<1>7. Range(Briefs(spots, ctx.shown)) \subseteq OfSido(sido)
  <2> PICK X : X = {s : s \in Range(spots)}
    OBVIOUS
  <2>1. \A j \in 1..n : spots[j] = found(j).spot
    BY <1>3
  <2>2. \A j \in 1..n : spots[j] \in Ids => spots[j] \in OfSido(sido)
    <3> HIDE DEF found
    <3> QED
      BY <1>5, <2>1 DEF Fixed
  <2>3. DOMAIN spots = 1..n
    BY <1>3
  <2>4. Range(spots) = {spots[j] : j \in 1..n}
    BY <2>3 DEF Range
  <2>5. spots \in Seq(Range(spots))
    <3>1. spots \in [1..n -> Range(spots)]
      <4>1. spots = [j \in 1..n |-> spots[j]]
        BY <1>3
      <4> QED
        BY ONLY <4>1, <2>4
    <3> QED
      BY ONLY <3>1, n \in Nat, SeqDef
  <2>6. Briefs(spots, ctx.shown) \in Seq(Range(spots) \cap (ctx.shown \cap Photo))
    BY <2>5, BriefRows
  <2>7. Range(Briefs(spots, ctx.shown)) \subseteq Range(spots) \cap (ctx.shown \cap Photo)
    BY ONLY <2>6, SeqRows
  <2>8. Range(spots) \cap Ids \subseteq OfSido(sido)
    BY ONLY <2>2, <2>4
  <2> QED
    BY <2>7, <2>8
<1>8. Range(step.rows) \subseteq OfSido(sido)
  BY <1>6, <1>7, NoWords
<1> QED
  BY <1>8 DEF OfSido

\* What a property says of one tool holds of every other.
LEMMA NameOnly ==
    ASSUME NEW call, NEW step
    PROVE  /\ call.name \notin Regional => StaysIn(call, step)
           /\ call.name # "similar_region" => Elsewhere(call, step)
           /\ call.name # "resolve_place" => InProvince(call, step)
BY DEF StaysIn, Elsewhere, InProvince

LEMMA NothingElsewhere ==
    ASSUME NEW call, NEW step, step = TooLate, NEW some
    PROVE  StaysIn(call, step) /\ Whole(call, step, some) /\ Elsewhere(call, step) /\ InProvince(call, step)
<1>1. step.rows = <<>> /\ step.late /\ Range(step.rows) = {}
  BY Rowless
<1> QED
  BY <1>1 DEF StaysIn, Whole, Elsewhere, InProvince

LEMMA ToolStays ==
    ASSUME NEW call, Plain(call), call.name # "category_search",
           NEW ctx, ctx.shown \in SUBSET Ids, ctx.saved \in Seq(Ids) \cup {None}, NEW step, step = Run(call, ctx)
    PROVE  StaysIn(call, step) /\ Elsewhere(call, step) /\ (AddressesAgree => InProvince(call, step))
<1> PICK name : name = call.name
  OBVIOUS
<1>1. CASE name = "title_search"
  <2>1. step = TitleSearch(call, ctx)
    BY <1>1 DEF Run
  <2>2. StaysIn(call, step)
    BY <1>1, <2>1, TitleStays
  <2> QED
    BY <1>1, <2>2, NameOnly
<1>2. CASE name = "photo_match"
  <2>1. step = PhotoMatch(call, ctx)
    BY <1>2 DEF Run
  <2>2. StaysIn(call, step)
    BY <1>2, <2>1, PhotoStays
  <2> QED
    BY <1>2, <2>2, NameOnly
<1>3. CASE name = "compare_regions"
  <2>1. step = CompareRegions(call, ctx)
    BY <1>3 DEF Run
  <2>2. StaysIn(call, step)
    BY <1>3, <2>1, CompareStays
  <2> QED
    BY <1>3, <2>2, NameOnly
<1>4. CASE name = "region_profile"
  <2>1. step = RegionProfile(call, ctx)
    BY <1>4 DEF Run
  <2>2. StaysIn(call, step)
    BY <1>4, <2>1, ProfileStays
  <2> QED
    BY <1>4, <2>2, NameOnly
<1>5. CASE name = "plan_itinerary"
  <2>1. step = PlanItinerary(call, ctx)
    BY <1>5 DEF Run
  <2>2. StaysIn(call, step)
    BY <1>5, <2>1, PlanStays
  <2> QED
    BY <1>5, <2>2, NameOnly
<1>6. CASE name = "from_saved"
  <2>1. step = FromSaved(call, ctx)
    BY <1>6 DEF Run
  <2>2. StaysIn(call, step)
    BY <1>6, <2>1, SavedStays
  <2> QED
    BY <1>6, <2>2, NameOnly
<1>7. CASE name = "similar_region"
  <2>1. step = SimilarRegion(call, ctx)
    BY <1>7 DEF Run
  <2>2. Elsewhere(call, step)
    BY <1>7, <2>1, SimilarElsewhere
  <2>3. name \notin Regional
    BY <1>7 DEF Regional
  <2> QED
    BY <1>7, <2>2, <2>3, NameOnly
<1>8. CASE name = "resolve_place"
  <2>1. step = FindPlaces(call, ctx)
    BY <1>8 DEF Run
  <2>2. AddressesAgree => InProvince(call, step)
    BY <1>8, <2>1, PlaceStays
  <2>3. name \notin Regional
    BY <1>8 DEF Regional
  <2> QED
    BY <1>8, <2>2, <2>3, NameOnly
<1>9. CASE name \notin Regional \cup {"similar_region", "resolve_place"}
  BY <1>9, NameOnly
<1> QED
  BY <1>1, <1>2, <1>3, <1>4, <1>5, <1>6, <1>7, <1>8, <1>9 DEF Regional

\* What is known of the regions of a call, whatever became of it.
LEMMA CallStays ==
    ASSUME TraceInv, NEW i \in DOMAIN trace.calls, NEW call, NEW step, call = trace.calls[i], step = trace.steps[i]
    PROVE  /\ StaysIn(call, step) /\ Elsewhere(call, step)
           /\ changes = 0 => Whole(call, step, shown)
           /\ AddressesAgree => InProvince(call, step)
<1>1. Gave(call, step, request, shown, changes) /\ request.at \in Int \cup {None}
  BY CallMade
<1>2. PICK some \in SUBSET Ids : (changes = 0 => some = shown) /\ Returned(call, step, request, some)
  BY <1>1 DEF Gave
<1>3. Plain(call)
  BY <1>1 DEF Gave
<1>4. CASE step = TooLate
  BY <1>4, NothingElsewhere
<1>5. CASE step # TooLate /\ call.name = "category_search"
  <2> PICK near : near = (call.near /\ request.at # None)
    OBVIOUS
  <2>1. SearchGives(call, step, some, near)
    BY <1>1, <1>2, <1>3, <1>5, SearchGave
  <2>2. Whole(call, step, some)
    BY <1>3, <2>1, SearchWhole
  <2>3. StaysIn(call, step)
    BY <1>3, <1>5, <2>1, SearchStays
  <2> QED
    BY <1>2, <1>5, <2>2, <2>3, NameOnly
<1>6. CASE step # TooLate /\ call.name # "category_search"
  <2>1. PICK up \in BOOLEAN : step = Run(call, CtxOf(request, some, up))
    BY <1>2, <1>6 DEF Returned
  <2> PICK ctx : ctx = CtxOf(request, some, up)
    OBVIOUS
  <2>2. ctx.shown \in SUBSET Ids /\ ctx.saved \in Seq(Ids) \cup {None}
    <3>1. request.saved \in Seq(Ids) \cup {None}
      BY DEF TraceInv, SavedInv, User
    <3> QED
      BY <3>1 DEF CtxOf
  <2>3. StaysIn(call, step) /\ Elsewhere(call, step) /\ (AddressesAgree => InProvince(call, step))
    BY <1>3, <1>6, <2>1, <2>2, ToolStays
  <2>4. Whole(call, step, shown)
    <3>1. call # [Blank EXCEPT !.name = "category_search", !.hints = call.hints]
      <4> PICK hints : hints = call.hints
        OBVIOUS
      <4>1. [Blank EXCEPT !.name = "category_search", !.hints = hints].name = "category_search"
        BY DEF Blank
      <4> QED
        BY <1>6, <4>1
    <3> QED
      BY <3>1 DEF Whole
  <2> QED
    BY <2>3, <2>4
<1> QED
  BY <1>4, <1>5, <1>6

ScopesKept ==
    \A i \in DOMAIN trace.calls :
        LET call == trace.calls[i]  step == trace.steps[i]
        IN  StaysIn(call, step) /\ (changes = 0 => Whole(call, step, shown)) /\ Elsewhere(call, step)

\* No tool answers for another region than it was asked for, a search of a region
\* has every sight of it, and a region like another lies elsewhere, for any hints,
\* spots, names, limits and rounds, and whatever Naver and KTO say
\* (resolve_region_scope, _drop_covered, _expand_merged, search_candidates, _vote).
THEOREM ScopesStay == Spec => []ScopesKept
<1>1. TraceInv => ScopesKept
  BY CallStays DEF ScopesKept
<1> QED
  BY <1>1, TraceKept, PTL

\* The same, and a place that is named with its province is found in it, wherever
\* Naver and KTO give the addresses that the table has (_resolve_place, _from_naver,
\* _kto_local, _kto_api_fallback).
THEOREM RegionsStay == AddressesAgree => (Spec => []RegionsKept)
<1> SUFFICES ASSUME AddressesAgree PROVE Spec => []RegionsKept
  OBVIOUS
<1>1. TraceInv => RegionsKept
  BY CallStays DEF RegionsKept
<1> QED
  BY <1>1, TraceKept, PTL
==============================================================================
