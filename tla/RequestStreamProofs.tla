------------------------- MODULE RequestStreamProofs -------------------------
(***************************************************************************)
(* The safety of a conversation with the example server, for any scripts   *)
(* of clients, any size of the buffer and any length of the separator.     *)
(***************************************************************************)
EXTENDS RequestStream, TLAPS

\* Where the request that is to be answered next begins in the stream.
Start == IF handled = 0 THEN 0 ELSE script[handled]

\* What is answered are the GETs that have been read, and until the conversation
\* is over no 550.
Answers ==
    /\ handled \in 0..Len(script)
    /\ \A i \in 1..Len(answers) :
         answers[i] = 0 \/ (answers[i] \in 1..handled /\ method[answers[i]] = "GET")
    /\ \A k \in 1..handled : method[k] = "GET" => \E i \in 1..Len(answers) : answers[i] = k
    /\ \A i, j \in 1..Len(answers) :
         i < j => answers[i] # 0 /\ (answers[i] < answers[j] \/ answers[j] = 0)
    /\ state # "over" => Len(answers) <= handled /\ \A i \in 1..Len(answers) : answers[i] # 0

\* While data is awaited, none of the buffered bytes ends a head, or all have
\* been there since the last answer.
Reading ==
    state \in {"filling", "receiving"} =>
        /\ pos \in {0, NoPos}
        /\ pos = NoPos => end > 0 /\ \A k \in 1..Len(script) : received # script[k]
        /\ state = "receiving" /\ size = end => size = 0

HeadFound ==
    state = "handling" =>
        /\ handled + 1 <= Len(script)
        /\ pos = script[handled + 1] - (received - end)
        /\ pos > 0

\* A client that waits for its answers has not sent the next but one request.
Patience == ~pipelines =>
    \A k \in 1..Len(script) : Len(answers) + 1 < k => arrived < script[k]

IInv == /\ TypeOK
        /\ Answers
        /\ Patience
        /\ HeadsAreFound
        /\ received - end = Start
        /\ Reading
        /\ HeadFound
        /\ EndIsReal
        /\ UndefinedOnlyInHead

-----------------------------------------------------------------------------
\* Heads follow each other.
LEMMA ScriptType ==
    ASSUME TypeOK
    PROVE  /\ \A k \in 1..Len(script) : script[k] \in Nat /\ Separator <= script[k]
           /\ \A j, k \in 1..Len(script) : j < k => script[j] + Separator <= script[k]
           /\ Len(script) \in Nat /\ Separator \in Nat /\ Separator > 0
  BY ScriptsAssumption, SizesAssumption DEF TypeOK

LEMMA AnswersType ==
    ASSUME TypeOK
    PROVE  /\ answers \in Seq(0..Len(script)) /\ Len(answers) \in Nat
           /\ handled \in Nat
  BY ScriptType DEF TypeOK

\* If there is a head among the bytes of the buffer, the first one is that of
\* the request to be answered next.
LEMMA FirstHead ==
    ASSUME TypeOK, Answers, NEW offset, offset = Start, NEW n \in Nat,
           Heads(offset, n) # {}
    PROVE  /\ handled + 1 \in 1..Len(script)
           /\ Min(Heads(offset, n)) = handled + 1
           /\ offset < script[handled + 1] /\ script[handled + 1] <= offset + n
  <1> DEFINE H == Heads(offset, n)
             m == handled + 1
  <1>1. handled \in 0..Len(script) /\ offset \in Nat
        /\ (handled > 0 => offset = script[handled])
        /\ (handled = 0 => offset = 0)
    BY ScriptType DEF Answers, Start
  <1>2. \A k \in H : k \in 1..Len(script) /\ offset <= script[k] - Separator
                     /\ script[k] <= offset + n
    BY DEF Heads
  <1>3. \A k \in H : m <= k
    <2> SUFFICES ASSUME NEW k \in H, k < m PROVE FALSE
      BY <1>1, <1>2, ScriptType
    <2>1. k \in 1..Len(script) /\ handled > 0 /\ offset = script[handled]
          /\ offset <= script[k] - Separator
      BY <1>1, <1>2, ScriptType
    <2>2. k = handled \/ (k < handled /\ script[k] + Separator <= script[handled])
      BY <1>1, <2>1, ScriptType
    <2> QED BY <1>1, <2>1, <2>2, ScriptType
  <1>4. m \in H
    <2>1. PICK k \in H : TRUE
      OBVIOUS
    <2>2. k \in 1..Len(script) /\ m <= k /\ script[k] \in Nat /\ script[k] <= offset + n
      BY <1>2, <1>3, ScriptType
    <2>3. m \in 1..Len(script)
      BY <1>1, <2>2, ScriptType
    <2>4. script[m] <= script[k]
      <3>1. m = k \/ script[m] + Separator <= script[k]
        BY <2>2, <2>3, ScriptType
      <3> QED BY <2>2, <2>3, <3>1, ScriptType
    <2>5. offset <= script[m] - Separator
      <3>1. CASE handled = 0
        BY <1>1, <2>3, <3>1, ScriptType
      <3>2. CASE handled > 0
        <4>1. script[handled] + Separator <= script[m]
          BY <1>1, <2>3, <3>2, ScriptType
        <4> QED BY <1>1, <2>3, <3>2, <4>1, ScriptType
      <3> QED BY <1>1, <3>1, <3>2
    <2>6. script[m] \in Nat /\ script[m] <= offset + n
      BY <1>1, <2>2, <2>3, <2>4, ScriptType
    <2> QED BY <2>3, <2>5, <2>6 DEF Heads
  <1>5. Min(H) = m
    <2>1. \A k \in H : k \in Nat
      BY <1>2
    <2>2. \E x \in H : \A y \in H : x <= y
      BY <1>3, <1>4
    <2>3. Min(H) \in H /\ \A y \in H : Min(H) <= y
      BY <2>2 DEF Min
    <2> QED BY <1>3, <1>4, <2>1, <2>3
  <1>6. m \in 1..Len(script) /\ offset <= script[m] - Separator /\ script[m] <= offset + n
    BY <1>2, <1>4
  <1>7. offset < script[m]
    BY <1>1, <1>6, ScriptType
  <1> QED BY <1>5, <1>6, <1>7

\* The same of the buffer, as it is and as it is after a step.
HeadInBuffer == /\ TypeOK /\ Answers /\ received - end = Start
                /\ Heads(received - end, end) # {}

NextInBuffer == /\ handled + 1 \in 1..Len(script)
                /\ script[handled + 1] <= (received - end) + end

LEMMA FirstInBuffer == HeadInBuffer => NextInBuffer
  <1> SUFFICES ASSUME HeadInBuffer PROVE NextInBuffer
    OBVIOUS
  <1>1. end \in Nat
    BY DEF HeadInBuffer, TypeOK
  <1> QED BY <1>1, FirstHead DEF HeadInBuffer, NextInBuffer

LEMMA FirstInBufferNext == HeadInBuffer' => NextInBuffer'
  BY FirstInBuffer, PTL

-----------------------------------------------------------------------------
LEMMA InitInv == Init => IInv
  <1> SUFFICES ASSUME Init PROVE IInv
    OBVIOUS
  <1> USE DEF Init
  <1>1. Len(script) \in Nat
    BY ScriptsAssumption
  <1>2. TypeOK
    BY <1>1, SizesAssumption DEF TypeOK, NoPos
  <1>3. handled = 0 /\ Len(answers) = 0
    OBVIOUS
  <1>4. \A k \in 1..Len(script) : script[k] \in Nat /\ script[k] > 0
    BY <1>2, ScriptType
  <1>5. Patience
    BY <1>4 DEF Patience
  <1>6. HeadsAreFound
    BY <1>4 DEF HeadsAreFound, Heads
  <1>7. Answers
    BY <1>1, <1>3 DEF Answers
  <1>8. EndIsReal
    BY <1>3 DEF EndIsReal, Range
  <1> QED BY <1>1, <1>2, <1>3, <1>5, <1>6, <1>7, <1>8, SizesAssumption
          DEF IInv, Start, Reading, HeadFound, NoPos, UndefinedOnlyInHead

\* A 550 ends the conversation.
LEMMA NoneRejected ==
    ASSUME IInv, state # "over"
    PROVE  /\ Len(answers) <= handled /\ \A i \in 1..Len(answers) : answers[i] # 0
           /\ 0 \notin Range(answers)
  BY AnswersType DEF IInv, Answers, Range

\* What leaves the answers, the bytes and the state alone.
LEMMA Aside ==
    ASSUME IInv, UNCHANGED <<script, method, buffer, received, handled, state, answers>>,
           pipelines' = pipelines, Patience',
           arrived' \in Nat, arrived <= arrived', closed => closed' /\ arrived' = arrived
    PROVE  IInv'
  <1> USE DEF buffer
  <1>1. Start' = Start
    BY DEF Start
  <1>2. TypeOK'
    BY DEF IInv, TypeOK
  <1>3. HeadsAreFound'
    BY DEF IInv, HeadsAreFound, Heads
  <1> QED BY <1>1, <1>2, <1>3
          DEF IInv, Answers, Reading, HeadFound, EndIsReal, UndefinedOnlyInHead

LEMMA SendInv == ASSUME IInv, NEW upto \in 1..SendsUpTo, Send(upto) PROVE IInv'
  <1>1. upto \in Nat /\ arrived \in Nat /\ Len(answers) \in Nat
    BY AnswersType DEF IInv, TypeOK
  <1>2. Patience'
    <2> SUFFICES ASSUME ~pipelines, NEW k \in 1..Len(script), Len(answers) + 1 < k
                 PROVE  upto < script[k]
      BY DEF Send, buffer, Patience
    <2> DEFINE m == Len(answers) + 1
    <2>1. m \in 1..Len(script) /\ m < k /\ Len(script) \in Nat
      BY <1>1, ScriptType DEF IInv
    <2>2. Min({m, Len(script)}) = m
      BY <2>1 DEF Min
    <2>3. upto <= script[m]
      BY <1>1, <2>2 DEF SendsUpTo
    <2>4. script[m] + Separator <= script[k] /\ script[m] \in Nat /\ script[k] \in Nat
      BY <2>1, ScriptType DEF IInv
    <2> QED BY <1>1, <2>3, <2>4, ScriptType DEF IInv
  <1> QED BY <1>1, <1>2, Aside DEF Send

LEMMA CloseInv == ASSUME IInv, Close PROVE IInv'
  <1>1. arrived \in Nat
    BY DEF IInv, TypeOK
  <1>2. Patience'
    BY DEF Close, IInv, Patience
  <1> QED BY <1>1, <1>2, Aside DEF Close

LEMMA AskForMoreInv == ASSUME IInv, AskForMore PROVE IInv'
  <1> USE DEF AskForMore, client
  <1>1. Start' = Start
    BY DEF Start
  <1>2. /\ size \in Nat /\ end \in 0..size
        /\ size' = IF size = end THEN 2 * size ELSE size
    BY DEF IInv, TypeOK, Grown
  <1>3. TypeOK'
    BY <1>2 DEF IInv, TypeOK
  <1>4. Reading'
    BY <1>2 DEF IInv, Reading
  <1>5. EndIsReal' /\ UndefinedOnlyInHead'
    BY NoneRejected DEF EndIsReal, UndefinedOnlyInHead
  <1>6. Patience' /\ HeadsAreFound'
    BY DEF IInv, Patience, HeadsAreFound, Heads
  <1> QED BY <1>1, <1>3, <1>4, <1>5, <1>6 DEF IInv, Answers, HeadFound

LEMMA ReceiveInv == ASSUME IInv, NEW n \in 1..(size - end), Receive(n) PROVE IInv'
  <1> USE DEF client, FoundWith
  <1> DEFINE offset == received - end
             H == Heads(offset, end + n)
  <1>1. /\ n \in Nat /\ n > 0 /\ end \in Nat /\ size \in Nat /\ received \in Nat
        /\ arrived \in Nat /\ n <= arrived - received /\ n <= size - end
        /\ received' = received + n /\ end' = end + n
        /\ UNCHANGED <<client, size, handled, answers>> /\ state = "receiving"
    BY DEF Receive, IInv, TypeOK
  <1>2. Start' = Start /\ offset = Start
        /\ received' - end' = offset
    BY <1>1 DEF Start, IInv
  <1>3. EndIsReal' /\ UndefinedOnlyInHead' /\ Answers'
    <2>1. state' # "undefined" /\ state' # "over"
      BY DEF Receive
    <2>2. /\ Len(answers) <= handled /\ \A i \in 1..Len(answers) : answers[i] # 0
          /\ 0 \notin Range(answers)
      BY <1>1, NoneRejected
    <2>3. answers' = answers /\ script' = script /\ method' = method /\ handled' = handled
      BY <1>1
    <2>4. Answers'
      BY <2>2, <2>3 DEF Answers, IInv
    <2> QED BY <2>1, <2>2, <2>3, <2>4 DEF EndIsReal, UndefinedOnlyInHead
  <1>4. Patience'
    BY <1>1 DEF IInv, Patience
  <1>5. CASE H = {}
    <2>1. state' = "filling" /\ pos' = NoPos
      BY <1>5 DEF Receive
    <2>2. TypeOK'
      BY <1>1, <2>1 DEF IInv, TypeOK
    <2>3. ASSUME NEW k \in 1..Len(script), received' = script[k] PROVE FALSE
      <3>1. handled \in 0..Len(script) /\ (handled > 0 => offset = script[handled])
            /\ (handled = 0 => offset = 0)
        BY <1>2, ScriptType DEF IInv, Answers, Start
      <3>2. script[k] > offset
        BY <1>1, <2>3
      <3>3. handled < k
        <4>1. k <= handled => k = handled \/ script[k] + Separator <= script[handled]
          BY <3>1, ScriptType DEF IInv
        <4> QED BY <3>1, <3>2, <4>1, ScriptType DEF IInv
      <3>4. offset <= script[k] - Separator
        <4>1. handled > 0 => script[handled] + Separator <= script[k]
          BY <3>1, <3>3, ScriptType DEF IInv
        <4> QED BY <3>1, <3>3, <4>1, ScriptType DEF IInv
      <3>5. script[k] <= offset + (end + n)
        BY <1>1, <2>3
      <3> QED BY <1>5, <3>4, <3>5 DEF Heads
    <2>4. Reading'
      BY <1>1, <2>1, <2>3 DEF Reading
    <2>5. HeadsAreFound'
      <3>1. received' - end' = offset /\ end' = end + n /\ script' = script
        BY <1>1, <1>2
      <3>2. Heads(received - end, end)' = H
        BY <3>1 DEF Heads
      <3> QED BY <1>5, <3>2 DEF HeadsAreFound
    <2> QED BY <1>2, <1>3, <1>4, <2>1, <2>2, <2>4, <2>5 DEF IInv, HeadFound
  <1>6. CASE H # {}
    <2>1. /\ handled + 1 \in 1..Len(script)
          /\ Min(H) = handled + 1
          /\ offset < script[handled + 1] /\ script[handled + 1] <= offset + (end + n)
      BY <1>1, <1>2, <1>6, FirstHead DEF IInv
    <2>2. state' = "handling" /\ pos' = script[handled + 1] - offset
      BY <1>6, <2>1 DEF Receive
    <2>3. script[handled + 1] \in Nat /\ offset \in Int
      BY <1>1, <2>1, ScriptType DEF IInv
    <2>4. pos' \in 0..end' /\ pos' > 0
      BY <1>1, <2>1, <2>2, <2>3
    <2>5. TypeOK'
      BY <1>1, <2>2, <2>4 DEF IInv, TypeOK
    <2>6. HeadFound'
      BY <1>1, <1>2, <2>1, <2>2, <2>4 DEF HeadFound
    <2>7. HeadsAreFound'
      BY <2>2 DEF HeadsAreFound
    <2> QED BY <1>2, <1>3, <1>4, <2>2, <2>5, <2>6, <2>7 DEF IInv, Reading
  <1> QED BY <1>5, <1>6

\* The indices of a sequence of n elements to which one is appended.
LEMMA LastOrEarlier ==
    ASSUME NEW n \in Nat
    PROVE  /\ \A i \in 1..(n + 1) : i \in 1..n \/ i = n + 1
           /\ \A i, j \in 1..(n + 1) : i < j => i \in 1..n
           /\ \A i \in 1..n : i \in 1..(n + 1)
  OBVIOUS

\* The 550 of a client that is gone comes after its other answers.
LEMMA RejectedAnswers ==
    ASSUME IInv, state # "over", state' = "over", UNCHANGED <<script, method, handled>>,
           answers' \in Seq(0..Len(script)), Len(answers') = Len(answers) + 1,
           answers'[Len(answers) + 1] = 0,
           \A i \in 1..Len(answers) : answers'[i] = answers[i]
    PROVE  Answers'
  <1>1. /\ (\A i \in 1..Len(answers) : answers[i] # 0)
        /\ answers \in Seq(0..Len(script)) /\ Len(script) \in Nat /\ Len(answers) \in Nat
    BY NoneRejected, AnswersType, ScriptType DEF IInv
  <1> DEFINE n == Len(answers)
  <1>length. n \in Nat /\ Len(answers') = n + 1
    BY <1>1
  <1>indices.
        /\ \A i \in 1..Len(answers') : i \in 1..n \/ i = n + 1
        /\ \A i, j \in 1..Len(answers') : i < j => i \in 1..n
        /\ \A i \in 1..n : i \in 1..Len(answers')
    <2> HIDE DEF n
    <2> QED BY <1>length, LastOrEarlier
  <1>2. \A i \in 1..Len(answers') :
          answers'[i] = 0 \/ (answers'[i] \in 1..handled /\ method[answers'[i]] = "GET")
    <2> SUFFICES ASSUME NEW i \in 1..Len(answers')
                 PROVE  \/ answers'[i] = 0
                        \/ answers'[i] \in 1..handled /\ method[answers'[i]] = "GET"
      OBVIOUS
    <2>1. CASE i = Len(answers) + 1
      BY <2>1
    <2>2. CASE i \in 1..Len(answers)
      BY <2>2 DEF IInv, Answers
    <2> QED BY <1>indices, <2>1, <2>2
  <1>3. \A g \in 1..handled : method[g] = "GET" => \E i \in 1..Len(answers') : answers'[i] = g
    <2> SUFFICES ASSUME NEW g \in 1..handled, method[g] = "GET"
                 PROVE  \E i \in 1..Len(answers') : answers'[i] = g
      OBVIOUS
    <2>1. PICK i \in 1..Len(answers) : answers[i] = g
      BY DEF IInv, Answers
    <2> QED BY <1>indices, <2>1
  <1>4. \A i, j \in 1..Len(answers') :
          i < j => answers'[i] # 0 /\ (answers'[i] < answers'[j] \/ answers'[j] = 0)
    <2> SUFFICES ASSUME NEW i \in 1..Len(answers'), NEW j \in 1..Len(answers'), i < j
                 PROVE  answers'[i] # 0 /\ (answers'[i] < answers'[j] \/ answers'[j] = 0)
      OBVIOUS
    <2>1. i \in 1..Len(answers) /\ answers'[i] = answers[i]
      BY <1>indices
    <2>2. CASE j = Len(answers) + 1
      BY <1>1, <2>1, <2>2
    <2>3. CASE j \in 1..Len(answers)
      BY <1>1, <2>1, <2>3 DEF IInv, Answers
    <2> QED BY <1>indices, <2>2, <2>3
  <1> QED BY <1>2, <1>3, <1>4 DEF IInv, Answers

LEMMA ReceiveNothingInv == ASSUME IInv, ReceiveNothing PROVE IInv'
  <1> USE DEF client, buffer
  <1>1. /\ state = "receiving" /\ UNCHANGED <<client, buffer, received, handled>>
        /\ size \in Nat /\ end \in 0..size
        /\ pos = NoPos => end > 0
        /\ size = end => size = 0
    BY DEF ReceiveNothing, IInv, TypeOK, Reading
  <1>2. (closed /\ received = arrived) \/ size = 0
    BY <1>1 DEF ReceiveNothing
  <1>3. /\ Len(answers) <= handled /\ (\A i \in 1..Len(answers) : answers[i] # 0)
        /\ 0 \notin Range(answers)
        /\ answers \in Seq(0..Len(script)) /\ Len(script) \in Nat /\ handled \in Nat
    BY <1>1, NoneRejected, AnswersType, ScriptType DEF IInv
  <1>4. Start' = Start
    BY <1>1 DEF Start
  <1>5. CASE pos = NoPos
    <2>1. state' = "undefined" /\ answers' = answers
      BY <1>5 DEF ReceiveNothing
    <2>2. TypeOK'
      BY <1>1, <2>1 DEF IInv, TypeOK
    <2>3. Patience' /\ HeadsAreFound'
      BY <1>1, <2>1 DEF IInv, Patience, HeadsAreFound
    <2>4. closed /\ received = arrived /\ \A k \in 1..Len(script) : received # script[k]
      BY <1>1, <1>2, <1>5 DEF IInv, Reading
    <2>5. Answers'
      BY <1>1, <1>3, <2>1 DEF IInv, Answers
    <2> QED BY <1>1, <1>4, <2>1, <2>2, <2>3, <2>4, <2>5
            DEF IInv, Reading, HeadFound, EndIsReal, UndefinedOnlyInHead
  <1>6. CASE pos # NoPos
    <2>1. state' = "over" /\ answers' = Append(answers, 0)
      BY <1>6 DEF ReceiveNothing
    <2>2. /\ answers' \in Seq(0..Len(script)) /\ Len(answers') = Len(answers) + 1
          /\ answers'[Len(answers) + 1] = 0
          /\ \A i \in 1..Len(answers) : answers'[i] = answers[i]
      BY <1>3, <2>1
    <2>3. TypeOK'
      BY <1>1, <2>1, <2>2 DEF IInv, TypeOK
    <2>4. Answers'
      BY <1>1, <2>1, <2>2, RejectedAnswers DEF IInv
    <2>5. EndIsReal'
      BY <1>1, <1>2 DEF EndIsReal
    <2>6. Patience' /\ HeadsAreFound'
      BY <1>1, <1>3, <2>1, <2>2 DEF IInv, Patience, HeadsAreFound
    <2> QED BY <1>1, <1>4, <2>1, <2>3, <2>4, <2>5, <2>6
            DEF IInv, Reading, HeadFound, UndefinedOnlyInHead
  <1> QED BY <1>5, <1>6

\* Of a request it answers, passes over or rejects, make_client leaves the
\* answers in order.
LEMMA HandledAnswers ==
    ASSUME IInv, Handle
    PROVE  /\ Answers' /\ answers' \in Seq(0..Len(script))
           /\ Len(answers') >= Len(answers)
           /\ 0 \in Range(answers') => \E k \in 1..handled' : method[k] = "empty"
  <1> USE DEF client
  <1>1. /\ state = "handling" /\ handled' = handled + 1 /\ UNCHANGED client
        /\ pos = script[handled + 1] - (received - end) /\ handled + 1 \in 1..Len(script)
        /\ received \in Nat /\ end \in Nat
    <2>1. state = "handling" /\ handled' = handled + 1 /\ UNCHANGED client
      BY DEF Handle
    <2>2. Len(script) \in Nat /\ handled \in 0..Len(script) /\ size \in Nat
          /\ end \in 0..size /\ arrived \in Nat /\ received \in 0..arrived
      BY ScriptType DEF IInv, TypeOK
    <2> QED BY <2>1, <2>2 DEF IInv, HeadFound
  <1>2. /\ Len(answers) <= handled /\ (\A i \in 1..Len(answers) : answers[i] # 0)
        /\ 0 \notin Range(answers)
        /\ answers \in Seq(0..Len(script)) /\ Len(script) \in Nat /\ handled \in Nat
        /\ Len(answers) \in Nat
    BY <1>1, NoneRejected, AnswersType, ScriptType DEF IInv
  <1>3. PICK k \in 1..Len(script) :
          /\ Found(k)
          /\ \/ method[k] = "GET" /\ answers' = Append(answers, k) /\ KeepAlive
             \/ method[k] = "other" /\ UNCHANGED answers /\ KeepAlive
             \/ method[k] = "empty" /\ answers' = Append(answers, 0) /\ state' = "over"
    BY DEF Handle
  <1>4. k = handled + 1
    <2>1. script[k] \in Nat /\ script[handled + 1] \in Nat
      BY <1>1, <1>3, ScriptType DEF IInv
    <2>2. script[k] = script[handled + 1]
      BY <1>1, <1>3, <2>1 DEF Found
    <2> QED BY <1>1, <1>2, <1>3, <2>1, <2>2, ScriptType DEF IInv
  <1>5. \A i \in 1..Len(answers) :
          answers[i] \in 1..handled /\ method[answers[i]] = "GET"
    BY <1>2 DEF IInv, Answers
  <1>6. \A i, j \in 1..Len(answers) : i < j => answers[i] < answers[j]
    BY <1>2 DEF IInv, Answers
  <1>7. \A g \in 1..handled : method[g] = "GET" => \E i \in 1..Len(answers) : answers[i] = g
    BY DEF IInv, Answers
  <1>8. CASE method[k] = "GET"
    <2>1. answers' = Append(answers, k)
      BY <1>3, <1>8
    <2>2. /\ answers' \in Seq(0..Len(script)) /\ Len(answers') = Len(answers) + 1
          /\ answers'[Len(answers) + 1] = handled + 1
          /\ \A i \in 1..Len(answers) : answers'[i] = answers[i]
      BY <1>1, <1>2, <1>4, <2>1
    <2>length. Len(answers) \in Nat /\ Len(answers') = Len(answers) + 1
      BY <1>2, <2>2
    <2>indices.
          /\ \A i \in 1..Len(answers') : i \in 1..Len(answers) \/ i = Len(answers) + 1
          /\ \A i, j \in 1..Len(answers') : i < j => i \in 1..Len(answers)
          /\ \A i \in 1..Len(answers) : i \in 1..Len(answers')
      BY <2>length, LastOrEarlier
    <2>3. \A i \in 1..Len(answers') :
            answers'[i] \in 1..handled' /\ method'[answers'[i]] = "GET"
      <3> SUFFICES ASSUME NEW i \in 1..Len(answers')
                   PROVE  answers'[i] \in 1..handled' /\ method'[answers'[i]] = "GET"
        OBVIOUS
      <3>1. CASE i = Len(answers) + 1
        BY <1>1, <1>2, <1>4, <1>8, <2>2, <3>1
      <3>2. CASE i \in 1..Len(answers)
        <4>1. answers'[i] = answers[i]
          BY <2>2, <3>2
        <4>2. answers[i] \in 1..handled /\ method[answers[i]] = "GET"
          BY <1>5, <3>2
        <4>3. handled' = handled + 1 /\ method' = method /\ handled \in Nat
          BY <1>1, <1>2
        <4> QED BY <4>1, <4>2, <4>3
      <3> QED BY <2>indices, <3>1, <3>2
    <2>4. \A g \in 1..handled' : method'[g] = "GET" =>
            \E i \in 1..Len(answers') : answers'[i] = g
      <3> SUFFICES ASSUME NEW g \in 1..handled', method'[g] = "GET"
                   PROVE  \E i \in 1..Len(answers') : answers'[i] = g
        OBVIOUS
      <3>1. CASE g = handled + 1
        BY <1>2, <2>2, <3>1
      <3>2. CASE g \in 1..handled
        <4>1. PICK i \in 1..Len(answers) : answers[i] = g
          BY <1>1, <1>7, <3>2
        <4> QED BY <2>2, <2>indices, <4>1
      <3> QED BY <1>1, <1>2, <3>1, <3>2
    <2>5. \A i, j \in 1..Len(answers') : i < j => answers'[i] < answers'[j]
      <3> SUFFICES ASSUME NEW i \in 1..Len(answers'), NEW j \in 1..Len(answers'), i < j
                   PROVE  answers'[i] < answers'[j]
        OBVIOUS
      <3>1. i \in 1..Len(answers) /\ answers'[i] = answers[i] /\ answers[i] \in 1..handled
        BY <1>5, <2>2, <2>indices
      <3>2. CASE j = Len(answers) + 1
        BY <1>2, <2>2, <3>1, <3>2
      <3>3. CASE j \in 1..Len(answers)
        BY <1>6, <2>2, <3>1, <3>3
      <3> QED BY <2>indices, <3>2, <3>3
    <2>6. \A i \in 1..Len(answers') : answers'[i] # 0
      BY <1>1, <1>2, <2>3
    <2>7. 0 \notin Range(answers')
      BY <2>2, <2>6 DEF Range
    <2>8. handled' \in 0..Len(script') /\ Len(answers') <= handled'
      BY <1>1, <1>2, <2>2
    <2> QED BY <1>2, <2>2, <2>3, <2>4, <2>5, <2>6, <2>7, <2>8 DEF Answers
  <1>9. CASE method[k] = "other"
    <2>1. answers' = answers /\ method' = method
      BY <1>1, <1>3, <1>9
    <2>2. handled' \in 0..Len(script') /\ Len(answers') <= handled'
      BY <1>1, <1>2, <2>1
    <2>3. \A g \in 1..handled' : method'[g] = "GET" =>
            \E i \in 1..Len(answers') : answers'[i] = g
      BY <1>1, <1>2, <1>4, <1>7, <1>9, <2>1
    <2>4. \A i \in 1..Len(answers') :
            answers'[i] \in 1..handled' /\ method'[answers'[i]] = "GET"
      BY <1>1, <1>2, <1>5, <2>1
    <2> QED BY <1>2, <1>6, <2>1, <2>2, <2>3, <2>4 DEF Answers
  <1>10. CASE method[k] = "empty"
    <2>1. answers' = Append(answers, 0) /\ state' = "over" /\ method' = method
      BY <1>1, <1>3, <1>10
    <2>2. /\ answers' \in Seq(0..Len(script)) /\ Len(answers') = Len(answers) + 1
          /\ answers'[Len(answers) + 1] = 0
          /\ \A i \in 1..Len(answers) : answers'[i] = answers[i]
      BY <1>2, <2>1
    <2>length. Len(answers) \in Nat /\ Len(answers') = Len(answers) + 1
      BY <1>2, <2>2
    <2>indices.
          /\ \A i \in 1..Len(answers') : i \in 1..Len(answers) \/ i = Len(answers) + 1
          /\ \A i, j \in 1..Len(answers') : i < j => i \in 1..Len(answers)
          /\ \A i \in 1..Len(answers) : i \in 1..Len(answers')
      BY <2>length, LastOrEarlier
    <2>3. handled' \in 0..Len(script')
      BY <1>1, <1>2
    <2>4. \A g \in 1..handled' : method'[g] = "GET" =>
            \E i \in 1..Len(answers') : answers'[i] = g
      <3> SUFFICES ASSUME NEW g \in 1..handled', method'[g] = "GET"
                   PROVE  \E i \in 1..Len(answers') : answers'[i] = g
        OBVIOUS
      <3>1. g \in 1..handled
        BY <1>1, <1>2, <1>4, <1>10, <2>1
      <3>2. PICK i \in 1..Len(answers) : answers[i] = g
        BY <1>7, <2>1, <3>1
      <3> QED BY <2>2, <2>indices, <3>2
    <2>5. \A i \in 1..Len(answers') :
            answers'[i] = 0 \/ (answers'[i] \in 1..handled' /\ method'[answers'[i]] = "GET")
      <3> SUFFICES ASSUME NEW i \in 1..Len(answers'), answers'[i] # 0
                   PROVE  answers'[i] \in 1..handled' /\ method'[answers'[i]] = "GET"
        OBVIOUS
      <3>1. i \in 1..Len(answers) /\ answers'[i] = answers[i]
        BY <2>2, <2>indices
      <3> QED BY <1>1, <1>2, <1>5, <2>1, <3>1
    <2>6. \A i, j \in 1..Len(answers') :
            i < j => answers'[i] # 0 /\ (answers'[i] < answers'[j] \/ answers'[j] = 0)
      <3> SUFFICES ASSUME NEW i \in 1..Len(answers'), NEW j \in 1..Len(answers'), i < j
                   PROVE  answers'[i] # 0 /\ (answers'[i] < answers'[j] \/ answers'[j] = 0)
        OBVIOUS
      <3>1. i \in 1..Len(answers) /\ answers'[i] = answers[i]
        BY <2>2, <2>indices
      <3>2. CASE j = Len(answers) + 1
        BY <1>2, <2>2, <3>1, <3>2
      <3>3. CASE j \in 1..Len(answers)
        BY <1>2, <1>6, <2>2, <3>1, <3>3
      <3> QED BY <2>indices, <3>2, <3>3
    <2>7. handled + 1 \in 1..handled' /\ method[handled + 1] = "empty"
      BY <1>1, <1>2, <1>4, <1>10
    <2> QED BY <1>2, <2>1, <2>2, <2>3, <2>4, <2>5, <2>6, <2>7 DEF Answers
  <1>11. k \in DOMAIN method /\ method[k] \in Methods
    BY <1>3 DEF IInv, TypeOK
  <1> QED BY <1>8, <1>9, <1>10, <1>11 DEF Methods

LEMMA HandleInv == ASSUME IInv, Handle PROVE IInv'
  <1> USE DEF client
  <1>1. /\ state = "handling" /\ state' \in {"filling", "over"}
        /\ size' = size - pos /\ end' = end - pos /\ pos' = 0 /\ handled' = handled + 1
        /\ script' = script /\ method' = method /\ pipelines' = pipelines
        /\ arrived' = arrived /\ closed' = closed /\ received' = received
    <2>1. state = "handling" /\ handled' = handled + 1 /\ Consume /\ UNCHANGED <<client, received>>
      BY DEF Handle
    <2>2. state' \in {"filling", "over"}
      BY DEF Handle, KeepAlive
    <2> QED BY <2>1, <2>2 DEF Consume
  <1>2. /\ Len(script) \in Nat /\ handled \in Nat /\ Len(answers) \in Nat
        /\ Len(answers) <= handled
    BY <1>1, NoneRejected, AnswersType, ScriptType DEF IInv
  <1>3. /\ handled + 1 \in 1..Len(script)
        /\ pos = script[handled + 1] - (received - end) /\ pos > 0
        /\ size \in Nat /\ end \in 0..size /\ received \in Nat /\ pos \in 0..end
    BY <1>1, <1>2 DEF IInv, TypeOK, HeadFound, NoPos
  <1>4. /\ Answers' /\ answers' \in Seq(0..Len(script)) /\ Len(answers') >= Len(answers)
        /\ 0 \in Range(answers') => \E k \in 1..handled' : method[k] = "empty"
    BY HandledAnswers
  <1>5. received' - end' = Start'
    <2>1. Start' = script[handled + 1]
      BY <1>1, <1>2 DEF Start
    <2>2. script[handled + 1] \in Nat
      BY <1>3, ScriptType DEF IInv
    <2>3. received - (end - pos) = script[handled + 1]
      BY <1>3, <2>2
    <2> QED BY <1>1, <2>1, <2>3
  <1>6. TypeOK'
    <2>1. size' \in Nat /\ end' \in 0..size' /\ pos' \in {NoPos} \cup 0..end'
      BY <1>1, <1>3
    <2>2. handled' \in 0..Len(script')
      BY <1>1, <1>2, <1>3
    <2>3. /\ script' \in Scripts /\ method' \in [1..Len(script') -> Methods]
          /\ arrived' \in Nat /\ received' \in 0..arrived'
      BY <1>1 DEF IInv, TypeOK
    <2>4. answers' \in Seq(0..Len(script'))
      BY <1>1, <1>4
    <2> QED BY <1>1, <2>1, <2>2, <2>3, <2>4 DEF TypeOK
  <1>7. EndIsReal' /\ UndefinedOnlyInHead'
    BY <1>1, <1>4 DEF EndIsReal, UndefinedOnlyInHead
  <1>8. Reading' /\ HeadFound'
    BY <1>1 DEF Reading, HeadFound, NoPos
  <1>9. Patience'
    <2> SUFFICES ASSUME ~pipelines, NEW k \in 1..Len(script), Len(answers') + 1 < k
                 PROVE  arrived < script[k]
      BY <1>1 DEF Patience
    <2>1. Len(answers') \in Nat /\ Len(answers) + 1 < k
      BY <1>2, <1>4
    <2> QED BY <2>1 DEF IInv, Patience
  <1>10. HeadsAreFound'
    <2> SUFFICES ASSUME ~pipelines, Heads(received - end, end)' # {}
                 PROVE  FALSE
      BY <1>1 DEF HeadsAreFound, NoPos
    <2> DEFINE next == handled' + 1
    <2>1. (received - end)' \in Int /\ end' \in Nat /\ received' \in Nat
          /\ received' <= arrived' /\ arrived' \in Nat
      BY <1>6 DEF TypeOK
    <2>2. next \in 1..Len(script') /\ script'[next] <= (received - end)' + end'
      BY <1>4, <1>5, <1>6, FirstInBufferNext DEF HeadInBuffer, NextInBuffer
    <2>3. arrived < script[next]
      BY <1>1, <1>2, <2>2 DEF IInv, Patience
    <2>4. script[next] \in Nat
      BY <1>1, <2>2, ScriptType DEF IInv
    <2>5. script' = script /\ arrived' = arrived
      BY <1>1
    <2>6. (received - end)' + end' = received'
      <3>1. \A r, e \in Nat : (r - e) + e = r
        OBVIOUS
      <3>2. (received - end)' = received' - end'
        OBVIOUS
      <3> QED BY <2>1, <3>1, <3>2
    <2> HIDE DEF next
    <2>7. script'[next] <= received' /\ script'[next] \in Nat
      <3>1. script'[next] <= received'
        BY <2>2, <2>6
      <3> QED BY <2>4, <2>5, <3>1
    <2>8. arrived' < script'[next]
      BY <2>3, <2>5
    <2> QED BY <2>1, <2>7, <2>8
  <1> QED BY <1>4, <1>5, <1>6, <1>7, <1>8, <1>9, <1>10 DEF IInv

LEMMA AbandonInv == ASSUME IInv, Abandon PROVE IInv'
  <1> USE DEF Abandon, client, buffer
  <1>1. Start' = Start
    BY DEF Start
  <1>2. TypeOK'
    BY DEF IInv, TypeOK
  <1>3. EndIsReal' /\ UndefinedOnlyInHead'
    BY NoneRejected DEF EndIsReal, UndefinedOnlyInHead
  <1>4. Patience' /\ HeadsAreFound'
    BY DEF IInv, Patience, HeadsAreFound
  <1> QED BY <1>1, <1>2, <1>3, <1>4 DEF IInv, Answers, Reading, HeadFound

LEMMA NextInv == ASSUME IInv, [Next]_vars PROVE IInv'
  <1>1. CASE UNCHANGED vars
    <2> USE <1>1 DEF vars
    <2>1. Start' = Start
      BY DEF Start
    <2>2. Patience' /\ HeadsAreFound'
      BY DEF IInv, Patience, HeadsAreFound, Heads
    <2> QED BY <2>1, <2>2
            DEF IInv, TypeOK, Answers, Reading, HeadFound, EndIsReal, UndefinedOnlyInHead
  <1>2. CASE Serve
    BY <1>2, AskForMoreInv, ReceiveInv, ReceiveNothingInv, HandleInv DEF Serve
  <1> QED BY <1>1, <1>2, SendInv, CloseInv, AbandonInv DEF Next

(***************************************************************************)
(* The invariant of a conversation: the buffer begins where the next       *)
(* request does, and a head in it is found as soon as it is there.         *)
(***************************************************************************)
THEOREM Invariance == Spec => []IInv
  <1>1. Init => IInv
    BY InitInv
  <1>2. IInv /\ [Next]_vars => IInv'
    BY NextInv
  <1> QED BY <1>1, <1>2, PTL DEF Spec

\* Every variable keeps its type: consume() never takes more than there is.
THEOREM ConversationTyped == Spec => []TypeOK
  <1>1. IInv => TypeOK
    BY DEF IInv
  <1> QED BY <1>1, Invariance, PTL

\* What is answered are the GETs among the requests read, in order, none twice
\* and none left out.
THEOREM AnsweredInOrder == Spec => []InOrder
  <1>1. IInv => InOrder
    <2> SUFFICES ASSUME IInv PROVE InOrder
      OBVIOUS
    <2>1. Range(answers) = {answers[i] : i \in 1..Len(answers)} /\ handled \in Nat
      BY AnswersType DEF IInv, Range
    <2>2. Range(answers) \ {0} = {k \in 1..handled : method[k] = "GET"}
      BY <2>1 DEF IInv, Answers
    <2> QED BY <2>2 DEF IInv, Answers, Start, InOrder
  <1> QED BY <1>1, Invariance, PTL

\* No whole head is left in the buffer while the server waits for more, unless
\* it came together with the one before.
THEOREM NoHeadIsMissed == Spec => []HeadsAreFound
  <1>1. IInv => HeadsAreFound
    BY DEF IInv
  <1> QED BY <1>1, Invariance, PTL

\* Only a client that has gone, or a buffer used up exactly, ends in a 550.
THEOREM RejectedForReason == Spec => []EndIsReal
  <1>1. IInv => EndIsReal
    BY DEF IInv
  <1> QED BY <1>1, Invariance, PTL

\* The erase() up to npos happens only to clients that leave inside a head.
THEOREM UndefinedInHead == Spec => []UndefinedOnlyInHead
  <1>1. IInv => UndefinedOnlyInHead
    BY DEF IInv
  <1> QED BY <1>1, Invariance, PTL
=============================================================================
