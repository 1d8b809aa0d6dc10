---------------------------- MODULE RequestStream ----------------------------
(***************************************************************************)
(* A conversation of examples/simple-http-server.cpp: make_client reads    *)
(* requests through the growing and shrinking buffer of buffered_stream,   *)
(* answers those whose method is GET, and may be ended by the timeout      *)
(* around it.  Of the bytes of a request only where its head ends and what *)
(* comes before the first blank, its method, matter.                       *)
(***************************************************************************)
EXTENDS Integers, Sequences, FiniteSetsExt, Functions

CONSTANTS
    Scripts,      \* what clients send: the offsets at which the heads end
    Separator,    \* the length of the empty line that ends a head: 4
    InitialSize   \* the size of the buffer at first: 1024

ASSUME SizesAssumption == InitialSize \in Nat \ {0} /\ Separator \in Nat \ {0}

\* Every head has a separator of its own.
ASSUME ScriptsAssumption ==
    \A s \in Scripts :
        /\ s \in Seq(Nat)
        /\ \A k \in 1..Len(s) : Separator <= s[k]
        /\ \A j, k \in 1..Len(s) : j < k => s[j] + Separator <= s[k]

VARIABLES
    script,    \* what this client sends
    method,    \* of each of its requests: GET, another, or none before the blank
    pipelines, \* whether it sends a request before the last is answered
    arrived,   \* how many bytes have arrived at the server's socket
    closed,    \* whether the client has gone
    size,      \* buffer.size()
    pos,       \* the end of the head that was found, 0, or NoPos
    end,       \* how many bytes the buffer holds
    received,  \* how many bytes the server has received
    handled,   \* how many requests read_http_request() has returned
    state,     \* of make_client
    answers    \* the requests answered, 0 for "550 ERROR"

buffer == <<size, pos, end>>
client == <<script, method, pipelines, arrived, closed>>
vars == <<script, method, pipelines, arrived, closed, size, pos, end,
          received, handled, state, answers>>

\* std::string_view::npos
NoPos == -1

Methods == {"GET", "other", "empty"}

TypeOK == /\ script \in Scripts
          /\ method \in [1..Len(script) -> Methods]
          /\ size \in Nat /\ end \in 0..size /\ pos \in {NoPos} \cup 0..end
          /\ arrived \in Nat /\ received \in 0..arrived
          /\ handled \in 0..Len(script)
          /\ state \in {"filling", "receiving", "handling", "over", "undefined"}
          /\ answers \in Seq(0..Len(script))

Init == /\ script \in Scripts
        /\ method \in [1..Len(script) -> Methods]
        /\ pipelines \in BOOLEAN
        /\ arrived = 0
        /\ closed = FALSE
        /\ size = InitialSize
        /\ pos = 0
        /\ end = 0
        /\ received = 0
        /\ handled = 0
        /\ state = "filling"
        /\ answers = <<>>

-----------------------------------------------------------------------------
\* A client that does not pipeline waits for the answer to all it has sent.
SendsUpTo ==
    IF pipelines THEN script[Len(script)]
    ELSE script[Min({Len(answers) + 1, Len(script)})]

Send(upto) ==
    /\ ~closed
    /\ arrived < upto
    /\ arrived' = upto
    /\ UNCHANGED <<script, method, pipelines, closed, buffer, received, handled, state, answers>>

Close ==
    /\ ~closed
    /\ closed' = TRUE
    /\ UNCHANGED <<script, method, pipelines, arrived, buffer, received, handled, state, answers>>

-----------------------------------------------------------------------------
\* As a bug: the buffer grows only when it holds more than it can.
GrownLate == IF size < end THEN 2 * size ELSE size

Grown == IF size = end THEN 2 * size ELSE size

AskForMore ==
    /\ state = "filling"
    /\ state' = "receiving"
    /\ size' = Grown
    /\ UNCHANGED <<client, pos, end, received, handled, answers>>

\* As a bug: a head that ends the data is not found.
HeadsBeforeMore(offset, n) ==
    {k \in 1..Len(script) : offset <= script[k] - Separator /\ script[k] < offset + n}

\* The heads that lie in n bytes from an offset of the stream on.
Heads(offset, n) ==
    {k \in 1..Len(script) : offset <= script[k] - Separator /\ script[k] <= offset + n}

\* As a bug: find() starts at the new bytes, and misses what spans the two.
FoundInNew(n) == Heads(received, n)

\* find(sep) looks at the whole buffer, the n new bytes and those before them.
FoundWith(n) == Heads(received - end, end + n)

Receive(n) ==
    /\ state = "receiving"
    /\ n <= size - end
    /\ n <= arrived - received
    /\ received' = received + n
    /\ end' = end + n
    /\ LET heads == FoundWith(n)
       IN IF heads = {} THEN state' = "filling" /\ pos' = NoPos
          ELSE state' = "handling" /\ pos' = script[Min(heads)] - (received - end)
    /\ UNCHANGED <<client, size, handled, answers>>

\* recvmsg() returns 0: there is nothing more to come, or no room for it.
\* read_http_request() then calls consume(); what an erase() up to npos does is
\* not defined.
ReceiveNothing ==
    /\ state = "receiving"
    /\ \/ closed /\ received = arrived
       \/ size = end /\ received < arrived
    /\ IF pos = NoPos
       THEN state' = "undefined" /\ UNCHANGED answers
       ELSE state' = "over" /\ answers' = Append(answers, 0)
    /\ UNCHANGED <<client, buffer, received, handled>>

\* As a bug: end still counts what was erased.
ConsumeKeepsEnd == size' = size - pos /\ pos' = 0 /\ UNCHANGED end

Consume == size' = size - pos /\ end' = end - pos /\ pos' = 0

\* The request whose head ends at pos.
Found(k) == script[k] = received - end + pos

KeepAlive == \E keepAlive \in BOOLEAN : state' = IF keepAlive THEN "filling" ELSE "over"

\* make_client answers a GET, passes over a request with another method without
\* a word, and rejects one without: its consume() and what follows.
Handle ==
    /\ state = "handling"
    /\ Consume
    /\ handled' = handled + 1
    /\ \E k \in 1..Len(script) :
         /\ Found(k)
         /\ \/ method[k] = "GET" /\ answers' = Append(answers, k) /\ KeepAlive
            \/ method[k] = "other" /\ UNCHANGED answers /\ KeepAlive
            \/ method[k] = "empty" /\ answers' = Append(answers, 0) /\ state' = "over"
    /\ UNCHANGED <<client, received>>

\* While it waits for bytes or sends an answer, the timer of when_any completes
\* first and the client is stopped, or the operation fails and throws.
Abandon ==
    /\ \/ state = "receiving"
       \/ state = "handling" /\ \E k \in 1..Len(script) : Found(k) /\ method[k] # "other"
    /\ state' = "over"
    /\ UNCHANGED <<client, buffer, received, handled, answers>>

Serve == AskForMore \/ (\E n \in 1..size - end : Receive(n)) \/ ReceiveNothing \/ Handle

Next == \/ \E upto \in 1..SendsUpTo : Send(upto)
        \/ Close
        \/ Serve
        \/ Abandon

Spec == Init /\ [][Next]_vars

\* The loop runs, and goes on with a client for which there is something to do.
FairSpec == Spec /\ WF_vars(Serve)

-----------------------------------------------------------------------------
(***************************************************************************)
(* However the bytes arrive, what is answered are the GETs among the       *)
(* requests read so far, in order and once each, a 550 is the last answer, *)
(* and what the buffer starts with is the start of the next request.       *)
(***************************************************************************)
InOrder ==
    /\ Range(answers) \ {0} = {k \in 1..handled : method[k] = "GET"}
    /\ \A i, j \in 1..Len(answers) :
         i < j => answers[i] # 0 /\ (answers[i] < answers[j] \/ answers[j] = 0)
    /\ received - end = IF handled = 0 THEN 0 ELSE script[handled]

(***************************************************************************)
(* A client that is there is told 550 only for a request without a method, *)
(* or when its requests have taken up the buffer to the last byte: what is *)
(* erased is not given back, and an empty buffer does not grow by          *)
(* doubling.                                                               *)
(***************************************************************************)
EndIsReal ==
    0 \in Range(answers) \/ state = "undefined" =>
        closed \/ size = 0 \/ \E k \in 1..handled : method[k] = "empty"

(***************************************************************************)
(* The erase() up to npos needs a client that leaves in the middle of a    *)
(* head: one that leaves after a head gets its 550, pipelined or not.      *)
(***************************************************************************)
UndefinedOnlyInHead ==
    state = "undefined" =>
        closed /\ received = arrived /\ \A k \in 1..Len(script) : received # script[k]

(***************************************************************************)
(* While the server waits for more bytes it holds no whole head - or only  *)
(* one that came together with the head before it, which read_head() will  *)
(* look for after the next receive.  So the server never waits for a       *)
(* client that waits, but for one that waits for the answer to a request   *)
(* with another method, which it does not give.                            *)
(***************************************************************************)
HeadsAreFound ==
    state \in {"filling", "receiving"} /\ (pipelines => pos = NoPos)
        => Heads(received - end, end) = {}

(***************************************************************************)
(* A request that has arrived from a client that waits for its answers is  *)
(* answered, or passed over if its method is another than GET, or the      *)
(* conversation ends.  (The second of two requests that arrive together    *)
(* waits for bytes after it: read_head() receives before it looks.)        *)
(***************************************************************************)
Places == UNION {DOMAIN s : s \in Scripts}

Answered == \A k \in Places :
    (~pipelines /\ k <= Len(script) /\ arrived >= script[k])
        ~> \/ k \in Range(answers)
           \/ k <= handled /\ method[k] = "other"
           \/ state \in {"over", "undefined"}
=============================================================================
