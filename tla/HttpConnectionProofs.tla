------------------------ MODULE HttpConnectionProofs ------------------------
(* Proofs about HttpConnection, for every set of requests and responses,   *)
(* every size of the buffers, and any number of attempts and observers.    *)
EXTENDS HttpConnection, TLAPS

-----------------------------------------------------------------------------
(* The rotation of the observers. *)

(* The remainder of what is less than twice the divisor. *)
LEMMA Remainder ==
  ASSUME NEW n \in Nat \ {0}, NEW a \in 0..(2 * n - 1)
  PROVE  a % n = IF a < n THEN a ELSE a - n
<1>1. CASE a < n
  BY <1>1
<1>2. CASE a >= n
  <2>1. a = n * 1 + (a - n) /\ a - n \in 0..(n - 1)
    BY <1>2
  <2> QED
    BY <1>2, <2>1
<1> QED
  BY <1>1, <1>2

(* The observer that is asked after k others when s is the first. *)
At(s, k) == ((s - 1 + k) % Observers) + 1

LEMMA AtIs ==
  ASSUME Observers > 0, NEW s \in 1..Observers, NEW k \in 0..(Observers - 1)
  PROVE  At(s, k) = IF s + k <= Observers THEN s + k ELSE s + k - Observers
<1>1. Observers \in Nat \ {0} /\ s - 1 + k \in 0..(2 * Observers - 1)
  BY HttpConnectionAssumption
<1>2. (s - 1 + k) % Observers
        = IF s - 1 + k < Observers THEN s - 1 + k ELSE s - 1 + k - Observers
  BY <1>1, Remainder
<1> QED
  BY <1>1, <1>2 DEF At

LEMMA RotationInjective ==
  ASSUME Observers > 0, NEW s \in 1..Observers,
         NEW j \in 0..(Observers - 1), NEW k \in 0..(Observers - 1), At(s, j) = At(s, k)
  PROVE  j = k
BY AtIs, HttpConnectionAssumption

(* A whole round visits every observer. *)
LEMMA RotationCovers ==
  ASSUME Observers > 0, NEW s \in 1..Observers
  PROVE  {At(s, k) : k \in 0..(Observers - 1)} = 1..Observers
<1>1. \A k \in 0..(Observers - 1) : At(s, k) \in 1..Observers
  BY AtIs, HttpConnectionAssumption
<1>2. ASSUME NEW o \in 1..Observers
      PROVE  \E k \in 0..(Observers - 1) : At(s, k) = o
  <2> DEFINE k == IF o >= s THEN o - s ELSE o - s + Observers
  <2>1. k \in 0..(Observers - 1)
    BY HttpConnectionAssumption
  <2>2. At(s, k) = o
    BY <2>1, AtIs, HttpConnectionAssumption
  <2> QED
    BY <2>1, <2>2
<1> QED
  BY <1>1, <1>2

-----------------------------------------------------------------------------
(* The inductive invariant. *)

(* How much of a message is there at each stage.                           *)
Framing ==
  /\ request = None => pc \in {"collect", "closed"} /\ got = 0
  /\ request # None => got <= Size(request)
  /\ pc = "collect" => got <= MaxPayload
  /\ got <= MaxPayload + MaxRead
  /\ Busy => gone \/ got = Size(request)
  /\ pc = "await" => response # None /\ read <= Size(response)
  /\ pc # "await" => response = None /\ read = 0 /\ hungUp = FALSE
  /\ read <= MaxPayload

(* How many upstream servers have been called.                             *)
Counting ==
  /\ pc = "collect" => asked = 0
  /\ pc = "handle" => asked < Attempts /\ (request.app # "validator" => asked = 0)
  /\ pc \in {"called", "await", "closed", "panicked"} => asked <= Attempts
  /\ pc = "pause" => asked < Attempts /\ request.app = "validator"
  /\ pc = "observe" => asked <= Observers

(* Which observers a round has asked.                                      *)
Round ==
  /\ pc # "observe" => tried = {}
  /\ pc = "observe" =>
       /\ Observers > 0 /\ start \in 1..Observers
       /\ tried = {At(start, k) : k \in 0..(asked - 1)}

Inv == TypeOK /\ Framing /\ Counting /\ Round

(* The read that does not complete a response. *)
ReceiveMore ==
  /\ pc = "await" /\ ~hungUp
  /\ \E n \in Chunks(response, read) :
       /\ ~Collected(response, read + n) /\ ~TooLarge(response, read + n)
       /\ read' = read + n
       /\ UNCHANGED <<pc, client, asked, round, response, hungUp, gateway, history>>

(* What a step does to the connection, apart from what it answers.         *)
LEMMA Steps ==
  ASSUME Next
  PROVE  \/ SendRequest \/ HangUp \/ Collect \/ CollectEnd
         \/ pc \in {"collect", "handle"} /\ Close
         \/ Turn \/ Panic
         \/ pc \in {"called", "await"} /\ Retry
         \/ Resume \/ Call \/ CallSucceeds
         \/ UpstreamHangsUp \/ ReceiveMore
         \/ TransactionGet \/ ObserverFails
         \/ UNCHANGED <<pc, client, upstream, history>> /\ rr' \in {rr, NextIndex}
<1>1. CASE Serve
  BY <1>1 DEF Serve, AnswerLocally, AnswerDebug, AnswerCached, Answer, CallFails, ReceiveEnd,
              Fail, GiveUp, Relay, NotifyBridgeout, ObserverAnswers, ObserverBreaks, ObserversFail
<1>2. CASE Receive \/ ReceiveFails
  BY <1>2 DEF Receive, ReceiveFails, ReceiveMore, Fail, GiveUp, Answer, Relay
<1>3. CASE KeepAliveEnds
  BY <1>3 DEF KeepAliveEnds
<1>4. CASE Closed \/ OthersRound \/ Forwarding
  BY <1>4 DEF Closed, OthersRound, Forwarding, Post, PostFails, vars, gateway
<1> QED
  BY <1>1, <1>2, <1>3, <1>4 DEF Next

LEMMA MessageSizes ==
  /\ \A q \in Requests :
       /\ q.head \in Nat \ {0} /\ Size(q) \in Nat /\ Declared(q) \in Nat
       /\ q.head + Declared(q) = Size(q)
  /\ \A p \in Responses :
       /\ p.head \in Nat \ {0} /\ Size(p) \in Nat /\ Declared(p) \in Nat
       /\ p.length # None => p.head + Declared(p) = Size(p)
BY HttpConnectionAssumption DEF Messages, Size, Declared

LEMMA InitInv == Init => Inv
<1> SUFFICES ASSUME Init
             PROVE  Inv
  OBVIOUS
<1> USE HttpConnectionAssumption
<1>1. TypeOK
  <2>1. NoAnswer \in [status : Nat, whole : BOOLEAN, cut : BOOLEAN]
    BY DEF NoAnswer
  <2>2. [r \in 1..MaxRequests |-> None] \in [1..MaxRequests -> 0..Observers \cup {None}]
    OBVIOUS
  <2> QED
    <3>1. /\ pc = "collect" /\ request = None /\ got = 0 /\ requests = 0 /\ gone = FALSE
          /\ asked = 0 /\ start = 1 /\ tried = {} /\ response = None /\ read = 0
          /\ hungUp = FALSE /\ rr = 0 /\ owed = FALSE
      BY DEF Init
    <3>2. /\ told \in [1..MaxRequests -> 0..Observers \cup {None}]
          /\ answer \in [status : Nat, whole : BOOLEAN, cut : BOOLEAN]
      BY <2>1, <2>2 DEF Init
    <3>3. Attempts \in Nat /\ MaxRequests \in Nat /\ Observers \in Nat
      OBVIOUS
    <3>4. /\ requests \in 0..MaxRequests /\ asked <= Attempts /\ asked \in Nat
          /\ got \in Nat /\ read \in Nat /\ start \in Nat \ {0} /\ rr \in Nat
      BY <3>1, <3>3
    <3>5. /\ request \in Requests \cup {None} /\ response \in Responses \cup {None}
          /\ tried \subseteq 1..Observers /\ gone \in BOOLEAN /\ hungUp \in BOOLEAN
          /\ owed \in BOOLEAN
      BY <3>1
    <3> QED
      BY <3>1, <3>2, <3>4, <3>5, Zenon DEF TypeOK
<1>2. Framing /\ Counting /\ Round
  BY DEF Init, Framing, Counting, Round, Busy
<1> QED
  BY <1>1, <1>2 DEF Inv

-----------------------------------------------------------------------------
(* The framing of the messages. *)

LEMMA FramingStep == Inv /\ [Next]_vars => Framing'
<1> SUFFICES ASSUME Inv, [Next]_vars
             PROVE  Framing'
  OBVIOUS
<1> USE HttpConnectionAssumption, MessageSizes DEF Inv, TypeOK, Framing, Busy
<1>1. ASSUME SendRequest
      PROVE  Framing'
  BY <1>1 DEF SendRequest, upstream
<1>2. ASSUME HangUp
      PROVE  Framing'
  BY <1>2 DEF HangUp, upstream
<1>3. ASSUME Collect
      PROVE  Framing'
  <2> PICK n \in Chunks(request, got) :
        /\ got' = got + n
        /\ \/ Collected(request, got') /\ HandOn
           \/ TooLarge(request, got') /\ pc' = "closed"
           \/ ~Collected(request, got') /\ ~TooLarge(request, got') /\ pc' = pc
        /\ UNCHANGED <<request, gone, upstream>>
    BY <1>3 DEF Collect, HandOn
  <2>1. /\ pc = "collect" /\ request \in Requests
        /\ n \in Nat /\ n <= MaxRead /\ got + n <= Size(request)
    BY <1>3 DEF Collect, Chunks
  <2>2. CASE Collected(request, got') /\ HandOn
    BY <2>1, <2>2 DEF Collected, HandOn, upstream
  <2>3. CASE TooLarge(request, got') /\ pc' = "closed"
    BY <2>1, <2>3 DEF upstream
  <2>4. CASE ~Collected(request, got') /\ ~TooLarge(request, got') /\ pc' = pc
    BY <2>1, <2>4 DEF TooLarge, upstream
  <2> QED
    BY <2>2, <2>3, <2>4
<1>4. ASSUME CollectEnd
      PROVE  Framing'
  BY <1>4 DEF CollectEnd, HandOn, Close, client, upstream
<1>5. ASSUME pc \in {"collect", "handle"}, Close
      PROVE  Framing'
  BY <1>5 DEF Close, client, upstream
<1>6. ASSUME Turn
      PROVE  Framing'
  BY <1>6 DEF Turn
<1>7. ASSUME pc \in {"called", "await"}, Retry
      PROVE  Framing'
  BY <1>7 DEF Retry, client
<1>8. ASSUME Resume \/ Call
      PROVE  Framing'
  BY <1>8 DEF Resume, Call, client, upstream
<1>9. ASSUME CallSucceeds
      PROVE  Framing'
  BY <1>9 DEF CallSucceeds, client
<1>10. ASSUME UpstreamHangsUp
       PROVE  Framing'
  BY <1>10 DEF UpstreamHangsUp, client
<1>11. ASSUME ReceiveMore
       PROVE  Framing'
  <2> PICK n \in Chunks(response, read) :
        ~Collected(response, read + n) /\ ~TooLarge(response, read + n) /\ read' = read + n
    BY <1>11 DEF ReceiveMore
  <2>1. n \in Nat /\ read + n <= Size(response) /\ read + n <= MaxPayload
    BY <1>11 DEF ReceiveMore, Chunks, TooLarge
  <2> QED
    BY <1>11, <2>1 DEF ReceiveMore, client
<1>12. ASSUME TransactionGet \/ ObserverFails
       PROVE  Framing'
  BY <1>12 DEF TransactionGet, ObserverFails, AtGateway, client
<1>13. ASSUME UNCHANGED <<pc, client, upstream>>
       PROVE  Framing'
  BY <1>13 DEF client, upstream
<1>14. ASSUME Panic
       PROVE  Framing'
  BY <1>14 DEF Panic, client, upstream
<1> QED
  BY <1>1, <1>2, <1>3, <1>4, <1>5, <1>6, <1>7, <1>8, <1>9, <1>10, <1>11, <1>12, <1>13, <1>14,
     Steps DEF vars

-----------------------------------------------------------------------------
(* The calls made for a request. *)

LEMMA CountingStep == Inv /\ [Next]_vars => Counting'
<1> SUFFICES ASSUME Inv, [Next]_vars
             PROVE  Counting'
  OBVIOUS
<1> USE HttpConnectionAssumption DEF Inv, TypeOK, Counting
<1>1. ASSUME SendRequest \/ HangUp
      PROVE  Counting'
  BY <1>1 DEF SendRequest, HangUp, upstream
<1>2. ASSUME Collect \/ CollectEnd
      PROVE  Counting'
  BY <1>2 DEF Collect, CollectEnd, HandOn, Close, client, upstream
<1>3. ASSUME pc \in {"collect", "handle"}, Close
      PROVE  Counting'
  BY <1>3 DEF Close, upstream
<1>4. ASSUME Turn
      PROVE  Counting'
  BY <1>4 DEF Turn
<1>5. ASSUME pc \in {"called", "await"}, Retry
      PROVE  Counting'
  BY <1>5 DEF Retry, client
<1>6. ASSUME Resume \/ Call
      PROVE  Counting'
  BY <1>6 DEF Resume, Call, client, upstream
<1>7. ASSUME CallSucceeds \/ UpstreamHangsUp \/ ReceiveMore
      PROVE  Counting'
  BY <1>7 DEF CallSucceeds, UpstreamHangsUp, ReceiveMore, client
<1>8. ASSUME TransactionGet \/ ObserverFails
      PROVE  Counting'
  BY <1>8 DEF TransactionGet, ObserverFails, AtGateway, client
<1>9. ASSUME UNCHANGED <<pc, client, upstream>>
      PROVE  Counting'
  BY <1>9 DEF client, upstream
<1>10. ASSUME Panic
       PROVE  Counting'
  BY <1>10 DEF Panic, upstream
<1> QED
  BY <1>1, <1>2, <1>3, <1>4, <1>5, <1>6, <1>7, <1>8, <1>9, <1>10, Steps DEF vars

-----------------------------------------------------------------------------
(* The rounds of the observers. *)

LEMMA Successor ==
  ASSUME NEW n \in Nat, n > 1, NEW i \in 0..(n - 1)
  PROVE  (i + 1) % n \in 0..(n - 1)
<1>1. CASE i + 1 < n
  BY <1>1
<1>2. CASE i + 1 = n
  <2>1. n % n = 0
    <3>1. n = n * 1 + 0 /\ 0 \in 0..(n - 1)
      OBVIOUS
    <3> QED
      BY <3>1
  <2> QED
    BY <1>2, <2>1
<1> QED
  BY <1>1, <1>2

LEMMA IndexType ==
  ASSUME TypeOK
  PROVE  NextIndex \in Nat /\ (NextIndex = 0 \/ NextIndex < Observers)
<1> USE HttpConnectionAssumption DEF TypeOK
<1>1. CASE Observers > 1
  <2>1. rr \in 0..(Observers - 1) /\ Observers \in Nat
    BY <1>1
  <2>2. (rr + 1) % Observers \in 0..(Observers - 1)
    BY <1>1, <2>1, Successor
  <2> QED
    BY <1>1, <2>1, <2>2 DEF NextIndex
<1>2. CASE ~(Observers > 1)
  BY <1>2 DEF NextIndex
<1> QED
  BY <1>1, <1>2

LEMMA AskedNextIs ==
  ASSUME Inv, pc = "observe", asked < Observers
  PROVE  /\ AskedNext = At(start, asked)
         /\ AskedNext \in (1..Observers) \ tried
<1> USE HttpConnectionAssumption DEF Inv, TypeOK
<1>1. AskedNext = At(start, asked)
  BY DEF AskedNext, At
<1>2. start \in 1..Observers /\ Observers > 0 /\ asked \in 0..(Observers - 1)
  BY DEF Round
<1>3. At(start, asked) \in 1..Observers
  <2>1. At(start, asked) =
          IF start + asked <= Observers THEN start + asked ELSE start + asked - Observers
    BY <1>2, AtIs
  <2> QED
    BY <1>2, <2>1
<1>4. \A k \in 0..(asked - 1) : At(start, k) # At(start, asked)
  BY <1>2, RotationInjective
<1> QED
  BY <1>1, <1>3, <1>4 DEF Round

LEMMA RoundStep == Inv /\ [Next]_vars => Round'
<1> SUFFICES ASSUME Inv, [Next]_vars
             PROVE  Round'
  OBVIOUS
<1> USE HttpConnectionAssumption DEF Inv, TypeOK, Round
<1>1. ASSUME ObserverFails
      PROVE  Round'
  <2>1. AskedNext = At(start, asked)
    BY <1>1, AskedNextIs DEF ObserverFails
  <2>2. 0..asked = 0..(asked - 1) \cup {asked}
    OBVIOUS
  <2>3. {At(start, k) : k \in 0..asked} = tried \cup {At(start, asked)}
    BY <1>1, <2>2 DEF ObserverFails
  <2>4. /\ asked' - 1 = asked /\ pc' = "observe" /\ start' = start
        /\ tried' = tried \cup {At(start, asked)}
    BY <1>1, <2>1 DEF ObserverFails
  <2>5. tried' = {At(start, k) : k \in 0..(asked' - 1)}
    BY <2>3, <2>4
  <2>6. Observers > 0 /\ start' \in 1..Observers
    BY <1>1, <2>4 DEF ObserverFails
  <2>7. tried' = {At(start', k) : k \in 0..(asked' - 1)}
    BY <2>4, <2>5
  <2> QED
    BY <2>4, <2>6, <2>7 DEF At
<1>2. ASSUME TransactionGet
      PROVE  Round'
  <2>1. pc # "observe" /\ asked = 0 /\ Observers > 0 /\ rr + 1 \in 1..Observers
    BY <1>2 DEF TransactionGet, AtGateway, Counting
  <2>2. asked' = 0 /\ tried' = {} /\ 0..(0 - 1) = {}
    BY <1>2, <2>1 DEF TransactionGet
  <2>3. {At(start', k) : k \in 0..(asked' - 1)} = {}
    BY <2>2
  <2>4. pc' = "observe" /\ start' = rr + 1
    BY <1>2 DEF TransactionGet
  <2> QED
    BY <2>1, <2>2, <2>3, <2>4 DEF At
<1>3. ASSUME pc' # "observe", tried' \in {tried, {}}, pc = "observe" => tried' = {}
      PROVE  Round'
  BY <1>3
<1>4. ASSUME UNCHANGED <<pc, asked, round>>
      PROVE  Round'
  BY <1>4 DEF round, At
<1> QED
  BY <1>1, <1>2, <1>3, <1>4, Steps
  DEF vars, SendRequest, HangUp, Collect, CollectEnd, HandOn, Close, Turn, Panic, Retry, Resume,
      Call, CallSucceeds, UpstreamHangsUp, ReceiveMore, client, upstream, round

-----------------------------------------------------------------------------
(* What is answered. *)

(* A response is whole or cut short: Receive knows its length, or that the *)
(* server did not say it.                                                  *)
LEMMA RelayStep ==
  ASSUME Inv, NEW n \in Nat, pc = "await", Relay(n), n <= Size(response),
         hungUp \/ Collected(response, n)
  PROVE  /\ owed' \in BOOLEAN
         /\ answer' \in [status : Nat, whole : BOOLEAN, cut : BOOLEAN]
         /\ answer' = answer \/ answer'.whole \/ answer'.cut
<1> USE HttpConnectionAssumption, MessageSizes DEF Inv, TypeOK, Framing
<1>1. CASE UNCHANGED history
  BY <1>1 DEF history
<1>2. CASE /\ owed' = FALSE
           /\ answer' = [status |-> 200, whole |-> n = Size(response),
                         cut |-> hungUp \/ response.length = None]
  <2>1. response \in Responses
    OBVIOUS
  <2>2. hungUp \/ response.length = None \/ n = Size(response)
    BY <2>1 DEF Collected
  <2> QED
    BY <1>2, <2>2
<1> QED
  BY <1>1, <1>2 DEF Relay

LEMMA AnswerStep ==
  ASSUME Inv, [Next]_vars
  PROVE  /\ owed' \in BOOLEAN
         /\ answer' \in [status : Nat, whole : BOOLEAN, cut : BOOLEAN]
         /\ answer' = answer \/ answer'.whole \/ answer'.cut
<1> USE HttpConnectionAssumption, MessageSizes DEF Inv, TypeOK, Framing
<1>1. ASSUME NEW status \in Nat, Written(status)
      PROVE  owed' = FALSE /\ answer' \in [status : Nat, whole : BOOLEAN, cut : BOOLEAN]
             /\ answer'.whole
  BY <1>1 DEF Written
<1>2. ASSUME UNCHANGED answer, owed' \in {owed, request.app # "none"}
      PROVE  owed' \in BOOLEAN /\ answer' = answer
  BY <1>2
<1>3. CASE ReceiveEnd
  <2>1. \/ \E status \in Nat : Written(status)
        \/ UNCHANGED history
        \/ Relay(read)
    BY <1>3 DEF ReceiveEnd, Fail, Retry, GiveUp, Answer, StatusOf
  <2>2. pc = "await" /\ hungUp /\ read <= Size(response)
    BY <1>3 DEF ReceiveEnd
  <2> QED
    BY <1>1, <1>2, <2>1, <2>2, RelayStep DEF history
<1>4. CASE Receive
  <2>1. PICK n \in Chunks(response, read) :
          \/ Collected(response, read + n) /\ Relay(read + n)
          \/ \E status \in Nat : Written(status)
          \/ UNCHANGED history
    BY <1>4 DEF Receive, Fail, Retry, GiveUp, Answer, StatusOf
  <2>2. pc = "await" /\ read + n \in Nat /\ read + n <= Size(response)
    <3>1. pc = "await"
      BY <1>4 DEF Receive
    <3>2. read \in Nat /\ read <= Size(response) /\ Size(response) \in Nat
      BY <3>1
    <3> QED
      BY <3>1, <3>2 DEF Chunks
  <2> QED
    BY <1>1, <1>2, <2>1, <2>2, RelayStep DEF history
<1>5. CASE \/ AnswerLocally \/ AnswerDebug \/ AnswerCached \/ CallFails \/ ReceiveFails
           \/ NotifyBridgeout \/ ObserverAnswers \/ ObserversFail
  <2>1. ASSUME NEW status \in Nat, Answer(status)
        PROVE  (\E n \in Nat : Written(n)) \/ UNCHANGED history
    BY <2>1 DEF Answer
  <2>2. ASSUME NEW cause, Fail(cause)
        PROVE  (\E n \in Nat : Written(n)) \/ UNCHANGED history
    <3>1. StatusOf(cause) \in Nat
      BY DEF StatusOf
    <3> QED
      BY <2>1, <2>2, <3>1 DEF Fail, Retry, GiveUp
  <2>3. \A endpoint : LocalStatus(endpoint) \in Nat
    BY DEF LocalStatus
  <2>4. (\E n \in Nat : Written(n)) \/ UNCHANGED history
    BY <1>5, <2>1, <2>2, <2>3 DEF AnswerLocally, AnswerDebug, AnswerCached, CallFails,
                ReceiveFails, NotifyBridgeout, ObserverAnswers, ObserversFail, Close
  <2> QED
    BY <1>1, <1>2, <2>4 DEF history
<1>6. CASE \/ SendRequest \/ HangUp \/ Collect \/ CollectEnd \/ KeepAliveEnds
           \/ UpstreamHangsUp \/ Call \/ CallSucceeds \/ Resume
           \/ TransactionGet \/ ObserverFails \/ ObserverBreaks
           \/ Panic \/ Closed \/ OthersRound \/ Forwarding \/ UNCHANGED vars
  <2>1. UNCHANGED answer /\ owed' \in {owed, request.app # "none"}
    BY <1>6 DEF SendRequest, HangUp, Collect, CollectEnd, HandOn, KeepAliveEnds, Close,
                UpstreamHangsUp, Call, CallSucceeds, Resume, TransactionGet, ObserverFails,
                ObserverBreaks, Panic, Closed, OthersRound, Forwarding, Post, PostFails, history, vars
  <2> QED
    BY <1>2, <2>1
<1> QED
  BY <1>3, <1>4, <1>5, <1>6, Zenon DEF Next, Serve

-----------------------------------------------------------------------------
(* The types. *)

LEMMA ConnectionTypes ==
  ASSUME Inv, [Next]_vars
  PROVE  /\ pc' \in {"collect", "handle", "called", "await", "pause", "observe", "closed", "panicked"}
         /\ request' \in Requests \cup {None} /\ got' \in Nat
         /\ requests' \in 0..MaxRequests /\ gone' \in BOOLEAN
         /\ asked' \in Nat /\ (asked' <= Attempts \/ asked' <= Observers)
         /\ response' \in Responses \cup {None} /\ read' \in Nat /\ hungUp' \in BOOLEAN
         /\ start' \in Nat \ {0} /\ tried' \subseteq 1..Observers
<1> USE HttpConnectionAssumption DEF Inv, TypeOK
<1>1. CASE SendRequest \/ HangUp
  <2>1. /\ request' = request \/ request' \in Requests
        /\ requests' = requests \/ (requests < MaxRequests /\ requests' = requests + 1)
    BY <1>1 DEF SendRequest, HangUp
  <2>2. UNCHANGED <<pc, got, asked, start, tried, response, read, hungUp>>
    BY <1>1 DEF SendRequest, HangUp, upstream, round
  <2>3. gone' \in BOOLEAN
    BY <1>1, Zenon DEF SendRequest, HangUp
  <2>4. request' \in Requests \cup {None} /\ requests' \in 0..MaxRequests
    BY <2>1
  <2> QED
    BY <2>2, <2>3, <2>4
<1>2. CASE Collect \/ CollectEnd
  <2>1. got' \in Nat
    BY <1>2 DEF Collect, CollectEnd, HandOn, Close, client, Chunks, Size
  <2>2. /\ pc' \in {"collect", "handle", "closed"}
        /\ UNCHANGED <<request, requests, gone, upstream>>
    BY <1>2 DEF Collect, CollectEnd, HandOn, Close, client
  <2> QED
    BY <2>1, <2>2 DEF upstream, round
<1>3. CASE pc \in {"collect", "handle"} /\ Close
  BY <1>3 DEF Close, client, upstream, round
<1>4. CASE Turn
  <2>1. /\ pc' = "collect" /\ request' = None /\ got' = 0 /\ asked' = 0 /\ start' = 1
        /\ tried' = {} /\ response' = None /\ read' = 0 /\ hungUp' = FALSE
        /\ requests' = requests
    BY <1>4 DEF Turn
  <2>2. gone' \in BOOLEAN /\ hungUp' \in BOOLEAN
    BY <1>4, Zenon DEF Turn
  <2>3. asked' <= Attempts
    BY <2>1
  <2> QED
    BY <2>1, <2>2, <2>3
<1>5. CASE pc \in {"called", "await"} /\ Retry
  <2>1. pc' = "pause" /\ response' = None /\ read' = 0 /\ hungUp' = FALSE
    BY <1>5 DEF Retry
  <2>2. UNCHANGED <<request, got, requests, gone, asked, start, tried>>
    BY <1>5 DEF Retry, client, round
  <2> QED
    BY <2>1, <2>2
<1>6. CASE Resume \/ Call
  <2>1. pc' \in {"handle", "called"} /\ (asked' = asked \/ asked' = asked + 1)
    BY <1>6 DEF Resume, Call, upstream
  <2>2. asked' = asked + 1 => asked < Attempts
    BY <1>6 DEF Resume, Call, upstream, Counting
  <2>3. UNCHANGED <<request, got, requests, gone, start, tried, response, read, hungUp>>
    BY <1>6 DEF Resume, Call, client, upstream, round
  <2> QED
    BY <2>1, <2>2, <2>3
<1>7. CASE CallSucceeds \/ UpstreamHangsUp
  <2>1. /\ pc' \in {"called", "await"} /\ response' \in Responses \cup {None}
        /\ hungUp' \in BOOLEAN
    BY <1>7 DEF CallSucceeds, UpstreamHangsUp
  <2>2. UNCHANGED <<request, got, requests, gone, asked, start, tried, read>>
    BY <1>7 DEF CallSucceeds, UpstreamHangsUp, client, round
  <2> QED
    BY <2>1, <2>2
<1>8. CASE ReceiveMore
  <2>1. read' \in Nat
    BY <1>8, MessageSizes DEF ReceiveMore, Chunks
  <2> QED
    BY <1>8, <2>1 DEF ReceiveMore, client, round
<1>9. CASE TransactionGet
  BY <1>9 DEF TransactionGet, AtGateway, client, Counting
<1>10. CASE ObserverFails
  <2>1. AskedNext \in 1..Observers
    BY <1>10, AskedNextIs DEF ObserverFails
  <2>2. asked' = asked + 1 /\ asked < Observers /\ tried' = tried \cup {AskedNext}
    BY <1>10 DEF ObserverFails
  <2>3. tried' \subseteq 1..Observers
    BY <2>1, <2>2
  <2>4. UNCHANGED <<pc, request, got, requests, gone, start, response, read, hungUp>>
    BY <1>10 DEF ObserverFails, client
  <2>5. asked' \in Nat /\ asked' <= Observers
    BY <2>2
  <2> QED
    BY <2>3, <2>4, <2>5
<1>11. CASE UNCHANGED <<pc, client, upstream>>
  BY <1>11 DEF client, upstream, round
<1>12. CASE Panic
  BY <1>12 DEF Panic, client, upstream, round
<1> QED
  BY <1>1, <1>2, <1>3, <1>4, <1>5, <1>6, <1>7, <1>8, <1>9, <1>10, <1>11, <1>12, Steps DEF vars

(* The index of the observers and the bridge-outs that are being posted.   *)
LEMMA GatewayTypes ==
  ASSUME Inv, [Next]_vars
  PROVE  /\ rr' \in Nat /\ (rr' = 0 \/ rr' < Observers)
         /\ told' \in [1..MaxRequests -> 0..Observers \cup {None}]
<1> USE HttpConnectionAssumption DEF Inv, TypeOK
<1>1. rr' \in {rr, NextIndex}
  BY Steps DEF SendRequest, HangUp, Collect, CollectEnd, HandOn, Close, Turn, Panic, Retry,
               Resume, Call, CallSucceeds, UpstreamHangsUp, ReceiveMore, TransactionGet, ObserverFails,
               gateway, vars
<1>2. \/ UNCHANGED told
      \/ told' = [told EXCEPT ![requests] = 0]
      \/ \E r \in 1..MaxRequests :
           told[r] \in 0..(Observers - 1) /\ told' = [told EXCEPT ![r] = @ + 1]
  BY DEF Next, Serve, SendRequest, HangUp, Collect, CollectEnd, HandOn, Close, KeepAliveEnds,
         UpstreamHangsUp, Receive, ReceiveEnd, ReceiveFails, Relay, Fail, Retry, GiveUp, Answer,
         AnswerLocally, AnswerDebug, AnswerCached, Call, CallFails, CallSucceeds, Resume,
         NotifyBridgeout, TransactionGet, ObserverFails, ObserverAnswers, ObserverBreaks,
         ObserversFail, Panic, Closed, OthersRound, Forwarding, Post, PostFails, gateway, vars
<1>3. told' \in [1..MaxRequests -> 0..Observers \cup {None}]
  <2>1. CASE told' = [told EXCEPT ![requests] = 0]
    <3>1. 0 \in 0..Observers \cup {None}
      OBVIOUS
    <3> QED
      BY <2>1, <3>1, Zenon
  <2>2. CASE \E r \in 1..MaxRequests :
               told[r] \in 0..(Observers - 1) /\ told' = [told EXCEPT ![r] = @ + 1]
    <3>1. PICK r \in 1..MaxRequests :
            told[r] \in 0..(Observers - 1) /\ told' = [told EXCEPT ![r] = told[r] + 1]
      BY <2>2
    <3>2. told[r] + 1 \in 0..Observers
      BY <3>1
    <3> QED
      BY <3>1, <3>2
  <2> QED
    BY <1>2, <2>1, <2>2
<1> QED
  BY <1>1, <1>3, IndexType

-----------------------------------------------------------------------------
(* The theorems. *)

(* The invariant holds in every behaviour. *)
THEOREM Invariance == Spec => []Inv
<1>1. Inv /\ [Next]_vars => Inv'
  <2> SUFFICES ASSUME Inv, [Next]_vars
               PROVE  Inv'
    OBVIOUS
  <2>1. TypeOK'
    BY ConnectionTypes, GatewayTypes, AnswerStep, Zenon DEF TypeOK
  <2> QED
    BY <2>1, FramingStep, CountingStep, RoundStep, Zenon DEF Inv
<1> QED
  BY <1>1, InitInv, PTL DEF Spec

(* Every variable keeps its type. *)
THEOREM TypeCorrect == Spec => []TypeOK
<1>1. Inv => TypeOK
  BY DEF Inv
<1> QED
  BY <1>1, Invariance, PTL

(* collect_http holds at most one read beyond its limit (http.rs 72,       *)
(* 121-128), whatever the sizes of the buffer and of the messages.         *)
THEOREM Bounded == Spec => []BufferBounded
<1>1. Inv => BufferBounded
  BY HttpConnectionAssumption DEF Inv, TypeOK, Framing, BufferBounded
<1> QED
  BY <1>1, Invariance, PTL

(* Whole requests are handed on and whole responses relayed, however the   *)
(* bytes arrive (http.rs 77-129), unless the sender hangs up on the way or *)
(* does not say how much it sends.                                         *)
THEOREM Whole == Spec => []WholeMessages
<1>1. Init => RelaysWhole
  BY DEF Init, NoAnswer, RelaysWhole
<1>2. Inv /\ RelaysWhole /\ [Next]_vars => RelaysWhole'
  BY AnswerStep DEF RelaysWhole
<1>3. Inv => HandsOnWholeRequests
  BY DEF Inv, Framing, Busy, HandsOnWholeRequests
<1>4. Spec => []RelaysWhole
  BY <1>1, <1>2, Invariance, PTL DEF Spec
<1> QED
  BY <1>3, <1>4, Invariance, PTL DEF WholeMessages

(* A round asks every observer once before it gives up, however many there *)
(* are, wherever it starts, and whatever the other rounds do.              *)
THEOREM Asks == Spec => AsksEveryObserver
<1> USE HttpConnectionAssumption
<1>1. ASSUME Inv, [Next]_vars, pc = "observe", asked' = asked + 1
      PROVE  AskedNext \notin tried
  <2>1. asked' = 0 \/ asked' = asked \/ (asked < Observers /\ ObserverFails)
    BY <1>1, Steps
    DEF SendRequest, HangUp, Collect, CollectEnd, Close, Turn, Panic, Resume, Call, CallSucceeds, Retry,
        UpstreamHangsUp, ReceiveMore, TransactionGet, AtGateway, ObserverFails, upstream, vars
  <2>2. asked < Observers
    BY <1>1, <2>1 DEF Inv, TypeOK
  <2> QED
    BY <1>1, <2>2, AskedNextIs
<1>2. ASSUME Inv, [Next]_vars, pc = "observe", owed, ~owed', answer'.status = 504
      PROVE  tried = 1..Observers
  <2>1. CASE Serve
    <3>1. ObserversFail
      <4>1. ObserverFails \/ ObserverAnswers \/ ObserverBreaks \/ ObserversFail
        BY <1>2, <2>1 DEF Serve, CollectEnd, AnswerLocally, AnswerDebug, AnswerCached, Call,
              CallFails, CallSucceeds, Resume, ReceiveEnd, NotifyBridgeout, TransactionGet,
              AtGateway
      <4>2. ~ObserverFails /\ ~ObserverBreaks
        BY <1>2, Zenon DEF ObserverFails, ObserverBreaks, history
      <4>3. ASSUME ObserverAnswers
            PROVE  FALSE
        <5>1. Written(200)
          BY <1>2, <4>3, Zenon DEF ObserverAnswers, Answer, history
        <5>2. answer'.status = 200
          BY <5>1 DEF Written
        <5> QED
          BY <1>2, <5>2
      <4> QED
        BY <4>1, <4>2, <4>3
    <3>2. asked = Observers /\ Observers > 0 /\ start \in 1..Observers
      BY <1>2, <3>1 DEF ObserversFail, Inv, Round
    <3> QED
      <4>1. tried = {At(start, k) : k \in 0..(Observers - 1)}
        BY <1>2, <3>2 DEF Inv, Round
      <4> QED
        BY <4>1, <3>2, RotationCovers, Zenon
  <2>2. CASE ~Serve
    BY <1>2, <2>2 DEF Next, SendRequest, HangUp, Collect, KeepAliveEnds, UpstreamHangsUp, Receive,
          ReceiveFails, Panic, Closed, OthersRound, Forwarding, Post, PostFails, history, vars
  <2> QED
    BY <2>1, <2>2
<1>3. Inv /\ [Next]_vars => [pc = "observe" =>
        /\ asked' = asked + 1 => AskedNext \notin tried
        /\ owed /\ ~owed' /\ answer'.status = 504 => tried = 1..Observers]_vars
  BY <1>1, <1>2, Zenon
<1> QED
  BY <1>3, Invariance, PTL DEF Spec, AsksEveryObserver

-----------------------------------------------------------------------------
(* The connection as an exchange of requests and answers. *)

(* Whom an answer is owed to, and what has been sent on of its request.    *)
Engaged ==
  /\ Busy => owed
  /\ pc = "collect" /\ request # None => ~owed
  /\ pc \in {"called", "await"} =>
       request.app \in Forwarded /\ asked > 0 /\ asked <= BudgetOf(request)
  /\ pc = "observe" => request.app = "observer" /\ request \notin Answerable

LEMMA BudgetIs ==
  ASSUME NEW q \in Requests
  PROVE  /\ q.app = "validator" => BudgetOf(q) = Attempts
         /\ q.app \in Forwarded /\ q.app # "validator" => BudgetOf(q) = 1
         /\ q.app = "observer" /\ q \notin Answerable => BudgetOf(q) = Observers
BY DEF BudgetOf, Forwarded

LEMMA EngagedStep ==
  ASSUME Inv, Engaged, [Next]_vars
  PROVE  Engaged'
<1> USE HttpConnectionAssumption DEF Engaged, Busy
<1>1. CASE Collect \/ CollectEnd
  <2>1. pc = "collect" /\ UNCHANGED request /\ pc' \in {"collect", "handle", "closed"}
    BY <1>1 DEF Collect, CollectEnd, HandOn, Close, client
  <2>2. pc' = "collect" => UNCHANGED owed
    BY <1>1 DEF Collect, CollectEnd, HandOn, Close, history
  <2>3. pc' = "handle" => owed'
    BY <1>1 DEF Collect, CollectEnd, HandOn, Close
  <2> QED
    BY <2>1, <2>2, <2>3
<1>2. CASE SendRequest
  BY <1>2 DEF SendRequest, upstream, history
<1>3. CASE Turn
  BY <1>3 DEF Turn
<1>4. CASE Call
  <2>1. pc = "handle" /\ request \in Requests /\ request.app \in Forwarded /\ asked \in Nat
    BY <1>4 DEF Call, Inv, TypeOK, Framing
  <2>2. asked < BudgetOf(request)
    BY <2>1, BudgetIs DEF Inv, Counting
  <2>3. pc' = "called" /\ asked' = asked + 1 /\ UNCHANGED <<request, owed>>
    BY <1>4 DEF Call, client, history
  <2>4. BudgetOf(request) \in Nat
    BY <2>1, BudgetIs
  <2> QED
    BY <2>1, <2>2, <2>3, <2>4 DEF BudgetOf
<1>5. CASE TransactionGet
  BY <1>5 DEF TransactionGet, AtGateway, Answerable, client, history
<1>6. CASE Resume \/ ObserverFails \/ (pc \in {"called", "await"} /\ Retry)
  BY <1>6 DEF Resume, ObserverFails, Retry, client, history
<1>7. CASE CallSucceeds \/ UpstreamHangsUp \/ ReceiveMore
  BY <1>7 DEF CallSucceeds, UpstreamHangsUp, ReceiveMore, client, history
<1>8. CASE HangUp \/ Panic \/ (pc \in {"collect", "handle"} /\ Close)
  BY <1>8 DEF HangUp, Panic, Close, client, upstream, history
<1>9. CASE UNCHANGED <<pc, client, upstream, history>>
  BY <1>9 DEF client, upstream, history
<1> QED
  BY <1>1, <1>2, <1>3, <1>4, <1>5, <1>6, <1>7, <1>8, <1>9, Steps DEF vars

(* An answer that is written ends the exchange, and so does giving up the  *)
(* answer because the client is gone.                                      *)
LEMMA Settling ==
  ASSUME Inv, Engaged, Busy, Turn,
         \/ /\ owed' = FALSE /\ answer'.status \in Nat
            /\ answer'.status = 504 => asked = BudgetOf(request)
         \/ (gone \/ request \notin Answerable) /\ UNCHANGED history
  PROVE  Service!Next
<1>1. request \in Requests /\ request # None /\ owed
  BY HttpConnectionAssumption DEF Inv, TypeOK, Framing, Engaged, Busy
<1>2. ~Ended /\ ~Ended' /\ ~Busy' /\ UNCHANGED gone
  BY DEF Busy, Turn, Ended
<1>3. Service!Idle
  BY <1>2 DEF Service!Idle
<1>4. CASE /\ owed' = FALSE /\ answer'.status \in Nat
           /\ answer'.status = 504 => asked = BudgetOf(request)
  <2>1. Service!Answer
    BY <1>1, <1>2, <1>3, <1>4 DEF Service!Answer, Service!GatewayTimeout
  <2> QED
    BY <2>1 DEF Service!Next
<1>5. CASE (gone \/ request \notin Answerable) /\ UNCHANGED history
  <2>1. Service!Abandon
    BY <1>1, <1>2, <1>3, <1>5 DEF Service!Abandon, history
  <2> QED
    BY <2>1 DEF Service!Next
<1> QED
  BY <1>4, <1>5

LEMMA AnswerSettles ==
  ASSUME Inv, Engaged, Busy, NEW status \in Nat, Answer(status),
         status = 504 => asked = BudgetOf(request)
  PROVE  Service!Next
<1>1. Turn
  BY DEF Answer
<1>2. CASE Written(status)
  <2>1. owed' = FALSE /\ answer'.status = status
    BY <1>2 DEF Written
  <2> QED
    BY <1>1, <2>1, Settling
<1>3. CASE gone /\ UNCHANGED history
  BY <1>1, <1>3, Settling
<1> QED
  BY <1>2, <1>3 DEF Answer

(* A failure is answered when no attempt is left.                          *)
LEMMA FailSettles ==
  ASSUME Inv, Engaged, pc \in {"called", "await"}, NEW cause, GiveUp(cause)
  PROVE  Service!Next
<1>1. request \in Requests /\ asked \in Nat /\ Attempts \in Nat
  BY HttpConnectionAssumption DEF Inv, TypeOK, Framing
<1>2. asked = BudgetOf(request)
  BY <1>1, BudgetIs DEF GiveUp, Engaged, Busy
<1>3. StatusOf(cause) \in Nat /\ Answer(StatusOf(cause)) /\ Busy
  BY DEF GiveUp, StatusOf, Busy
<1> QED
  BY <1>2, <1>3, AnswerSettles

LEMMA RelaySettles ==
  ASSUME Inv, Engaged, pc = "await", NEW n, Relay(n)
  PROVE  Service!Next
<1>1. Busy /\ Turn
  BY DEF Busy, Relay
<1>2. \/ owed' = FALSE /\ answer'.status = 200
      \/ gone /\ UNCHANGED history
  BY DEF Relay
<1>3. CASE owed' = FALSE /\ answer'.status = 200
  <2>1. answer'.status \in Nat /\ answer'.status # 504
    BY <1>3
  <2> QED
    BY <1>1, <1>3, <2>1, Settling
<1>4. CASE gone /\ UNCHANGED history
  BY <1>1, <1>4, Settling
<1> QED
  BY <1>2, <1>3, <1>4

LEMMA ExchangeStep ==
  ASSUME Inv, Engaged, [Next]_vars
  PROVE  [Service!Next]_(Service!exchange)
<1>0. request = None => ~Busy
  BY DEF Inv, Framing, Busy
<1>1. ASSUME UNCHANGED <<request, asked, gone, history>>, Busy' = Busy, Ended' = Ended
      PROVE  UNCHANGED Service!exchange
  BY <1>1 DEF Service!exchange, history
<1>2. CASE SendRequest
  <2>1. ~Busy /\ ~Busy' /\ ~Ended /\ ~Ended'
    BY <1>2 DEF SendRequest, Busy, Ended
  <2> QED
    BY <1>2, <2>1 DEF SendRequest, history, Service!exchange
<1>3. CASE HangUp
  <2>1. Service!Leave
    BY <1>3 DEF HangUp, Busy, Ended, upstream, history, Service!Leave
  <2> QED
    BY <2>1 DEF Service!Next
<1>4. CASE Collect \/ CollectEnd
  <2>1. pc = "collect" /\ UNCHANGED <<request, asked, gone, answer>>
    BY <1>4 DEF Collect, CollectEnd, HandOn, Close, client, upstream, history
  <2>2. CASE pc' = "closed"
    <3>1. UNCHANGED owed
      <4>1. CASE request # None /\ HandOn
        <5>1. owed = FALSE
          BY <2>1, <4>1 DEF Engaged, Inv, TypeOK
        <5> QED
          BY <2>2, <4>1, <5>1 DEF HandOn
      <4>2. CASE UNCHANGED history
        BY <4>2 DEF history
      <4> QED
        BY <1>4, <2>2, <4>1, <4>2 DEF Collect, CollectEnd, Close
    <3>2. Service!Close
      BY <2>1, <2>2, <3>1 DEF Busy, Ended, Service!Close, Service!Idle
    <3> QED
      BY <3>2 DEF Service!Next
  <2>3. CASE pc' = "handle"
    <3>1. HandOn /\ request # None /\ request \in Requests
      BY <1>4, <2>1, <2>3 DEF Collect, CollectEnd, Close, Inv, TypeOK
    <3>2. ~owed /\ owed' = TRUE /\ asked = 0
      BY <2>1, <2>3, <3>1 DEF HandOn, Engaged, Inv, Counting
    <3>3. Service!Take(request)
      BY <2>1, <2>3, <3>1, <3>2 DEF Busy, Ended, Service!Take
    <3> QED
      BY <3>1, <3>3 DEF Service!Next
  <2>4. CASE pc' = "collect"
    <3>1. UNCHANGED history
      BY <1>4, <2>4 DEF Collect, CollectEnd, HandOn, Close
    <3> QED
      BY <1>1, <2>1, <2>4, <3>1 DEF Busy, Ended
  <2> QED
    BY <1>4, <2>1, <2>2, <2>3, <2>4 DEF Collect, CollectEnd, HandOn, Close
<1>5. CASE KeepAliveEnds
  <2>1. Service!Close
    BY <1>5 DEF KeepAliveEnds, Close, client, upstream, history, Busy, Ended,
                Service!Close, Service!Idle
  <2> QED
    BY <2>1 DEF Service!Next
<1>6. CASE CallSucceeds \/ UpstreamHangsUp \/ ReceiveMore \/ Resume \/ TransactionGet
           \/ (pc \in {"called", "await"} /\ Retry)
  <2>1. UNCHANGED <<request, asked, gone, history>>
    BY <1>6 DEF CallSucceeds, UpstreamHangsUp, ReceiveMore, Resume, TransactionGet, Retry, client, upstream
  <2>2. Busy /\ Busy' /\ ~Ended /\ ~Ended'
    BY <1>6 DEF CallSucceeds, UpstreamHangsUp, ReceiveMore, Resume, TransactionGet, Retry, AtGateway,
                Busy, Ended
  <2> QED
    BY <1>1, <2>1, <2>2 DEF Busy, Ended
<1>7. CASE Call \/ ObserverFails
  <2>1. /\ Busy /\ Busy' /\ ~Ended /\ ~Ended' /\ asked' = asked + 1
        /\ UNCHANGED <<request, gone, history>>
    BY <1>7 DEF Call, ObserverFails, Busy, Ended, client
  <2>2. request \in Requests /\ request # None
    BY <2>1 DEF Inv, TypeOK, Framing, Busy
  <2>3. asked < BudgetOf(request)
    BY <1>7, <2>2, BudgetIs DEF Call, ObserverFails, Inv, Counting, Engaged
  <2>4. Service!Send
    BY <2>1, <2>2, <2>3 DEF history, Service!Send
  <2> QED
    BY <2>4 DEF Service!Next
<1>8. CASE CallFails \/ ReceiveEnd \/ ReceiveFails \/ Receive
  <2>1. pc \in {"called", "await"}
    BY <1>8 DEF CallFails, ReceiveEnd, ReceiveFails, Receive
  <2>2. \/ Retry \/ ReceiveMore \/ (\E cause : GiveUp(cause))
        \/ pc = "await" /\ \E n : Relay(n)
    BY <1>8 DEF CallFails, ReceiveEnd, ReceiveFails, Receive, ReceiveMore, Fail
  <2> QED
    BY <1>6, <2>1, <2>2, FailSettles, RelaySettles
<1>9. CASE AnswerLocally \/ AnswerDebug \/ AnswerCached \/ NotifyBridgeout
  <2>1. pc = "handle" /\ Busy
    BY <1>9 DEF AnswerLocally, AnswerDebug, AnswerCached, NotifyBridgeout, AtGateway, Busy
  <2>2. \/ \E status \in Nat \ {504} : Answer(status)
        \/ gone /\ Close
        \/ Turn /\ Written(200)
        \/ Turn /\ gone /\ UNCHANGED history
    BY <1>9 DEF AnswerLocally, AnswerDebug, AnswerCached, NotifyBridgeout, LocalStatus
  <2>3. CASE gone /\ Close
    <3>1. Service!Close
      BY <2>1, <2>3 DEF Close, client, history, Busy, Ended, Service!Close, Service!Idle
    <3> QED
      BY <3>1 DEF Service!Next
  <2>4. CASE Turn /\ Written(200)
    <3>1. owed' = FALSE /\ answer'.status = 200
      BY <2>4 DEF Written
    <3>2. answer'.status \in Nat /\ answer'.status # 504
      BY <3>1
    <3> QED
      BY <2>1, <2>4, <3>1, <3>2, Settling
  <2> QED
    BY <2>1, <2>2, <2>3, <2>4, AnswerSettles, Settling
<1>10. CASE ObserverAnswers \/ ObserversFail
  <2>1. Busy /\ request \in Requests /\ Observers \in Nat
    BY <1>10, HttpConnectionAssumption DEF ObserverAnswers, ObserversFail, Busy, Inv, TypeOK, Framing
  <2>2. ObserversFail => asked = BudgetOf(request)
    BY <2>1, BudgetIs DEF ObserversFail, Engaged
  <2> QED
    BY <1>10, <2>1, <2>2, AnswerSettles DEF ObserverAnswers, ObserversFail
<1>11. CASE ObserverBreaks
  <2>1. Busy /\ Turn /\ request \notin Answerable /\ UNCHANGED history
    BY <1>11 DEF ObserverBreaks, Busy, Engaged
  <2> QED
    BY <2>1, Settling
<1>12. CASE Closed \/ OthersRound \/ Forwarding \/ UNCHANGED vars
  <2>1. UNCHANGED <<pc, request, asked, gone, history>>
    BY <1>12 DEF Closed, OthersRound, Forwarding, Post, PostFails, client, upstream, vars
  <2> QED
    BY <1>1, <2>1 DEF Busy, Ended
<1>13. CASE Panic
  <2>1. /\ Busy /\ ~Busy' /\ ~Ended /\ Ended'
        /\ UNCHANGED <<request, gone, history>>
    BY <1>13 DEF Panic, Busy, Ended, client
  <2>2. /\ request \in {q \in Requests : q.app \in {"validator", "monitor"}}
        /\ request # None
    BY <1>13, <2>1 DEF Panic, Inv, TypeOK, Framing, Busy
  <2>3. Service!Close
    BY <2>1, <2>2 DEF history, Service!Close, Service!Idle
  <2> QED
    BY <2>3 DEF Service!Next
<1> QED
  BY <1>2, <1>3, <1>4, <1>5, <1>6, <1>7, <1>8, <1>9, <1>10, <1>11, <1>12, <1>13, Zenon
     DEF Next, Serve

(* Whatever clients, networks and upstream servers do, the connection is   *)
(* an exchange: it takes one request at a time, sends it on within its     *)
(* budget, answers it once unless an observer's answer is broken or its    *)
(* task panics, and only with the budget used up reports a time-out        *)
(* (http.rs 143-300, liberdus.rs 1298-1352, observer_gateway.rs 402-436).  *)
THEOREM Implementation == Spec => ImplementsExchange
<1>1. Init => Service!Init
  <2> SUFFICES ASSUME Init
               PROVE  Service!Init
    OBVIOUS
  <2>1. ~Ended /\ ~Busy /\ owed = FALSE /\ gone = FALSE /\ answer.status = 0
    BY DEF Init, Busy, Ended, NoAnswer
  <2> QED
    BY <2>1 DEF Service!Init
<1>2. Init => Engaged
  BY DEF Init, Engaged, Busy
<1>3. Inv /\ Engaged /\ [Next]_vars => Engaged'
  BY EngagedStep
<1>4. Inv /\ Engaged /\ [Next]_vars => [Service!Next]_(Service!exchange)
  BY ExchangeStep
<1> QED
  BY <1>1, <1>2, <1>3, <1>4, Invariance, PTL DEF Spec, ImplementsExchange, Service!Spec

=============================================================================
