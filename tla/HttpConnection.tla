--------------------------- MODULE HttpConnection ---------------------------
(***************************************************************************)
(* One client connection of the HTTP server: handle_stream of              *)
(* src/src/http.rs collects a request, hands it to one of the applications *)
(* and turns to the next request when that returns.  What the handlers of  *)
(* liberdus.rs, collector.rs, notifier.rs, observer_gateway.rs and the     *)
(* monitor do with the client and with their upstream servers is here; the *)
(* pool of validators and the monitor's cache are modules of their own.    *)
(* Beside the connection run the tasks that post accepted bridge-outs to   *)
(* the observers, and other connections, of which only the index that they *)
(* share for the rotation of the observers is seen.                        *)
(*                                                                         *)
(* A message is so many units of head and of body; its bytes do not        *)
(* matter, only how many have arrived and what the head says of the body.  *)
(* The client sends a request when it has the answer to the last one: the  *)
(* server supports no pipelining (liberdus.rs 1302, 1310).                 *)
(***************************************************************************)
EXTENDS Integers

CONSTANTS
  Requests,       \* what the client may send: [app, head, body, length], and
                  \*   `ask` if it is for the observer gateway
  Responses,      \* what an upstream server may send: [head, body, length]
  MaxRead,        \* the size of collect_http's buffer
  MaxPayload,     \* MAX_PAYLOAD_SIZE
  Attempts,       \* calls of Liberdus::send for one request: 3 in the code
  Observers,      \* how many observers are configured
  MaxRequests,    \* bound: the requests of the connection
  None            \* "no message", "no Content-Length"

Apps == {"validator", "collector", "notifier", "monitor", "observer", "debug", "none"}

(* A declared length is the length of the body; a request has a body only  *)
(* if it declares it.  Chunked responses have one that they do not.        *)
Messages == [head : Nat \ {0}, body : Nat, length : Nat \cup {None}]

ASSUME HttpConnectionAssumption ==
  /\ Responses \subseteq Messages
  /\ \A q \in Requests :
       /\ q.app \in Apps /\ q.head \in Nat \ {0} /\ q.body \in Nat
       /\ q.length = q.body \/ (q.length = None /\ q.body = 0)
  /\ \A p \in Responses : p.length \in {None, p.body}
  /\ MaxRead \in Nat \ {0} /\ MaxPayload \in Nat /\ Attempts \in Nat \ {0}
  /\ Observers \in Nat /\ MaxRequests \in Nat
  /\ None \notin Nat \cup Requests \cup Responses

VARIABLES
  pc,             \* where the connection's task stands
  request,        \* the client's request, None when it has sent none
  got,            \* the units of it collected
  requests,       \* how many the client has begun to send
  gone,           \* the client has closed the connection
  asked,          \* upstream servers called for this request
  start,          \* the observer at which its round starts
  tried,          \* history: the observers asked in this round
  response,       \* what the upstream server sends
  read,           \* the units of it collected
  hungUp,         \* the upstream server has closed its connection
  rr,             \* OBSERVER_RR_INDEX, modulo the number of observers
  told,           \* per request: how many observers its bridge-out was posted to
  owed,           \* history: a request was handed on and not answered yet
  answer          \* history: the last answer written

client == <<request, got, requests, gone>>
round == <<start, tried>>
upstream == <<asked, round, response, read, hungUp>>
gateway == <<rr, told>>
history == <<owed, answer>>
vars == <<pc, client, upstream, gateway, history>>

Size(m) == m.head + m.body

(* What the head says of the body: parse_content_length. *)
Declared(m) == IF m.length = None THEN 0 ELSE m.length

-----------------------------------------------------------------------------
(* collect_http, on either side, after a read that makes it n units.       *)

(* A seeded bug, as every definition with an underscore suffix: what has   *)
(* come with the head is taken for the body.                               *)
Collected_AtHead(m, n) == n >= m.head

(* The head is there, and the body as far as the head declares one. *)
Collected(m, n) == n >= m.head + Declared(m)

TooLarge_Never(m, n) == FALSE

(* Looked at only after a read that did not complete the message. *)
TooLarge(m, n) == ~Collected(m, n) /\ n > MaxPayload

(* The stream has ended: nothing has come, only a part of the head, or the *)
(* head and any part of the body, which counts as success.                 *)
EndsEmpty(n) == n = 0
EndsInHead(m, n) == n > 0 /\ n < m.head
EndsAfterHead(m, n) == n >= m.head

Chunks(m, n) == 1..(IF Size(m) - n < MaxRead THEN Size(m) - n ELSE MaxRead)

-----------------------------------------------------------------------------
(* The client. *)

SendRequest ==
  /\ pc = "collect" /\ request = None /\ ~gone /\ ~owed
  /\ requests < MaxRequests
  /\ \E q \in Requests : request' = q
  /\ requests' = requests + 1
  /\ UNCHANGED <<pc, got, gone, upstream, gateway, history>>

HangUp ==
  /\ ~gone
  /\ gone' = TRUE
  /\ UNCHANGED <<pc, request, got, requests, upstream, gateway, history>>

-----------------------------------------------------------------------------
(* handle_stream *)

Close ==
  /\ pc' = "closed"
  /\ UNCHANGED <<client, upstream, gateway, history>>

HandOn ==
  /\ pc' = IF request.app = "none" THEN "closed" ELSE "handle"
  /\ owed' = (request.app # "none")
  /\ UNCHANGED <<request, requests, gone, upstream, gateway, answer>>

(* Some units arrive. *)
Collect ==
  /\ pc = "collect" /\ request # None /\ ~gone
  /\ \E n \in Chunks(request, got) :
       /\ got' = got + n
       /\ \/ Collected(request, got') /\ HandOn
          \/ /\ TooLarge(request, got')
             /\ pc' = "closed"
             /\ UNCHANGED <<request, requests, gone, upstream, gateway, history>>
          \/ /\ ~Collected(request, got') /\ ~TooLarge(request, got')
             /\ UNCHANGED <<pc, request, requests, gone, upstream, gateway, history>>

(* The end of the stream is read as no data, and read again. *)
CollectEnd_Ignored ==
  /\ pc = "collect" /\ gone
  /\ request # None /\ EndsAfterHead(request, got)
  /\ HandOn /\ UNCHANGED got

(* The client has closed: with nothing collected that is a clean end, with *)
(* a part of the head an error, with the head a request.                   *)
CollectEnd ==
  /\ pc = "collect" /\ gone
  /\ IF request # None /\ EndsAfterHead(request, got)
     THEN HandOn /\ UNCHANGED got
     ELSE Close

(* Nothing complete within tcp_keepalive_time_sec, or the read fails. *)
KeepAliveEnds == pc = "collect" /\ Close

(* The calls made for a request count against the next one. *)
Turn_KeepsCount ==
  /\ pc' = "collect"
  /\ request' = None /\ got' = 0
  /\ start' = 1 /\ tried' = {}
  /\ response' = None /\ read' = 0 /\ hungUp' = FALSE
  /\ UNCHANGED <<requests, gone, asked, rr>>

(* The handler has returned: the next request is awaited. *)
Turn ==
  /\ pc' = "collect"
  /\ request' = None /\ got' = 0
  /\ asked' = 0 /\ start' = 1 /\ tried' = {}
  /\ response' = None /\ read' = 0 /\ hungUp' = FALSE
  /\ UNCHANGED <<requests, gone, rr>>

NoAnswer == [status |-> 0, whole |-> TRUE, cut |-> FALSE]

Written(status) ==
  owed' = FALSE /\ answer' = [status |-> status, whole |-> TRUE, cut |-> FALSE]

(* An answer is written, or cannot be because the client is gone.          *)
Answer(status) ==
  /\ Turn
  /\ Written(status) \/ (gone /\ UNCHANGED history)
  /\ UNCHANGED told

(* A debug answer that cannot be written ends the connection. *)
AnswerDebug ==
  /\ pc = "handle" /\ request.app = "debug"
  /\ \/ \E status \in {200, 404} : Answer(status)
     \/ gone /\ Close

(* The monitor has the page in its cache. *)
AnswerCached ==
  /\ pc = "handle" /\ request.app = "monitor"
  /\ \E status \in {200, 500} : Answer(status)

-----------------------------------------------------------------------------
(* One call of an upstream server. *)

Forwarded == {"validator", "collector", "notifier", "monitor"}

Causes == {"timeout", "refused", "unreachable", "write", "read", "empty", "nobody"}

(* Which failures become 504 and which 500. *)
StatusOf(cause) ==
  IF cause \in {"timeout", "refused"} \/ (cause = "unreachable" /\ request.app # "validator")
  THEN 504 ELSE 500

(* Every failed request is tried again. *)
Retry_Everything ==
  /\ asked < Attempts
  /\ pc' = "pause"
  /\ response' = None /\ read' = 0 /\ hungUp' = FALSE
  /\ UNCHANGED <<client, asked, round, gateway, history>>

(* A validator request is tried again with another validator. *)
Retry ==
  /\ request.app = "validator" /\ asked < Attempts
  /\ pc' = "pause"
  /\ response' = None /\ read' = 0 /\ hungUp' = FALSE
  /\ UNCHANGED <<client, asked, round, gateway, history>>

(* The last failure is not answered. *)
GiveUp_Silently(cause) ==
  /\ ~(request.app = "validator" /\ asked < Attempts)
  /\ Turn /\ UNCHANGED <<told, history>>

GiveUp(cause) ==
  /\ ~(request.app = "validator" /\ asked < Attempts)
  /\ Answer(StatusOf(cause))

Fail(cause) == Retry \/ GiveUp(cause)

(* Half a second between the attempts. *)
Resume ==
  /\ pc = "pause"
  /\ pc' = "handle"
  /\ UNCHANGED <<client, upstream, gateway, history>>

Call ==
  /\ pc = "handle" /\ request.app \in Forwarded
  /\ pc' = "called"
  /\ asked' = asked + 1
  /\ UNCHANGED <<client, round, response, read, hungUp, gateway, history>>

(* No validator, no connection, or the request cannot be written. *)
CallFails ==
  /\ pc = "called"
  /\ \E cause \in Causes \ {"read", "empty"} :
       /\ cause = "nobody" => request.app = "validator"
       /\ Fail(cause)

(* The task may panic while it chooses a validator (NodePool shows when)   *)
(* or, in a debug build, over the age of a monitor page that was stored    *)
(* before the clock was set back (MonitorCache): the runtime drops the     *)
(* connection with the request in hand.                                    *)
Panic ==
  /\ \/ pc = "called" /\ request.app = "validator"
     \/ pc = "handle" /\ request.app = "monitor"
  /\ pc' = "panicked"
  /\ UNCHANGED <<client, upstream, gateway, history>>

CallSucceeds ==
  /\ pc = "called"
  /\ pc' = "await"
  /\ \E p \in Responses : response' = p
  /\ UNCHANGED <<client, asked, round, read, hungUp, gateway, history>>

(* The upstream server may close its connection at any time. *)
UpstreamHangsUp ==
  /\ pc = "await" /\ ~hungUp
  /\ hungUp' = TRUE
  /\ UNCHANGED <<pc, client, asked, round, response, read, gateway, history>>

(* What was collected is relayed; `cut`: before it was complete the server *)
(* hung up, or it did not say how long it is.                              *)
Relay(n) ==
  /\ Turn
  /\ \/ /\ owed' = FALSE
        /\ answer' = [status |-> 200, whole |-> n = Size(response),
                      cut |-> hungUp \/ response.length = None]
     \/ gone /\ UNCHANGED history
  /\ UNCHANGED told

Receive ==
  /\ pc = "await" /\ ~hungUp
  /\ \E n \in Chunks(response, read) :
       \/ Collected(response, read + n) /\ Relay(read + n)
       \/ TooLarge(response, read + n) /\ Fail("read")
       \/ /\ ~Collected(response, read + n) /\ ~TooLarge(response, read + n)
          /\ read' = read + n
          /\ UNCHANGED <<pc, client, asked, round, response, hungUp, gateway, history>>

ReceiveEnd ==
  /\ pc = "await" /\ hungUp
  /\ \/ EndsEmpty(read) /\ Fail("empty")
     \/ EndsInHead(response, read) /\ Fail("read")
     \/ EndsAfterHead(response, read) /\ Relay(read)

(* The read fails otherwise, or the monitor's report does not parse. *)
ReceiveFails == pc = "await" /\ Fail("read")

-----------------------------------------------------------------------------
(* The observer gateway. *)

(* The values that a parameter may have; None does not parse, and of the   *)
(* identifiers and the flag only the form matters.                         *)
Admissible(parameter) ==
  CASE parameter = "page" -> Nat \ {0}
    [] parameter = "type" -> 0..2
    [] parameter = "status" -> 0..5
    [] parameter = "sinceTxTimestamp" -> Nat
    [] OTHER -> {"formed"}

ValidQuery(params) == \A p \in DOMAIN params : params[p] \in Admissible(p)

(* What a request is for, and if it is refused, for which reason.  The     *)
(* resource transactions is treated as transaction is.                     *)
Endpoint(ask) ==
  CASE ask.resource \notin {"notify-bridgeout", "transaction"} -> "unsupported"
    [] ask.resource = "notify-bridgeout" /\ ask.method = "POST" -> "notify"
    [] ask.resource = "notify-bridgeout" /\ ask.method = "OPTIONS" -> "preflight"
    [] ask.resource = "transaction" /\ ask.method = "GET" ->
         IF ValidQuery(ask.params) THEN "transaction" ELSE "bad"
    [] OTHER -> "method"

AtGateway(endpoint) ==
  pc = "handle" /\ request.app = "observer" /\ Endpoint(request.ask) = endpoint

(* What is answered here: refusals, the preflight, and that no observer is *)
(* configured.                                                             *)
LocalStatus(endpoint) ==
  CASE endpoint = "unsupported" -> 404
    [] endpoint = "method" -> 405
    [] endpoint = "bad" -> 400
    [] endpoint = "preflight" -> 204
    [] OTHER -> 503

AnswerLocally ==
  /\ pc = "handle" /\ request.app = "observer"
  /\ Endpoint(request.ask) \in {"notify", "transaction"} => Observers = 0
  /\ Answer(LocalStatus(Endpoint(request.ask)))

HasChainId == "chainId" \in DOMAIN request.ask.params /\ request.ask.params.chainId \in Int

(* POST /observer/notify-bridgeout is answered at once, and then left to a *)
(* task of its own, unless the answer cannot be written.                   *)
NotifyBridgeout ==
  /\ AtGateway("notify") /\ Observers > 0
  /\ IF HasChainId
     THEN /\ Turn
          /\ \/ Written(200) /\ told' = [told EXCEPT ![requests] = 0]
             \/ gone /\ UNCHANGED <<told, history>>
     ELSE Answer(400)

(* The first observer that cannot be reached ends the task. *)
PostFails_Ends(r) ==
  /\ told[r] \in 0..(Observers - 1)
  /\ told' = [told EXCEPT ![r] = None]
  /\ UNCHANGED <<pc, client, upstream, rr, history>>

(* The task posts to one observer after the other.  Whether that succeeds, *)
(* fails or times out is only logged.                                      *)
PostFails(r) ==
  /\ told[r] \in 0..(Observers - 1)
  /\ told' = [told EXCEPT ![r] = @ + 1]
  /\ UNCHANGED <<pc, client, upstream, rr, history>>

Post(r) ==
  /\ told[r] \in 0..(Observers - 1)
  /\ told' = [told EXCEPT ![r] = @ + 1]
  /\ UNCHANGED <<pc, client, upstream, rr, history>>

NextIndex == IF Observers > 1 THEN (rr + 1) % Observers ELSE rr

(* A round of another connection. *)
OthersRound ==
  /\ rr' = NextIndex
  /\ UNCHANGED <<pc, client, upstream, told, history>>

(* GET /observer/transaction(s): a round over all the observers, rotated.  *)
TransactionGet ==
  /\ AtGateway("transaction") /\ Observers > 0
  /\ pc' = "observe"
  /\ start' = rr + 1 /\ rr' = NextIndex
  /\ UNCHANGED <<client, asked, tried, response, read, hungUp, told, history>>

(* The next observer is taken from the shared index. *)
AskedNext_Shared == rr + 1

(* The observers are 1..Observers, the round is that sequence rotated.     *)
AskedNext == ((start - 1 + asked) % Observers) + 1

(* An observer cannot be reached, times out or reports an error: the next. *)
ObserverFails ==
  /\ pc = "observe" /\ asked < Observers
  /\ asked' = asked + 1
  /\ tried' = tried \cup {AskedNext}
  /\ UNCHANGED <<pc, client, start, response, read, hungUp, gateway, history>>

ObserverAnswers ==
  /\ pc = "observe" /\ asked < Observers
  /\ Answer(200)

(* Its body cannot be read or filtered: the handler gives up, and nobody   *)
(* answers the client.                                                     *)
ObserverBreaks ==
  /\ pc = "observe" /\ asked < Observers
  /\ Turn /\ UNCHANGED <<told, history>>

(* None is left. *)
ObserversFail ==
  /\ pc = "observe" /\ asked = Observers
  /\ Answer(504)

-----------------------------------------------------------------------------
Init ==
  /\ pc = "collect"
  /\ request = None /\ got = 0 /\ requests = 0 /\ gone = FALSE
  /\ asked = 0 /\ start = 1 /\ tried = {}
  /\ response = None /\ read = 0 /\ hungUp = FALSE
  /\ rr = 0 /\ told = [r \in 1..MaxRequests |-> None]
  /\ owed = FALSE /\ answer = NoAnswer

Ended == pc \in {"closed", "panicked"}

(* Nothing is left to do. *)
Closed == Ended /\ UNCHANGED vars

(* What the task does as soon as it is polled, whatever client and upstream*)
(* servers do.                                                             *)
Serve ==
  \/ CollectEnd \/ AnswerLocally \/ AnswerDebug \/ AnswerCached
  \/ Call \/ CallFails \/ CallSucceeds \/ Resume
  \/ ReceiveEnd
  \/ NotifyBridgeout \/ TransactionGet
  \/ ObserverFails \/ ObserverAnswers \/ ObserverBreaks \/ ObserversFail

Forwarding == \E r \in 1..MaxRequests : Post(r) \/ PostFails(r)

Next ==
  \/ SendRequest \/ HangUp
  \/ Collect \/ KeepAliveEnds
  \/ UpstreamHangsUp \/ Receive \/ ReceiveFails
  \/ Serve \/ Panic \/ Closed
  \/ OthersRound \/ Forwarding

Spec == Init /\ [][Next]_vars

(* The runtime polls the task; client and upstream servers owe nothing,    *)
(* but a client takes the answers that are written to it: no write has a   *)
(* time-out (http.rs 359-422), and one that stalls is left out.  A post to *)
(* an observer ends, for it has a time-out.                                *)
FairSpec == Spec /\ WF_vars(Serve) /\ WF_vars(Forwarding)

-----------------------------------------------------------------------------
(* Properties *)

TypeOK ==
  /\ pc \in {"collect", "handle", "called", "await", "pause", "observe", "closed", "panicked"}
  /\ request \in Requests \cup {None} /\ got \in Nat
  /\ requests \in 0..MaxRequests /\ gone \in BOOLEAN
  /\ asked \in Nat /\ (asked <= Attempts \/ asked <= Observers)
  /\ response \in Responses \cup {None} /\ read \in Nat /\ hungUp \in BOOLEAN
  /\ start \in Nat \ {0} /\ tried \subseteq 1..Observers
  /\ rr \in Nat /\ (rr = 0 \/ rr < Observers)
  /\ told \in [1..MaxRequests -> 0..Observers \cup {None}]
  /\ owed \in BOOLEAN
  /\ answer \in [status : Nat, whole : BOOLEAN, cut : BOOLEAN]

(* However the bytes arrive, collect_http never holds more than one read   *)
(* beyond its limit, on either side (http.rs 72, 121-128).                 *)
BufferBounded == got <= MaxPayload + MaxRead /\ read <= MaxPayload + MaxRead

(* A handler has the request. *)
Busy == pc \in {"handle", "called", "await", "pause", "observe"}

(* Whatever the network makes of it, the request that is handed on is the  *)
(* whole request and nothing more, unless the client hung up on the way    *)
(* (http.rs 77-129).                                                       *)
HandsOnWholeRequests ==
  Busy => gone \/ got = Size(request)

(* ... and the response that is relayed is whole, unless the server hung   *)
(* up or did not say how long it is.                                       *)
RelaysWhole == answer.whole \/ answer.cut

(* However messages arrive and whoever hangs up: the framing of both sides.*)
WholeMessages == HandsOnWholeRequests /\ RelaysWhole

Answerable ==
  {q \in Requests : ~(q.app = "observer" /\ Endpoint(q.ask) = "transaction")}

(* The connection as its client sees it.                                   *)
BudgetOf(q) ==
  CASE q.app = "validator" -> Attempts
    [] q.app \in Forwarded \ {"validator"} -> 1
    [] q.app = "observer" -> IF q \in Answerable THEN 0 ELSE Observers
    [] OTHER -> 0

Service == INSTANCE Exchange WITH
  Budget <- [q \in Requests |-> BudgetOf(q)], Frail <- Requests \ Answerable,
  Crashing <- {q \in Requests : q.app \in {"validator", "monitor"}},
  open <- ~Ended,
  current <- IF Busy THEN request ELSE None, sent <- IF Busy THEN asked ELSE 0,
  left <- gone, last <- answer.status

(* However messages arrive and whatever fails, retries and hangs up where: *)
(* one request at a time, only a validator's sent again, one answer on     *)
(* every path of every handler, and no time-out before the last attempt.   *)
(* Two kinds of paths end without: an observer's broken body               *)
(* (observer_gateway.rs 419-421), and a panic over a validator's or the    *)
(* monitor's request (liberdus.rs 366, 375; proxy.rs 47), which also ends  *)
(* the connection.                                                         *)
ImplementsExchange == Service!Spec

(* No handler waits for an upstream server for ever.  The code bounds      *)
(* connecting and writing, but not reading: this is an assumption.         *)
UpstreamFinishes == pc = "await" ~> pc # "await"

(* As long as upstream servers finish, every request is answered, after    *)
(* however many retries, unless the client leaves first, the task panics   *)
(* or an observer's answer is broken: nobody is left waiting on an open    *)
(* connection by an error path that forgets to answer.                     *)
EveryRequestAnswered ==
  UpstreamFinishes =>
    (owed /\ request \in Answerable ~> ~owed \/ gone \/ pc = "panicked")

(* ... and the connection of a client that has left ends, even if the      *)
(* keep-alive timer never fires.                                           *)
LeftConnectionsClose == UpstreamFinishes => (gone ~> Ended)

(* Other connections turn the same index while a round is under way: still *)
(* no round reports failure before it has asked every observer, each once  *)
(* (observer_gateway.rs 402-436, 563-580).                                 *)
AsksEveryObserver ==
  [][pc = "observe" =>
       /\ asked' = asked + 1 => AskedNext \notin tried
       /\ owed /\ ~owed' /\ answer'.status = 504 => tried = 1..Observers]_vars

(* An accepted bridge-out is posted to every observer, whichever of them   *)
(* fail, and also when the client and its connection are long gone         *)
(* (observer_gateway.rs 125-164).                                          *)
BridgeoutsForwarded ==
  \A r \in 1..MaxRequests : told[r] # None ~> told[r] = Observers

(* What the sources say and the code does not keep.                        *)

(* http.rs 66-67: collect_http reads until the end of the body if the      *)
(* Content-Length header is present.                                       *)
CollectsDeclaredBody ==
  [][pc = "await" /\ answer' # answer /\ answer'.status = 200 /\ response.length # None
       => answer'.whole]_vars
=============================================================================
