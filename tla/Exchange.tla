------------------------------ MODULE Exchange ------------------------------
(***************************************************************************)
(* What one connection of the proxy promises its client, whatever clients, *)
(* networks and upstream servers do: requests are taken one at a time,     *)
(* each is sent on a limited number of times, answered at most once and    *)
(* only while it is in hand, and reported as timed out only when nothing   *)
(* is left to try.  Which requests may go unanswered is given.             *)
(***************************************************************************)
EXTENDS Integers

CONSTANTS
  Requests,
  Budget,    \* of each request: how often it may be sent on
  Frail,     \* the requests that may stay unanswered
  Crashing,  \* the requests over which the connection may break
  None       \* "no request"

VARIABLES
  open,      \* the connection
  current,   \* the request in hand
  sent,      \*   and how often it was sent on
  owed,      \* the client waits for an answer
  left,      \* the client is gone
  last       \* the status of the last answer

exchange == <<open, current, sent, owed, left, last>>

GatewayTimeout == 504

Idle == current' = None /\ sent' = 0

Init ==
  /\ open = TRUE /\ current = None /\ sent = 0
  /\ owed = FALSE /\ left = FALSE /\ last = 0

Take(q) ==
  /\ open /\ current = None /\ ~owed
  /\ current' = q /\ sent' = 0 /\ owed' = TRUE
  /\ UNCHANGED <<open, left, last>>

Send ==
  /\ current # None /\ sent < Budget[current]
  /\ sent' = sent + 1
  /\ UNCHANGED <<open, current, owed, left, last>>

Answer ==
  /\ current # None /\ owed
  /\ last' \in Nat
  /\ last' = GatewayTimeout => sent = Budget[current]
  /\ Idle /\ owed' = FALSE
  /\ UNCHANGED <<open, left>>

(* Nobody is answered: there is nobody, or the request is a frail one.     *)
Abandon ==
  /\ current # None /\ (left \/ current \in Frail)
  /\ Idle
  /\ UNCHANGED <<open, owed, left, last>>

Leave ==
  /\ left' = TRUE
  /\ UNCHANGED <<open, current, sent, owed, last>>

(* With a request in hand only once the client is gone, or when the        *)
(* connection breaks over the request.                                     *)
Close ==
  /\ open /\ open' = FALSE
  /\ current = None \/ left \/ current \in Crashing
  /\ Idle
  /\ UNCHANGED <<owed, left, last>>

Next ==
  \/ \E q \in Requests : Take(q)
  \/ Send \/ Answer \/ Abandon
  \/ Leave \/ Close

Spec == Init /\ [][Next]_exchange
=============================================================================
