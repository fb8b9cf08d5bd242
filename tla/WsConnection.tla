---------------------------- MODULE WsConnection ----------------------------
(***************************************************************************)
(* The websocket server of src/src/ws.rs.  A connection is three tasks:    *)
(* handle_stream receives the replies from a channel and writes them, the  *)
(* reader handles the client's messages and sends the replies into the     *)
(* channel, the heartbeat pings and drops a client that fell silent.       *)
(* handle_stream and the heartbeat share the write half under a mutex; the *)
(* channel is over when neither the reader nor sock_map has a sender left. *)
(*                                                                         *)
(* What a request does to the subscriptions is in Subscriptions; here it   *)
(* is a call that takes its time.  Time is told by what has passed since a *)
(* connection's last pong and since its heartbeat went to sleep, and by    *)
(* how far the clock is into its second.                                   *)
(***************************************************************************)
EXTENDS Integers, FiniteSets

CONSTANTS
  Conns,         \* the websocket connections accepted
  HttpConns,     \* the connections of the HTTP listener, which share the counter
  Ids,           \* socket ids; two connections of one nanosecond share one
  Interval,      \* heartbeat_interval_sec
  Ticks,         \* ticks per second
  Lasting,       \* bound: the connections that send requests and outlast an
                 \*   interval; the others are over before their heartbeat wakes
  MaxRequests,   \* bound: the text messages of a connection
  None           \* "nobody"

ASSUME WsConnectionAssumption ==
  /\ Interval \in Nat \ {0} /\ Ticks \in Nat \ {0} /\ MaxRequests \in Nat
  /\ Lasting \subseteq Conns /\ None \notin Conns \cup Ids \cup {"main", "heart"}

VARIABLES
  main,          \* where the task that runs handle_stream stands,
  reader,        \*   the reader,
  heart,         \*   and the heartbeat
  aborted,       \* the connections whose heartbeat was told to stop
  id,            \* the socket id of a connection
  sock_map,      \* the connection whose sender is entered under an id
  map_writer,    \* the connection whose reader holds sock_map for writing
  channel,       \* the replies in the channel
  mutex,         \* which task holds the write half: "main", "heart", None
  shut,          \* the connections that take no message any more
  stream_count,  \* Stats: one counter for both listeners
  http,          \* where the task of an HTTP connection stands
  silent,        \* ticks since last_pong was stored
  slept,         \* ticks since the heartbeat went to sleep
  phase,         \* ticks since the clock's last full second
  requests       \* text messages so far

tasks == <<main, reader, heart, aborted>>
registry == <<id, sock_map, map_writer>>
socket == <<channel, mutex, shut>>
clock == <<silent, slept, phase>>
counter == <<stream_count, http>>
vars == <<tasks, registry, socket, clock, counter, requests>>

-----------------------------------------------------------------------------
(* A pong this long ago is too old whatever the clock's phase. *)
Cap == (Interval + 1) * Ticks

Upto(n, bound) == IF n < bound THEN n ELSE bound

(* as_secs() truncates both instants before they are subtracted. *)
Elapsed(c) == (silent[c] + Ticks - 1 - phase) \div Ticks

(* An id is made from the nanosecond alone: any, also one given before.    *)
generate_uuid == Ids

Entered == {sock_map[i] : i \in DOMAIN sock_map}

(* rx lives as long as handle_stream. *)
Receiving(c) == main[c] \in {"recv", "wait", "write", "end", "close"}

Step(task, c, label) == task' = [task EXCEPT ![c] = label]

-----------------------------------------------------------------------------
(* The task of a connection, up to the handshake. *)

(* A seeded bug, as every definition with an underscore suffix: only the   *)
(* failures count.                                                         *)
Accept_Uncounted(c) ==
  /\ main[c] = "new"
  /\ Step(main, c, "handshake")
  /\ UNCHANGED <<reader, heart, aborted, registry, socket, clock, counter, requests>>

Accept(c) ==
  /\ main[c] = "new"
  /\ stream_count' = stream_count + 1
  /\ Step(main, c, "handshake")
  /\ UNCHANGED <<reader, heart, aborted, registry, socket, clock, http, requests>>

(* A failure that returns without giving the count back. *)
HandshakeFails_Uncounted(c) ==
  /\ main[c] = "handshake"
  /\ Step(main, c, "done")
  /\ UNCHANGED <<reader, heart, aborted, registry, socket, clock, counter, requests>>

(* Of TLS or of the websocket. *)
HandshakeFails(c) ==
  /\ main[c] = "handshake"
  /\ stream_count' = stream_count - 1
  /\ Step(main, c, "done")
  /\ UNCHANGED <<reader, heart, aborted, registry, socket, clock, http, requests>>

(* The sender is entered under an id made from the time of day; the two    *)
(* other tasks start.                                                      *)
Handshake(c) ==
  /\ main[c] = "handshake" /\ map_writer = None
  /\ \E i \in generate_uuid :
       /\ id' = [id EXCEPT ![c] = i]
       /\ sock_map' = [j \in DOMAIN sock_map \cup {i} |-> IF j = i THEN c ELSE sock_map[j]]
  /\ Step(main, c, "recv") /\ Step(reader, c, "idle") /\ Step(heart, c, "sleep")
  /\ silent' = [silent EXCEPT ![c] = 0]
  /\ slept' = [slept EXCEPT ![c] = 0]
  /\ UNCHANGED <<aborted, map_writer, socket, phase, counter, requests>>

-----------------------------------------------------------------------------
(* The reader. *)

Message(c) == reader[c] = "idle" /\ c \in Lasting /\ requests[c] < MaxRequests

(* A send into a channel without receiver is unwrapped: the reader panics. *)
Reply(c) ==
  IF Receiving(c)
  THEN channel' = [channel EXCEPT ![c] = @ + 1] /\ Step(reader, c, "idle")
  ELSE Step(reader, c, "gone") /\ UNCHANGED channel

InvalidJson(c) ==
  /\ Message(c)
  /\ requests' = [requests EXCEPT ![c] = @ + 1]
  /\ Reply(c)
  /\ UNCHANGED <<main, heart, aborted, registry, mutex, shut, clock, counter>>

Request(c) ==
  /\ Message(c)
  /\ requests' = [requests EXCEPT ![c] = @ + 1]
  /\ Step(reader, c, "handle")
  /\ UNCHANGED <<main, heart, aborted, registry, socket, clock, counter>>

HandleEnds(c) ==
  /\ reader[c] = "handle"
  /\ Reply(c)
  /\ UNCHANGED <<main, heart, aborted, registry, mutex, shut, clock, counter, requests>>

(* Parameters that are missing, or an action that is none: the reader      *)
(* panics.                                                                 *)
HandlePanics(c) ==
  /\ reader[c] = "handle"
  /\ Step(reader, c, "gone")
  /\ UNCHANGED <<main, heart, aborted, registry, socket, clock, counter, requests>>

Pong(c) ==
  /\ reader[c] = "idle" /\ heart[c] # "off"
  /\ silent' = [silent EXCEPT ![c] = 0]
  /\ UNCHANGED <<tasks, registry, socket, slept, phase, counter, requests>>

(* The entry stays. *)
CloseFrame_KeepsEntry(c) ==
  /\ reader[c] = "idle" /\ map_writer = None
  /\ map_writer' = c
  /\ shut' = shut \cup {c}
  /\ Step(reader, c, "closing")
  /\ UNCHANGED <<main, heart, aborted, id, sock_map, channel, mutex, clock, counter, requests>>

(* The map stays locked while the subscriptions are removed. *)
CloseFrame(c) ==
  /\ reader[c] = "idle" /\ map_writer = None
  /\ sock_map' = [i \in DOMAIN sock_map \ {id[c]} |-> sock_map[i]]
  /\ map_writer' = c
  /\ shut' = shut \cup {c}
  /\ Step(reader, c, "closing")
  /\ UNCHANGED <<main, heart, aborted, id, channel, mutex, clock, counter, requests>>

CloseEnds(c) ==
  /\ reader[c] = "closing"
  /\ map_writer' = None
  /\ Step(reader, c, "gone")
  /\ UNCHANGED <<main, heart, aborted, id, sock_map, socket, clock, counter, requests>>

(* The stream ends or fails; nothing is cleaned up. *)
ReadEnds(c) ==
  /\ reader[c] = "idle"
  /\ Step(reader, c, "gone")
  /\ UNCHANGED <<main, heart, aborted, registry, socket, clock, counter, requests>>

-----------------------------------------------------------------------------
(* handle_stream, from its receiving loop on. *)

Receive(c) ==
  /\ main[c] = "recv" /\ channel[c] > 0
  /\ Step(main, c, "wait")
  /\ UNCHANGED <<reader, heart, aborted, registry, socket, clock, counter, requests>>

(* recv() returns None: the heartbeat is aborted. *)
NoSenderLeft(c) ==
  /\ main[c] = "recv" /\ channel[c] = 0
  /\ reader[c] = "gone" /\ c \notin Entered
  /\ aborted' = aborted \cup {c}
  /\ Step(main, c, "end")
  /\ UNCHANGED <<reader, heart, registry, socket, clock, counter, requests>>

Lock(c) ==
  /\ main[c] \in {"wait", "end"} /\ mutex[c] = None
  /\ mutex' = [mutex EXCEPT ![c] = "main"]
  /\ Step(main, c, IF main[c] = "wait" THEN "write" ELSE "close")
  /\ UNCHANGED <<reader, heart, aborted, registry, channel, shut, clock, counter, requests>>

(* The channel is asked again without taking the message off. *)
Write_Repeats(c) ==
  /\ main[c] = "write" /\ c \notin shut
  /\ mutex' = [mutex EXCEPT ![c] = None]
  /\ Step(main, c, "recv")
  /\ UNCHANGED <<reader, heart, aborted, registry, channel, shut, clock, counter, requests>>

Write(c) ==
  /\ main[c] = "write" /\ c \notin shut
  /\ channel' = [channel EXCEPT ![c] = @ - 1]
  /\ mutex' = [mutex EXCEPT ![c] = None]
  /\ Step(main, c, "recv")
  /\ UNCHANGED <<reader, heart, aborted, registry, shut, clock, counter, requests>>

(* A closed connection refuses the message; any may break. *)
WriteFails(c) ==
  /\ main[c] = "write"
  /\ mutex' = [mutex EXCEPT ![c] = None]
  /\ aborted' = aborted \cup {c}
  /\ Step(main, c, "end")
  /\ UNCHANGED <<reader, heart, registry, channel, shut, clock, counter, requests>>

(* The write half is closed; the task ends and drops the channel.          *)
End(c) ==
  /\ main[c] = "close"
  /\ mutex' = [mutex EXCEPT ![c] = None]
  /\ shut' = shut \cup {c}
  /\ channel' = [channel EXCEPT ![c] = 0]
  /\ stream_count' = stream_count - 1
  /\ Step(main, c, "done")
  /\ UNCHANGED <<reader, heart, aborted, registry, clock, http, requests>>

-----------------------------------------------------------------------------
(* The connections of the HTTP listener, as far as the counter sees them:  *)
(* what one does in between is in HttpConnection.                          *)

HttpAccepts(h) ==
  /\ http[h] = "new"
  /\ stream_count' = stream_count + 1
  /\ Step(http, h, "open")
  /\ UNCHANGED <<tasks, registry, socket, clock, requests>>

(* handle_stream returns, with or without an error, or TLS fails. *)
HttpEnds(h) ==
  /\ http[h] = "open"
  /\ stream_count' = stream_count - 1
  /\ Step(http, h, "done")
  /\ UNCHANGED <<tasks, registry, socket, clock, requests>>

(* A handler panics: the task ends before it reaches its fetch_sub. *)
HttpPanics(h) ==
  /\ http[h] = "open"
  /\ Step(http, h, "lost")
  /\ UNCHANGED <<tasks, registry, socket, clock, stream_count, requests>>

-----------------------------------------------------------------------------
(* The heartbeat. *)

Awake(c) == heart[c] = "sleep" /\ slept[c] = Interval * Ticks

(* An interval is enough. *)
Check_AtInterval(c) ==
  /\ Awake(c)
  /\ Step(heart, c, IF Elapsed(c) >= Interval THEN "drop" ELSE "wait")
  /\ UNCHANGED <<main, reader, aborted, registry, socket, clock, counter, requests>>

(* The entry is removed as soon as the client is late. *)
Check_Deregisters(c) ==
  /\ Awake(c) /\ map_writer = None
  /\ Step(heart, c, IF Elapsed(c) > Interval THEN "drop" ELSE "wait")
  /\ sock_map' = IF Elapsed(c) > Interval
                 THEN [i \in DOMAIN sock_map \ {id[c]} |-> sock_map[i]]
                 ELSE sock_map
  /\ UNCHANGED <<main, reader, aborted, id, map_writer, socket, clock, counter, requests>>

Check(c) ==
  /\ Awake(c)
  /\ Step(heart, c, IF Elapsed(c) > Interval THEN "drop" ELSE "wait")
  /\ UNCHANGED <<main, reader, aborted, registry, socket, clock, counter, requests>>

(* The write half is taken without its lock. *)
LockHeart_Unlocked(c) ==
  /\ heart[c] \in {"drop", "wait"}
  /\ mutex' = [mutex EXCEPT ![c] = "heart"]
  /\ Step(heart, c, IF heart[c] = "wait" THEN "ping" ELSE "close")
  /\ UNCHANGED <<main, reader, aborted, registry, channel, shut, clock, counter, requests>>

(* After unsubscribe_all if it is to drop the client. *)
LockHeart(c) ==
  /\ heart[c] \in {"drop", "wait"} /\ mutex[c] = None
  /\ mutex' = [mutex EXCEPT ![c] = "heart"]
  /\ Step(heart, c, IF heart[c] = "wait" THEN "ping" ELSE "close")
  /\ UNCHANGED <<main, reader, aborted, registry, channel, shut, clock, counter, requests>>

Ping(c) ==
  /\ heart[c] = "ping" /\ c \notin shut
  /\ mutex' = [mutex EXCEPT ![c] = None]
  /\ slept' = [slept EXCEPT ![c] = 0]
  /\ Step(heart, c, "sleep")
  /\ UNCHANGED <<main, reader, aborted, registry, channel, shut, silent, phase, counter, requests>>

PingFails(c) ==
  /\ heart[c] = "ping"
  /\ Step(heart, c, "close")
  /\ UNCHANGED <<main, reader, aborted, registry, socket, clock, counter, requests>>

(* Nobody reads its clock any more. *)
HeartOff(c) ==
  /\ Step(heart, c, "off")
  /\ silent' = [silent EXCEPT ![c] = 0] /\ slept' = [slept EXCEPT ![c] = 0]

(* The break after the close is missing. *)
HeartCloses_GoesOn(c) ==
  /\ heart[c] = "close"
  /\ mutex' = [mutex EXCEPT ![c] = None]
  /\ shut' = shut \cup {c}
  /\ slept' = [slept EXCEPT ![c] = 0]
  /\ Step(heart, c, "sleep")
  /\ UNCHANGED <<main, reader, aborted, registry, channel, silent, phase, counter, requests>>

(* It does not tell the other two tasks. *)
HeartCloses(c) ==
  /\ heart[c] = "close"
  /\ mutex' = [mutex EXCEPT ![c] = None]
  /\ shut' = shut \cup {c}
  /\ HeartOff(c)
  /\ UNCHANGED <<main, reader, aborted, registry, channel, phase, counter, requests>>

(* An aborted task ends at its next await and drops what it holds. *)
Cancel(c) ==
  /\ c \in aborted /\ heart[c] # "off"
  /\ mutex' = [mutex EXCEPT ![c] = IF @ = "heart" THEN None ELSE @]
  /\ HeartOff(c)
  /\ UNCHANGED <<main, reader, aborted, registry, channel, shut, phase, counter, requests>>

-----------------------------------------------------------------------------
(* Time. *)

Watched == {c \in Lasting : heart[c] # "off"}

Tick ==
  /\ Watched # {}
  /\ phase' = (phase + 1) % Ticks
  /\ silent' = [c \in Conns |-> IF c \in Watched THEN Upto(silent[c] + 1, Cap) ELSE silent[c]]
  /\ slept' = [c \in Conns |-> IF c \in Watched /\ heart[c] = "sleep"
                               THEN Upto(slept[c] + 1, Interval * Ticks)
                               ELSE slept[c]]
  /\ UNCHANGED <<tasks, registry, socket, counter, requests>>

-----------------------------------------------------------------------------
Init ==
  /\ main = [c \in Conns |-> "new"]
  /\ reader = [c \in Conns |-> "off"]
  /\ heart = [c \in Conns |-> "off"]
  /\ aborted = {}
  /\ id = [c \in Conns |-> None]
  /\ sock_map = [i \in {} |-> None]
  /\ map_writer = None
  /\ channel = [c \in Conns |-> 0]
  /\ mutex = [c \in Conns |-> None]
  /\ shut = {}
  /\ stream_count = 0
  /\ http = [h \in HttpConns |-> "new"]
  /\ silent = [c \in Conns |-> 0]
  /\ slept = [c \in Conns |-> 0]
  /\ phase \in 0..(Ticks - 1)
  /\ requests = [c \in Conns |-> 0]

Opening(c) == Accept(c) \/ Handshake(c) \/ HandshakeFails(c)

Reading(c) ==
  \/ InvalidJson(c) \/ Request(c) \/ HandleEnds(c) \/ HandlePanics(c)
  \/ Pong(c) \/ CloseFrame(c) \/ CloseEnds(c) \/ ReadEnds(c)

Writing(c) ==
  Receive(c) \/ NoSenderLeft(c) \/ Lock(c) \/ Write(c) \/ WriteFails(c) \/ End(c)

Beating(c) ==
  Check(c) \/ LockHeart(c) \/ Ping(c) \/ PingFails(c) \/ HeartCloses(c) \/ Cancel(c)

Http(h) == HttpAccepts(h) \/ HttpEnds(h) \/ HttpPanics(h)

Next ==
  \/ \E c \in Conns : Opening(c) \/ Reading(c) \/ Writing(c) \/ Beating(c)
  \/ \E h \in HttpConns : Http(h)
  \/ Tick

Spec == Init /\ [][Next]_vars

(* The runtime polls every task that is ready, and tokio's mutex serves in *)
(* order of arrival.  Handshakes, messages and validators (HandleEnds) may *)
(* never come; that a write ends assumes a client that reads, for the code *)
(* gives writes no time-out.                                               *)
WriteEnds(c) == Write(c) \/ (c \in shut /\ WriteFails(c))
PingEnds(c) == Ping(c) \/ (c \in shut /\ PingFails(c))

Fairness(c) ==
  /\ WF_vars(CloseEnds(c))
  /\ WF_vars(Receive(c) \/ NoSenderLeft(c) \/ WriteEnds(c) \/ End(c))
  /\ SF_vars(Lock(c))
  /\ WF_vars(Check(c) \/ PingEnds(c) \/ HeartCloses(c))
  /\ WF_vars(Cancel(c))
  /\ SF_vars(LockHeart(c))

FairSpec == Spec /\ (\A c \in Lasting : Fairness(c)) /\ WF_vars(Tick)

-----------------------------------------------------------------------------
(* Properties *)

TypeOK ==
  /\ main \in [Conns -> {"new", "handshake", "recv", "wait", "write", "end", "close", "done"}]
  /\ reader \in [Conns -> {"off", "idle", "handle", "closing", "gone"}]
  /\ heart \in [Conns -> {"off", "sleep", "drop", "wait", "ping", "close"}]
  /\ aborted \subseteq Conns
  /\ id \in [Conns -> Ids \cup {None}]
  /\ DOMAIN sock_map \subseteq Ids /\ sock_map \in [DOMAIN sock_map -> Conns]
  /\ map_writer \in Conns \cup {None}
  /\ channel \in [Conns -> Nat]
  /\ mutex \in [Conns -> {"main", "heart", None}]
  /\ shut \subseteq Conns
  /\ stream_count \in Nat
  /\ http \in [HttpConns -> {"new", "open", "done", "lost"}]
  /\ silent \in [Conns -> 0..Cap]
  /\ slept \in [Conns -> 0..(Interval * Ticks)]
  /\ phase \in 0..(Ticks - 1)
  /\ requests \in [Conns -> 0..MaxRequests]

(* The websocket connections whose task has not ended. *)
Live == {c \in Conns : main[c] \notin {"new", "done"}}

HttpIn(states) == {h \in HttpConns : http[h] \in states}

(* The counter that both listeners share is the number of the connections  *)
(* whose task has not ended and of the HTTP connections whose handler      *)
(* panicked: every other end gives its count back, and only once           *)
(* (ws.rs 139-171, http.rs 550-586, main.rs 143-191).                      *)
CountsLive == stream_count = Cardinality(Live) + Cardinality(HttpIn({"open", "lost"}))

(* A reply, a ping and the closing of the socket never write at once: the  *)
(* frames of the two tasks do not mix, also when one is aborted inside a   *)
(* write (ws.rs 321-333, 346-361).                                         *)
OneWriter ==
  \A c \in Conns : ~(main[c] \in {"write", "close"} /\ heart[c] \in {"ping", "close"})

(* A client can be sent messages through sock_map as long as it and the    *)
(* proxy both are there: its reader reads, handle_stream receives and the  *)
(* write half is open (ws.rs 186-196, 230-238, 320-325).  Not so if        *)
(* another socket was accepted in the same nanosecond and bears its id     *)
(* (ws.rs 34-75).  That an entry is still there when the write half is     *)
(* closed or nobody receives is a leftover and promises nothing.           *)
Alone(c) == \A d \in Conns \ {c} : id[d] # id[c]
Served(c) == reader[c] \in {"idle", "handle"} /\ Receiving(c) /\ c \notin shut
RegisteredWhileOpen ==
  \A c \in Conns : Served(c) /\ Alone(c) =>
    id[c] \in DOMAIN sock_map /\ sock_map[id[c]] = c

(* A client is only dropped when more than the interval has really passed  *)
(* since its last pong, though both instants are cut to full seconds       *)
(* (ws.rs 312-318).                                                        *)
NotDroppedEarly ==
  [][\A c \in Conns : heart[c] = "sleep" /\ heart'[c] = "drop" =>
       silent[c] > Interval * Ticks]_vars

(* A Close frame ends the connection's task, which gives its count back,   *)
(* whatever is in the channel and whoever holds the write half             *)
(* (ws.rs 230-238, 337-363).                                               *)
ClosedEnds ==
  \A c \in Lasting : reader[c] = "closing" ~> main[c] = "done"

(* The heartbeat of a client that stays silent ends: it drops the client   *)
(* after unsubscribe_all (ws.rs 318-325), unless it has ended before by a  *)
(* ping that failed or by the end of handle_stream, which unsubscribe      *)
(* nothing (ws.rs 328-335, 360).                                           *)
SilenceIsNoticed ==
  \A c \in Lasting : silent[c] = Cap ~> (silent[c] < Cap \/ heart[c] = "off")

(* No reply stays in the channel: it is written or thrown away with the    *)
(* connection (ws.rs 337-364).                                             *)
RepliesLeave ==
  \A c \in Lasting : channel[c] > 0 ~> channel[c] = 0
=============================================================================
