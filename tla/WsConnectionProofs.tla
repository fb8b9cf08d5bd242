------------------------- MODULE WsConnectionProofs -------------------------
(* Proofs about WsConnection, for every set of connections and ids, every  *)
(* interval, and any resolution of the clock.                              *)
EXTENDS WsConnection, FiniteSetTheorems, TLAPS

-----------------------------------------------------------------------------
(* The inductive invariant. *)

(* What counts: a websocket's task, an HTTP task, and one that panicked.   *)
Unreturned == HttpIn({"open", "lost"})

Counted ==
  /\ IsFiniteSet(Live) /\ IsFiniteSet(Unreturned)
  /\ stream_count = Cardinality(Live) + Cardinality(Unreturned)

(* A message that was received is only taken off when it is written.       *)
Pending == \A c \in Conns : main[c] \in {"wait", "write"} => channel[c] > 0

(* Whoever writes holds the write half.                                    *)
Locked ==
  \A c \in Conns :
    /\ main[c] \in {"write", "close"} => mutex[c] = "main"
    /\ heart[c] \in {"ping", "close"} => mutex[c] = "heart"

(* Before the handshake there is nothing of a socket.                      *)
Opened ==
  \A c \in Conns :
    /\ main[c] \in {"new", "handshake"} => id[c] = None /\ heart[c] = "off"
    /\ reader[c] # "off" => id[c] \in Ids

(* Only a Close frame removes an entry, be its client served or not.       *)
Entry ==
  \A c \in Conns : reader[c] \in {"idle", "handle"} /\ Alone(c) =>
    id[c] \in DOMAIN sock_map /\ sock_map[id[c]] = c

Inv == TypeOK /\ Counted /\ Pending /\ Locked /\ Opened /\ Entry

LEMMA InitInv == Init => Inv
<1> SUFFICES ASSUME Init
             PROVE  Inv
  OBVIOUS
<1> USE WsConnectionAssumption
<1>1. Live = {} /\ Unreturned = {} /\ stream_count = 0
  BY DEF Init, Live, Unreturned, HttpIn
<1>2. Counted
  BY <1>1, FS_EmptySet DEF Counted
<1>3. Cap \in Nat /\ Interval * Ticks \in Nat
  BY DEF Cap
<1>4. sock_map = [i \in {} |-> None]
  BY DEF Init
<1>5. DOMAIN sock_map \subseteq Ids /\ sock_map \in [DOMAIN sock_map -> Conns]
  BY <1>4
<1>6. TypeOK
  BY <1>3, <1>5 DEF Init, TypeOK
<1>7. Pending /\ Locked /\ Opened /\ Entry
  BY DEF Init, Pending, Locked, Opened, Entry
<1> QED
  BY <1>2, <1>6, <1>7 DEF Inv

-----------------------------------------------------------------------------
(* The counter. *)

LEMMA CountedStep == Inv /\ [Next]_vars => Counted'
<1> SUFFICES ASSUME Inv, [Next]_vars
             PROVE  Counted'
  OBVIOUS
<1> USE DEF Inv, TypeOK, Counted
<1>0. Cardinality(Live) \in Nat /\ Cardinality(Unreturned) \in Nat
  BY FS_CardinalityType
<1>1. ASSUME NEW c \in Conns, Accept(c)
      PROVE  Counted'
  <2>1. c \notin Live /\ Live' = Live \cup {c} /\ stream_count' = stream_count + 1
    BY <1>1 DEF Accept, Step, Live
  <2>2. Unreturned' = Unreturned
    BY <1>1 DEF Accept, Unreturned, HttpIn
  <2>3. IsFiniteSet(Live') /\ Cardinality(Live') = Cardinality(Live) + 1
    BY <2>1, FS_AddElement
  <2> QED
    BY <1>0, <2>1, <2>2, <2>3
<1>2. ASSUME NEW c \in Conns, HandshakeFails(c) \/ End(c)
      PROVE  Counted'
  <2>1. c \in Live /\ Live' = Live \ {c} /\ stream_count' = stream_count - 1
    BY <1>2 DEF HandshakeFails, End, Step, Live
  <2>2. Unreturned' = Unreturned
    BY <1>2 DEF HandshakeFails, End, Unreturned, HttpIn
  <2>3. IsFiniteSet(Live') /\ Cardinality(Live') = Cardinality(Live) - 1
    BY <2>1, FS_RemoveElement
  <2> QED
    BY <1>0, <2>1, <2>2, <2>3
<1>3. ASSUME NEW h \in HttpConns, Http(h)
      PROVE  Counted'
  <2>1. Live' = Live
    BY <1>3 DEF Http, HttpAccepts, HttpEnds, HttpPanics, tasks, Live
  <2>2. CASE HttpAccepts(h)
    <3>1. h \notin Unreturned /\ Unreturned' = Unreturned \cup {h}
      BY <2>2 DEF HttpAccepts, Step, Unreturned, HttpIn
    <3>2. IsFiniteSet(Unreturned') /\ Cardinality(Unreturned') = Cardinality(Unreturned) + 1
      BY <3>1, FS_AddElement
    <3> QED
      BY <1>0, <2>1, <2>2, <3>2 DEF HttpAccepts
  <2>3. CASE HttpEnds(h)
    <3>1. h \in Unreturned /\ Unreturned' = Unreturned \ {h}
      BY <2>3 DEF HttpEnds, Step, Unreturned, HttpIn
    <3>2. IsFiniteSet(Unreturned') /\ Cardinality(Unreturned') = Cardinality(Unreturned) - 1
      BY <3>1, FS_RemoveElement
    <3> QED
      BY <1>0, <2>1, <2>3, <3>2 DEF HttpEnds
  <2>4. CASE HttpPanics(h)
    <3>1. Unreturned' = Unreturned
      BY <2>4 DEF HttpPanics, Step, Unreturned, HttpIn
    <3> QED
      BY <2>1, <2>4, <3>1 DEF HttpPanics
  <2> QED
    BY <1>3, <2>2, <2>3, <2>4 DEF Http
<1>4. ASSUME UNCHANGED <<main, counter>>
      PROVE  Counted'
  BY <1>4 DEF counter, Live, Unreturned, HttpIn
<1>5. ASSUME NEW c \in Conns, Handshake(c) \/ Reading(c) \/ Beating(c)
      PROVE  Counted'
  <2>1. Unreturned' = Unreturned /\ stream_count' = stream_count
    BY <1>5 DEF Handshake, Reading, InvalidJson, Request, HandleEnds, HandlePanics, Pong,
                CloseFrame, CloseEnds, ReadEnds, Beating, Check, LockHeart, Ping, PingFails,
                HeartCloses, Cancel, counter, Unreturned, HttpIn
  <2>2. Live' = Live
    <3>1. CASE Handshake(c)
      BY <3>1 DEF Handshake, Step, Live
    <3>2. CASE Reading(c) \/ Beating(c)
      <4>1. main' = main
        BY <3>2 DEF Reading, InvalidJson, Request, HandleEnds, HandlePanics, Pong, CloseFrame,
                    CloseEnds, ReadEnds, Beating, Check, LockHeart, Ping, PingFails, HeartCloses,
                    Cancel, tasks
      <4> QED
        BY <4>1 DEF Live
    <3> QED
      BY <1>5, <3>1, <3>2
  <2> QED
    BY <2>1, <2>2
<1>6. ASSUME NEW c \in Conns, Receive(c) \/ NoSenderLeft(c) \/ Lock(c) \/ Write(c) \/ WriteFails(c)
      PROVE  Counted'
  <2>1. Live' = Live
    BY <1>6 DEF Receive, NoSenderLeft, Lock, Write, WriteFails, Step, Live
  <2>2. Unreturned' = Unreturned /\ stream_count' = stream_count
    BY <1>6 DEF Receive, NoSenderLeft, Lock, Write, WriteFails, counter, Unreturned, HttpIn
  <2> QED
    BY <2>1, <2>2
<1>7. CASE Tick \/ UNCHANGED vars
  BY <1>4, <1>7 DEF Tick, tasks, vars
<1> QED
  BY <1>1, <1>2, <1>3, <1>5, <1>6, <1>7 DEF Next, Opening, Writing

-----------------------------------------------------------------------------
(* The types. *)

LEMMA TypeStep == Inv /\ [Next]_vars /\ stream_count' \in Nat => TypeOK'
<1> SUFFICES ASSUME Inv, [Next]_vars, stream_count' \in Nat
             PROVE  TypeOK'
  OBVIOUS
<1> USE WsConnectionAssumption DEF Inv, TypeOK, counter
<1>1. Cap \in Nat /\ Interval * Ticks \in Nat
  BY DEF Cap
<1>2. ASSUME NEW c \in Conns, Opening(c)
      PROVE  TypeOK'
  <2>1. CASE Accept(c) \/ HandshakeFails(c)
    BY <2>1 DEF Accept, HandshakeFails, Step, registry, socket, clock
  <2>2. CASE Handshake(c)
    BY <1>1, <2>2 DEF Handshake, generate_uuid, Step, socket
  <2> QED
    BY <1>2, <2>1, <2>2 DEF Opening
<1>3. ASSUME NEW c \in Conns, Reading(c)
      PROVE  TypeOK'
  <2>1. CASE InvalidJson(c) \/ HandleEnds(c)
    BY <2>1 DEF InvalidJson, HandleEnds, Message, Reply, Step, registry, clock
  <2>2. CASE Request(c) \/ HandlePanics(c) \/ ReadEnds(c)
    BY <2>2 DEF Request, HandlePanics, ReadEnds, Message, Step, registry, socket, clock
  <2>3. CASE Pong(c)
    BY <1>1, <2>3 DEF Pong, tasks, registry, socket
  <2>4. CASE CloseFrame(c)
    BY <2>4 DEF CloseFrame, Step, clock
  <2>5. CASE CloseEnds(c)
    BY <2>5 DEF CloseEnds, Step, socket, clock
  <2> QED
    BY <1>3, <2>1, <2>2, <2>3, <2>4, <2>5 DEF Reading
<1>4. ASSUME NEW c \in Conns, Writing(c)
      PROVE  TypeOK'
  <2>1. CASE Receive(c) \/ NoSenderLeft(c)
    BY <2>1 DEF Receive, NoSenderLeft, Step, registry, socket, clock
  <2>2. CASE Lock(c) \/ WriteFails(c)
    BY <2>2 DEF Lock, WriteFails, Step, registry, clock
  <2>3. CASE Write(c) \/ End(c)
    <3>1. channel' \in [Conns -> Nat]
      BY <2>3 DEF Write, End, Pending
    <3> QED
      BY <2>3, <3>1 DEF Write, End, Step, registry, clock
  <2> QED
    BY <1>4, <2>1, <2>2, <2>3 DEF Writing
<1>5. ASSUME NEW c \in Conns, Beating(c)
      PROVE  TypeOK'
  <2>1. CASE Check(c) \/ PingFails(c)
    BY <2>1 DEF Check, PingFails, Step, registry, socket, clock
  <2>2. CASE LockHeart(c)
    BY <2>2 DEF LockHeart, Step, registry, clock
  <2>3. CASE Ping(c)
    BY <1>1, <2>3 DEF Ping, Step, registry
  <2>4. CASE HeartCloses(c)
    BY <1>1, <2>4 DEF HeartCloses, HeartOff, Step, registry
  <2>5. CASE Cancel(c)
    BY <1>1, <2>5 DEF Cancel, HeartOff, Step, registry
  <2> QED
    BY <1>5, <2>1, <2>2, <2>3, <2>4, <2>5 DEF Beating
<1>6. ASSUME Tick
      PROVE  TypeOK'
  <2>1. phase' \in 0..(Ticks - 1)
    BY <1>6 DEF Tick
  <2>2. ASSUME NEW n, NEW b \in Nat, n \in 0..b
        PROVE  Upto(n + 1, b) \in 0..b
    BY <2>2 DEF Upto
  <2>3. silent' \in [Conns -> 0..Cap] /\ slept' \in [Conns -> 0..(Interval * Ticks)]
    BY <1>1, <1>6, <2>2 DEF Tick
  <2> QED
    BY <1>6, <2>1, <2>3 DEF Tick, tasks, registry, socket
<1>7. ASSUME NEW h \in HttpConns, Http(h)
      PROVE  TypeOK'
  BY <1>7 DEF Http, HttpAccepts, HttpEnds, HttpPanics, Step, tasks, registry, socket, clock
<1>8. ASSUME UNCHANGED vars
      PROVE  TypeOK'
  BY <1>8 DEF vars, tasks, registry, socket, clock, counter
<1> QED
  BY <1>2, <1>3, <1>4, <1>5, <1>6, <1>7, <1>8 DEF Next

-----------------------------------------------------------------------------
(* The channel and the write half. *)

LEMMA LockedStep == Inv /\ [Next]_vars => Pending' /\ Locked'
<1> SUFFICES ASSUME Inv, [Next]_vars
             PROVE  Pending' /\ Locked'
  OBVIOUS
<1> USE WsConnectionAssumption DEF Inv, TypeOK, Pending, Locked
<1>1. ASSUME NEW c \in Conns, Opening(c)
      PROVE  Pending' /\ Locked'
  BY <1>1 DEF Opening, Accept, Handshake, HandshakeFails, Step, socket, Opened
<1>2. ASSUME NEW c \in Conns, Reading(c)
      PROVE  Pending' /\ Locked'
  <2>1. main' = main /\ heart' = heart /\ mutex' = mutex
    BY <1>2 DEF Reading, InvalidJson, Request, HandleEnds, HandlePanics, Pong, CloseFrame,
                CloseEnds, ReadEnds, tasks, socket
  <2>2. \A d \in Conns : channel'[d] \in {channel[d], channel[d] + 1}
    BY <1>2 DEF Reading, InvalidJson, Request, HandleEnds, HandlePanics, Pong, CloseFrame,
                CloseEnds, ReadEnds, Reply, socket
  <2> QED
    BY <2>1, <2>2
<1>3. ASSUME NEW c \in Conns, Writing(c)
      PROVE  Pending' /\ Locked'
  <2>1. CASE Receive(c) \/ NoSenderLeft(c)
    BY <2>1 DEF Receive, NoSenderLeft, Step, socket
  <2>2. CASE Lock(c)
    BY <2>2 DEF Lock, Step
  <2>3. CASE Write(c) \/ WriteFails(c)
    BY <2>3 DEF Write, WriteFails, Step
  <2>4. CASE End(c)
    BY <2>4 DEF End, Step
  <2> QED
    BY <1>3, <2>1, <2>2, <2>3, <2>4 DEF Writing
<1>4. ASSUME NEW c \in Conns, Beating(c)
      PROVE  Pending' /\ Locked'
  <2>1. CASE Check(c) \/ PingFails(c)
    BY <2>1 DEF Check, PingFails, Step, socket
  <2>2. CASE LockHeart(c)
    BY <2>2 DEF LockHeart, Step
  <2>3. CASE Ping(c) \/ HeartCloses(c)
    BY <2>3 DEF Ping, HeartCloses, HeartOff, Step
  <2>4. CASE Cancel(c)
    BY <2>4 DEF Cancel, HeartOff, Step
  <2> QED
    BY <1>4, <2>1, <2>2, <2>3, <2>4 DEF Beating
<1>5. ASSUME NEW h \in HttpConns, Http(h)
      PROVE  Pending' /\ Locked'
  BY <1>5 DEF Http, HttpAccepts, HttpEnds, HttpPanics, tasks, socket
<1>6. ASSUME Tick \/ UNCHANGED vars
      PROVE  Pending' /\ Locked'
  BY <1>6 DEF Tick, vars, tasks, socket
<1> QED
  BY <1>1, <1>2, <1>3, <1>4, <1>5, <1>6 DEF Next

-----------------------------------------------------------------------------
(* The entries of sock_map. *)

LEMMA RegisteredStep == Inv /\ [Next]_vars => Opened' /\ Entry'
<1> SUFFICES ASSUME Inv, [Next]_vars
             PROVE  Opened' /\ Entry'
  OBVIOUS
<1> USE WsConnectionAssumption DEF Inv, TypeOK, Opened, Entry, Alone
<1>1. ASSUME NEW c \in Conns, Handshake(c)
      PROVE  Opened' /\ Entry'
  <2>1. PICK i \in Ids :
          /\ id' = [id EXCEPT ![c] = i]
          /\ sock_map' = [j \in DOMAIN sock_map \cup {i} |-> IF j = i THEN c ELSE sock_map[j]]
    BY <1>1 DEF Handshake, generate_uuid
  <2>2. /\ main[c] = "handshake" /\ id[c] = None
        /\ main' = [main EXCEPT ![c] = "recv"]
        /\ reader' = [reader EXCEPT ![c] = "idle"]
        /\ heart' = [heart EXCEPT ![c] = "sleep"]
    BY <1>1 DEF Handshake, Step
  <2>3. Opened'
    BY <2>1, <2>2
  <2>4. ASSUME NEW d \in Conns, d # c, reader'[d] \in {"idle", "handle"}, Alone(d)'
        PROVE  id'[d] \in DOMAIN sock_map' /\ sock_map'[id'[d]] = d
    <3>1. id'[d] = id[d] /\ id[d] # i /\ reader[d] = reader'[d] /\ id[d] \in Ids
      BY <2>1, <2>2, <2>4
    <3>2. Alone(d)
      BY <2>1, <2>2, <2>4, <3>1
    <3> QED
      BY <2>1, <2>4, <3>1, <3>2
  <2>5. id'[c] \in DOMAIN sock_map' /\ sock_map'[id'[c]] = c
    BY <2>1
  <2> QED
    BY <2>3, <2>4, <2>5
<1>2. ASSUME NEW c \in Conns, CloseFrame(c)
      PROVE  Opened' /\ Entry'
  BY <1>2 DEF CloseFrame, Step
<1>3. ASSUME NEW c \in Conns, Accept(c) \/ HandshakeFails(c) \/ Writing(c)
      PROVE  Opened' /\ Entry'
  <2>1. /\ reader' = reader /\ heart' = heart /\ id' = id /\ sock_map' = sock_map
        /\ \A d \in Conns : main'[d] \in {"new", "handshake"} => main[d] \in {"new", "handshake"}
    BY <1>3 DEF Accept, HandshakeFails, Writing, Receive, NoSenderLeft, Lock, Write, WriteFails,
                End, Step, registry
  <2> QED
    BY <2>1
<1>4. ASSUME NEW c \in Conns,
             \/ InvalidJson(c) \/ Request(c) \/ HandleEnds(c) \/ HandlePanics(c)
             \/ Pong(c) \/ CloseEnds(c) \/ ReadEnds(c)
      PROVE  Opened' /\ Entry'
  <2>1. /\ main' = main /\ heart' = heart /\ id' = id /\ sock_map' = sock_map
        /\ \A d \in Conns :
             reader'[d] = reader[d] \/ (reader[d] # "off" /\ reader'[d] \in {"gone", "handle", "idle"})
    BY <1>4 DEF InvalidJson, Request, HandleEnds, HandlePanics, Pong, CloseEnds, ReadEnds, Message,
                Reply, Step, tasks, registry
  <2>2. \A d \in Conns : reader'[d] \in {"idle", "handle"} => reader[d] \in {"idle", "handle"}
    BY <1>4 DEF InvalidJson, Request, HandleEnds, HandlePanics, Pong, CloseEnds, ReadEnds, Message,
                Reply, Step, tasks
  <2> QED
    BY <2>1, <2>2
<1>5. ASSUME NEW c \in Conns, Beating(c)
      PROVE  Opened' /\ Entry'
  <2>1. /\ main' = main /\ reader' = reader /\ id' = id /\ sock_map' = sock_map
        /\ \A d \in Conns : heart[d] = "off" => heart'[d] = "off"
    BY <1>5 DEF Beating, Check, Awake, LockHeart, Ping, PingFails, HeartCloses, Cancel, HeartOff,
                Step, registry
  <2> QED
    BY <2>1
<1>6. ASSUME NEW h \in HttpConns, Http(h)
      PROVE  Opened' /\ Entry'
  BY <1>6 DEF Http, HttpAccepts, HttpEnds, HttpPanics, tasks, registry
<1>7. ASSUME Tick \/ UNCHANGED vars
      PROVE  Opened' /\ Entry'
  BY <1>7 DEF Tick, vars, tasks, registry
<1> QED
  BY <1>1, <1>2, <1>3, <1>4, <1>5, <1>6, <1>7, Zenon DEF Next, Opening, Reading

-----------------------------------------------------------------------------
(* The theorems. *)

(* The invariant holds in every behaviour. *)
THEOREM Invariance == Spec => []Inv
<1>1. Inv /\ [Next]_vars => Inv'
  <2> SUFFICES ASSUME Inv, [Next]_vars
               PROVE  Inv'
    OBVIOUS
  <2>1. Counted'
    BY CountedStep
  <2>2. Cardinality(Live') \in Nat /\ Cardinality(Unreturned') \in Nat
    BY <2>1, FS_CardinalityType DEF Counted
  <2>3. stream_count' \in Nat
    BY <2>1, <2>2 DEF Counted
  <2> QED
    BY <2>1, <2>3, TypeStep, LockedStep, RegisteredStep, Zenon DEF Inv
<1> QED
  BY <1>1, InitInv, PTL DEF Spec

(* Every variable keeps its type; the counter never becomes negative.      *)
THEOREM TypeCorrect == Spec => []TypeOK
<1>1. Inv => TypeOK
  BY DEF Inv
<1> QED
  BY <1>1, Invariance, PTL

(* The counter of both listeners is the number of tasks that have not      *)
(* ended and of HTTP tasks that panicked (ws.rs 139-171, http.rs 550-586). *)
THEOREM Counts == Spec => []CountsLive
<1>1. Inv => CountsLive
  BY DEF Inv, Counted, Unreturned, CountsLive
<1> QED
  BY <1>1, Invariance, PTL

(* The two tasks of a connection never write at once (ws.rs 321-361).      *)
THEOREM Exclusion == Spec => []OneWriter
<1>1. Inv => OneWriter
  BY DEF Inv, Locked, OneWriter
<1> QED
  BY <1>1, Invariance, PTL

(* A client that is read, received for and written to can be sent messages *)
(* through sock_map, as long as no other socket bears its id               *)
(* (ws.rs 34-75, 186-196, 230-238).                                        *)
THEOREM Registered == Spec => []RegisteredWhileOpen
<1>1. Inv => RegisteredWhileOpen
  BY DEF Inv, Entry, Served, RegisteredWhileOpen
<1> QED
  BY <1>1, Invariance, PTL

(* A quotient above I comes from more than I whole divisors. *)
LEMMA Quotient ==
  ASSUME NEW n \in Nat \ {0}, NEW a \in Nat, NEW i \in Nat, a \div n > i
  PROVE  a >= (i + 1) * n
<1>1. a = n * (a \div n) + (a % n) /\ a % n \in 0..(n - 1) /\ a \div n \in Nat
  OBVIOUS
<1> DEFINE q == a \div n
<1>2. \A p \in Nat : p > i => n * p >= n * (i + 1)
  OBVIOUS
<1>3. n * q >= n * (i + 1)
  BY <1>1, <1>2
<1> QED
  BY <1>1, <1>3

(* Cutting both instants to seconds never drops a client before an         *)
(* interval has passed since its last pong (ws.rs 312-318).                *)
THEOREM NotEarly == Spec => NotDroppedEarly
<1>1. ASSUME Inv, [Next]_vars, NEW c \in Conns, heart[c] = "sleep", heart'[c] = "drop"
      PROVE  silent[c] > Interval * Ticks
  <2> USE WsConnectionAssumption DEF Inv, TypeOK
  <2>1. ASSUME NEW d \in Conns, ~Check(d), Opening(d) \/ Reading(d) \/ Writing(d) \/ Beating(d)
        PROVE  FALSE
    <3>1. CASE Opening(d)
      BY <1>1, <3>1 DEF Opening, Accept, Handshake, HandshakeFails, Step, Opened
    <3>2. CASE Reading(d) \/ Writing(d)
      <4>1. heart' = heart
        BY <3>2 DEF Reading, InvalidJson, Request, HandleEnds, HandlePanics, Pong, CloseFrame,
           CloseEnds, ReadEnds, Writing, Receive, NoSenderLeft, Lock, Write, WriteFails, End, tasks
      <4> QED
        BY <1>1, <4>1
    <3>3. CASE Beating(d)
      BY <1>1, <2>1, <3>3 DEF Beating, LockHeart, Ping, PingFails, HeartCloses, Cancel, HeartOff,
                              Step
    <3> QED
      BY <2>1, <3>1, <3>2, <3>3
  <2>2. /\ ~Tick /\ ~UNCHANGED vars
        /\ \A h \in HttpConns : ~Http(h)
    BY <1>1 DEF Tick, tasks, vars, Http, HttpAccepts, HttpEnds, HttpPanics
  <2>3. PICK d \in Conns : Check(d)
    BY <1>1, <2>1, <2>2, Zenon DEF Next
  <2>4. Elapsed(c) > Interval
    BY <1>1, <2>3 DEF Check, Step
  <2>5. Cap \in Nat
    BY DEF Cap
  <2>6. silent[c] \in Nat /\ phase \in 0..(Ticks - 1)
    <3>1. silent \in [Conns -> 0..Cap] /\ phase \in 0..(Ticks - 1)
      BY <1>1
    <3>2. silent[c] \in 0..Cap
      BY <1>1, <3>1, Zenon
    <3> QED
      BY <2>5, <3>1, <3>2
  <2>7. silent[c] + Ticks - 1 - phase \in Nat
    BY <2>6
  <2>8. silent[c] + Ticks - 1 - phase >= (Interval + 1) * Ticks
    BY <2>4, <2>7, Quotient DEF Elapsed
  <2>9. (Interval + 1) * Ticks = Interval * Ticks + Ticks /\ Interval * Ticks \in Nat
    OBVIOUS
  <2> QED
    BY <2>6, <2>8, <2>9
<1>2. Inv /\ [Next]_vars => [\A c \in Conns : heart[c] = "sleep" /\ heart'[c] = "drop" =>
                               silent[c] > Interval * Ticks]_vars
  BY <1>1
<1> QED
  BY <1>2, Invariance, PTL DEF Spec, NotDroppedEarly
=============================================================================
