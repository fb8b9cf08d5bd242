---------------------------- MODULE MonitorCache ----------------------------
(***************************************************************************)
(* The monitor proxy of src/src/shardus_monitor/proxy.rs: pages of an      *)
(* upstream server kept for a lifespan per route.  Every connection is a   *)
(* task; each cache lies under a lock that is held for the copy out and    *)
(* for the copy in, not over the fetch between them, so that any number of *)
(* tasks may fetch one page at the same time.                              *)
(***************************************************************************)
EXTENDS Integers

CONSTANTS
  Clients,      \* tasks that run handle_request, one request at a time
  Routes,       \* the routes of is_monitor_route
  Report,       \* "/api/report", the only one whose body is parsed
  Lifespan,     \* of each route, in ticks
  MaxTime,      \* bound: real time runs from 0 to MaxTime
  MaxSlip,      \* bound: how far the system clock is set back in all
  MaxVersion,   \* bound: the versions upstream publishes of a route
  None          \* "no buffer", "no answer seen"

(* The pages that upstream sends: whole, a body that is no report, nothing. *)
Kinds == {"whole", "broken", "empty"}
Pages == [version : 0..MaxVersion, kind : Kinds]

ASSUME MonitorCacheAssumption ==
  /\ Lifespan \in [Routes -> Nat]
  /\ MaxTime \in Nat /\ MaxSlip \in Nat /\ MaxVersion \in Nat
  /\ None \notin Nat \cup Pages \cup Routes

VARIABLES
  cache,        \* CACHE_MAP: per route a PayloadCache
  now,          \* the system clock
  slipped,      \* history: how far the clock was set back so far
  upstream,     \* the version of each route that upstream serves
  pc,           \* where each client's task stands
  route,        \* the route of its request
  held,         \* the payload it holds: a copy of the cache or what it fetched
  begun,        \* history: the real time at which the request came
  seen,         \* history: the newest version of a route a client was answered
  overtaken     \* history: a fetch was stored while an older one was under way

tasks == <<pc, route, held>>
clock == <<now, slipped>>
history == <<begun, seen, overtaken>>
vars == <<cache, clock, upstream, tasks, history>>

Real == now + slipped

(* What a PayloadCache holds: `stamp` by the system clock, and for the     *)
(* properties the real time at which it was set.                           *)
Empty == [buffer |-> None, stamp |-> 0, set |-> 0]
Payload(page) == [buffer |-> page, stamp |-> now, set |-> Real]

Goto(c, label) == pc' = [pc EXCEPT ![c] = label]

(* The request is answered or given up, and its locals are gone.           *)
Done(c) ==
  /\ Goto(c, "idle")
  /\ route' = [route EXCEPT ![c] = None]
  /\ held' = [held EXCEPT ![c] = Empty]
  /\ begun' = [begun EXCEPT ![c] = 0]

-----------------------------------------------------------------------------
Ask(c, r) ==
  /\ pc[c] = "idle"
  /\ route' = [route EXCEPT ![c] = r]
  /\ begun' = [begun EXCEPT ![c] = Real]
  /\ Goto(c, "look")
  /\ UNCHANGED <<cache, clock, upstream, held, seen, overtaken>>

(* The cache is copied under its read lock ... *)
Look(c) ==
  /\ pc[c] = "look"
  /\ held' = [held EXCEPT ![c] = cache[route[c]]]
  /\ Goto(c, "judge")
  /\ UNCHANGED <<cache, clock, upstream, route, history>>

(* A seeded bug, as every definition with an underscore suffix: a payload  *)
(* is kept one tick too long.                                              *)
Expired_OffByOne(c) == now - held[c].stamp > Lifespan[route[c]] + 1

Expired(c) == now - held[c].stamp > Lifespan[route[c]]

(* ... and judged afterwards, by the clock of that moment.                 *)
JudgeFresh(c) ==
  /\ pc[c] = "judge"
  /\ held[c].buffer # None /\ now >= held[c].stamp /\ ~Expired(c)
  /\ Goto(c, "reply")
  /\ UNCHANGED <<cache, clock, upstream, route, held, history>>

(* At the end of its lifespan already. *)
JudgeCold_AtLifespan(c) ==
  /\ pc[c] = "judge"
  /\ held[c].buffer = None \/ now - held[c].stamp >= Lifespan[route[c]]
  /\ Goto(c, "fetch")
  /\ UNCHANGED <<cache, clock, upstream, route, held, history>>

(* A clock behind the time stamp: date_now - timestamp is unsigned, wraps  *)
(* to more than any lifespan in a release build ...                        *)
JudgeCold(c) ==
  /\ pc[c] = "judge"
  /\ held[c].buffer = None \/ now < held[c].stamp \/ Expired(c)
  /\ Goto(c, "fetch")
  /\ UNCHANGED <<cache, clock, upstream, route, held, history>>

(* ... and panics in a debug build, which ends the connection.             *)
JudgePanics(c) ==
  /\ pc[c] = "judge"
  /\ held[c].buffer # None /\ now < held[c].stamp
  /\ Done(c)
  /\ UNCHANGED <<cache, clock, upstream, seen, overtaken>>

(* cold_fetch: no connection, no write or no read, answered with an error. *)
FetchFails(c) ==
  /\ pc[c] = "fetch"
  /\ Done(c)
  /\ UNCHANGED <<cache, clock, upstream, seen, overtaken>>

(* Upstream answers with what it serves at this moment, or the answer is   *)
(* cut short or empty, which collect_http reports as success.              *)
Fetch(c) ==
  /\ pc[c] = "fetch"
  /\ \E k \in Kinds :
       held' = [held EXCEPT ![c] =
                  [buffer |-> [version |-> upstream[route[c]], kind |-> k],
                   stamp |-> 0, set |-> 0]]
  /\ Goto(c, "store")
  /\ UNCHANGED <<cache, clock, upstream, route, history>>

(* Another answer of the route is in hand: this one is stored before it.   *)
Overtakes(c) == \E d \in Clients \ {c} : pc[d] = "store" /\ route[d] = route[c]

(* A report that does not parse is answered with an error and not kept.    *)
Refuse(c) ==
  /\ pc[c] = "store" /\ route[c] = Report /\ held[c].buffer.kind # "whole"
  /\ Done(c)
  /\ UNCHANGED <<cache, clock, upstream, seen, overtaken>>

(* The time stamp is renewed, the buffer only filled when it is empty.     *)
Store_KeepsBuffer(c) ==
  /\ pc[c] = "store"
  /\ route[c] = Report => held[c].buffer.kind = "whole"
  /\ cache' = [cache EXCEPT ![route[c]] =
       IF @.buffer = None THEN Payload(held[c].buffer) ELSE Payload(@.buffer)]
  /\ held' = [held EXCEPT ![c] = Payload(@.buffer)]
  /\ overtaken' = [overtaken EXCEPT ![route[c]] = @ \/ Overtakes(c)]
  /\ Goto(c, "reply")
  /\ UNCHANGED <<clock, upstream, route, begun, seen>>

(* What was fetched is kept, whatever it is, and whatever was kept since.  *)
Store(c) ==
  /\ pc[c] = "store"
  /\ route[c] = Report => held[c].buffer.kind = "whole"
  /\ cache' = [cache EXCEPT ![route[c]] = Payload(held[c].buffer)]
  /\ held' = [held EXCEPT ![c] = Payload(@.buffer)]
  /\ overtaken' = [overtaken EXCEPT ![route[c]] = @ \/ Overtakes(c)]
  /\ Goto(c, "reply")
  /\ UNCHANGED <<clock, upstream, route, begun, seen>>

(* An empty answer, cached or fetched, becomes an error of the proxy.      *)
Reply(c) ==
  /\ pc[c] = "reply"
  /\ seen' = [seen EXCEPT ![c][route[c]] =
       IF held[c].buffer.kind = "empty" THEN @ ELSE held[c].buffer.version]
  /\ Done(c)
  /\ UNCHANGED <<cache, clock, upstream, overtaken>>

(* The client is gone before the answer is written. *)
RelayFails(c) ==
  /\ pc[c] = "reply"
  /\ Done(c)
  /\ UNCHANGED <<cache, clock, upstream, seen, overtaken>>

-----------------------------------------------------------------------------
(* The world. *)

Tick ==
  /\ Real < MaxTime
  /\ now' = now + 1
  /\ UNCHANGED <<cache, slipped, upstream, tasks, history>>

SetBack ==
  /\ now > 0 /\ slipped < MaxSlip
  /\ now' = now - 1 /\ slipped' = slipped + 1
  /\ UNCHANGED <<cache, upstream, tasks, history>>

Publish(r) ==
  /\ upstream[r] < MaxVersion
  /\ upstream' = [upstream EXCEPT ![r] = @ + 1]
  /\ UNCHANGED <<cache, clock, tasks, history>>

Init ==
  /\ cache = [r \in Routes |-> Empty]
  /\ now = 0 /\ slipped = 0
  /\ upstream = [r \in Routes |-> 0]
  /\ pc = [c \in Clients |-> "idle"]
  /\ route = [c \in Clients |-> None]
  /\ held = [c \in Clients |-> Empty]
  /\ begun = [c \in Clients |-> 0]
  /\ seen = [c \in Clients |-> [r \in Routes |-> None]]
  /\ overtaken = [r \in Routes |-> FALSE]

Request(c) ==
  \/ \E r \in Routes : Ask(c, r)
  \/ Look(c) \/ JudgeFresh(c) \/ JudgeCold(c) \/ JudgePanics(c)
  \/ FetchFails(c) \/ Fetch(c) \/ Refuse(c) \/ Store(c)
  \/ Reply(c) \/ RelayFails(c)

Next ==
  \/ \E c \in Clients : Request(c)
  \/ Tick \/ SetBack
  \/ \E r \in Routes : Publish(r)

Spec == Init /\ [][Next]_vars

-----------------------------------------------------------------------------
(* Properties *)

Times == 0..MaxTime

Payloads == [buffer : Pages \cup {None}, stamp : Times, set : Times]

TypeOK ==
  /\ cache \in [Routes -> Payloads]
  /\ now \in Nat /\ slipped \in 0..MaxSlip /\ Real \in Times
  /\ upstream \in [Routes -> 0..MaxVersion]
  /\ pc \in [Clients -> {"idle", "look", "judge", "fetch", "store", "reply"}]
  /\ route \in [Clients -> Routes \cup {None}]
  /\ held \in [Clients -> Payloads]
  /\ begun \in [Clients -> Times]
  /\ seen \in [Clients -> [Routes -> 0..MaxVersion \cup {None}]]
  /\ overtaken \in [Routes -> BOOLEAN]

(* What a client is about to be answered was stored at most a lifespan     *)
(* before its request came, however long the task was suspended between    *)
(* copying the cache, judging the copy and replying (proxy.rs 35-47); a    *)
(* clock that was set back adds no more than what it was set back.         *)
AnswersYoung ==
  \A c \in Clients : pc[c] = "reply" =>
    begun[c] - held[c].set <= Lifespan[route[c]] + slipped

(* A client never gets an older page than it has seen, unless somebody     *)
(* stored an answer while another task had an answer of the route in hand: *)
(* the fetches are not ordered (proxy.rs 100-105).                         *)
ClientsMonotone ==
  [][\A c \in Clients, r \in Routes :
       seen[c][r] # None /\ seen'[c][r] # seen[c][r]
         => seen'[c][r] > seen[c][r] \/ overtaken[r]]_vars

(* A page that is fresh spares upstream the requests that come after it    *)
(* was stored: only a task that looked before then fetches beside it.      *)
FreshSparesUpstream ==
  [][\A c \in Clients : pc[c] = "judge" /\ pc'[c] = "fetch" =>
       LET kept == cache[route[c]] IN
       \/ kept.buffer = None
       \/ now < kept.stamp \/ now - kept.stamp > Lifespan[route[c]]
       \/ begun[c] <= kept.set]_vars

(* Why these hold: the parts of the inductive invariant.                   *)

(* A stamp is behind the real time at which it was taken by what the clock *)
(* had been set back by then.                                              *)
Stamped(p) == p.set <= Real /\ p.stamp <= p.set /\ p.set - p.stamp <= slipped

Ages ==
  /\ \A r \in Routes : Stamped(cache[r])
  /\ \A c \in Clients :
       /\ pc[c] # "idle" => route[c] \in Routes
       /\ begun[c] <= Real
       /\ pc[c] \in {"judge", "reply"} => Stamped(held[c])
       /\ pc[c] = "judge" => held[c] = cache[route[c]] \/ begun[c] <= cache[route[c]].set
       /\ pc[c] \in {"store", "reply"} => held[c].buffer # None

AtMost(p, v) == p.buffer # None => p.buffer.version <= v

(* Of a route whose fetches never overtook each other: the cache is as new *)
(* as everything answered or copied, and as old as everything in hand.     *)
Ordered(r) ==
  /\ AtMost(cache[r], upstream[r])
  /\ \A c \in Clients :
       /\ seen[c][r] # None =>
            cache[r].buffer # None /\ seen[c][r] <= cache[r].buffer.version
       /\ route[c] = r /\ pc[c] = "store" =>
            held[c].buffer.version <= upstream[r] /\ AtMost(cache[r], held[c].buffer.version)
       /\ route[c] = r /\ pc[c] \in {"judge", "reply"} /\ held[c].buffer # None =>
            /\ cache[r].buffer # None
            /\ held[c].buffer.version <= cache[r].buffer.version
            /\ seen[c][r] # None => seen[c][r] <= held[c].buffer.version

Inv ==
  /\ TypeOK /\ Ages /\ AnswersYoung
  /\ \A r \in Routes : ~overtaken[r] => Ordered(r)
=============================================================================
