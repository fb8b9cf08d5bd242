------------------------- MODULE MonitorCacheProofs -------------------------
(* Proofs about MonitorCache, for every set of clients and routes, every   *)
(* lifespan, and every course of the clock and of upstream.                *)
EXTENDS MonitorCache, TLAPS

Typed == TypeOK /\ Ages

-----------------------------------------------------------------------------
(* Types and ages: neither depends on the order of the fetches. *)

LEMMA InitTyped == Init => Typed /\ AnswersYoung /\ \A r \in Routes : Ordered(r)
<1> SUFFICES ASSUME Init
             PROVE  Typed /\ AnswersYoung /\ \A r \in Routes : Ordered(r)
  OBVIOUS
<1>1. TypeOK
  BY MonitorCacheAssumption DEF Init, TypeOK, Times, Payloads, Empty, Real
<1>2. Ages
  BY MonitorCacheAssumption DEF Init, Ages, Empty, Real, Stamped
<1>3. AnswersYoung /\ \A r \in Routes : Ordered(r)
  BY DEF Init, AnswersYoung, Ordered, Empty, AtMost
<1> QED
  BY <1>1, <1>2, <1>3 DEF Typed

LEMMA TypingStep == Typed /\ [Next]_vars => TypeOK'
<1> SUFFICES ASSUME Typed, [Next]_vars
             PROVE  TypeOK'
  OBVIOUS
<1> USE MonitorCacheAssumption DEF Typed, TypeOK, Times, Payloads, Pages, Real
<1>1. ASSUME NEW c \in Clients, NEW r \in Routes, Ask(c, r)
      PROVE  TypeOK'
  BY <1>1 DEF Ask, Goto, clock
<1>2. ASSUME NEW c \in Clients, Look(c)
      PROVE  TypeOK'
  BY <1>2 DEF Look, Goto, clock, history, Ages
<1>3. ASSUME NEW c \in Clients, JudgeFresh(c) \/ JudgeCold(c)
      PROVE  TypeOK'
  BY <1>3 DEF JudgeFresh, JudgeCold, Goto, clock, history
<1>4. ASSUME NEW c \in Clients, JudgePanics(c) \/ FetchFails(c) \/ Refuse(c) \/ RelayFails(c)
      PROVE  TypeOK'
  <2>1. Done(c) /\ UNCHANGED <<cache, clock, upstream, seen, overtaken>>
    BY <1>4 DEF JudgePanics, FetchFails, Refuse, RelayFails
  <2> QED
    BY <2>1 DEF Done, Goto, clock, Empty
<1>5. ASSUME NEW c \in Clients, Fetch(c)
      PROVE  TypeOK'
  BY <1>5 DEF Fetch, Goto, clock, history, Ages
<1>6. ASSUME NEW c \in Clients, Store(c)
      PROVE  TypeOK'
  BY <1>6 DEF Store, Goto, clock, Payload, Ages, Overtakes
<1>7. ASSUME NEW c \in Clients, Reply(c)
      PROVE  TypeOK'
  BY <1>7 DEF Reply, Done, Goto, clock, Empty, Ages
<1>8. ASSUME Tick \/ SetBack
      PROVE  TypeOK'
  BY <1>8 DEF Tick, SetBack, tasks, history
<1>9. ASSUME NEW r \in Routes, Publish(r)
      PROVE  TypeOK'
  BY <1>9 DEF Publish, tasks, clock, history
<1>10. CASE UNCHANGED vars
  BY <1>10 DEF vars, clock, tasks, history
<1> QED
  BY <1>1, <1>2, <1>3, <1>4, <1>5, <1>6, <1>7, <1>8, <1>9, <1>10 DEF Next, Request
LEMMA AgesStep == Typed /\ [Next]_vars => Ages'
<1> SUFFICES ASSUME Typed, [Next]_vars
             PROVE  Ages'
  OBVIOUS
<1> USE MonitorCacheAssumption DEF Typed, TypeOK, Times, Payloads, Real, Ages, Stamped
<1>1. ASSUME NEW c \in Clients, NEW r \in Routes, Ask(c, r)
      PROVE  Ages'
  BY <1>1 DEF Ask, Goto, clock
<1>2. ASSUME NEW c \in Clients, Look(c)
      PROVE  Ages'
  BY <1>2 DEF Look, Goto, clock, history
<1>3. ASSUME NEW c \in Clients, JudgeFresh(c) \/ JudgeCold(c)
      PROVE  Ages'
  BY <1>3 DEF JudgeFresh, JudgeCold, Goto, clock, history
<1>4. ASSUME NEW c \in Clients, Done(c), UNCHANGED <<cache, clock>>
      PROVE  Ages'
  BY <1>4 DEF Done, Goto, clock, Empty
<1>5. ASSUME NEW c \in Clients, Fetch(c)
      PROVE  Ages'
  <2> PICK k \in Kinds :
        held' = [held EXCEPT ![c] =
                  [buffer |-> [version |-> upstream[route[c]], kind |-> k],
                   stamp |-> 0, set |-> 0]]
    BY <1>5 DEF Fetch
  <2>1. [version |-> upstream[route[c]], kind |-> k] \in Pages
    BY <1>5 DEF Fetch, Pages
  <2>2. held'[c].buffer # None
    BY <2>1
  <2> QED
    BY <1>5, <2>2 DEF Fetch, Goto, clock, history
<1>6. ASSUME NEW c \in Clients, Store(c)
      PROVE  Ages'
  <2>1. Stamped(Payload(held[c].buffer))'
    BY <1>6 DEF Store, clock, Payload
  <2>2. \A r \in Routes : Stamped(cache[r])'
    BY <1>6, <2>1 DEF Store, clock, Payload
  <2> QED
    BY <1>6, <2>1, <2>2 DEF Store, Goto, clock, Payload
<1>7. ASSUME Tick \/ SetBack
      PROVE  Ages'
  BY <1>7 DEF Tick, SetBack, tasks, history
<1>8. ASSUME NEW r \in Routes, Publish(r)
      PROVE  Ages'
  BY <1>8 DEF Publish, tasks, clock, history
<1>9. CASE UNCHANGED vars
  BY <1>9 DEF vars, clock, tasks, history
<1> QED
  BY <1>1, <1>2, <1>3, <1>4, <1>5, <1>6, <1>7, <1>8, <1>9
  DEF Next, Request, JudgePanics, FetchFails, Refuse, Reply, RelayFails

(* A payload is only handed out when it has just been judged or stored.    *)
LEMMA YoungStep == Typed /\ AnswersYoung /\ [Next]_vars => AnswersYoung'
<1> SUFFICES ASSUME Typed, AnswersYoung, [Next]_vars
             PROVE  AnswersYoung'
  OBVIOUS
<1> USE MonitorCacheAssumption DEF Typed, TypeOK, Times, Payloads, Real, Ages, Stamped, AnswersYoung
<1>1. ASSUME NEW c \in Clients, JudgeFresh(c)
      PROVE  AnswersYoung'
  <2>1. begun[c] - held[c].set <= Lifespan[route[c]] + slipped
    BY <1>1 DEF JudgeFresh, Expired
  <2> QED
    BY <1>1, <2>1 DEF JudgeFresh, Goto, clock, history
<1>2. ASSUME NEW c \in Clients, Store(c)
      PROVE  AnswersYoung'
  <2>1. held'[c].set = Real /\ begun[c] - Real <= Lifespan[route[c]] + slipped
    BY <1>2 DEF Store, Payload
  <2> QED
    BY <1>2, <2>1 DEF Store, Goto, clock
<1>3. ASSUME NEW c \in Clients, Done(c), UNCHANGED clock
      PROVE  AnswersYoung'
  BY <1>3 DEF Done, Goto, clock
<1>4. ASSUME NEW c \in Clients, JudgeCold(c) \/ Look(c) \/ Fetch(c)
      PROVE  AnswersYoung'
  BY <1>4 DEF JudgeCold, Look, Fetch, Goto, clock, history
<1>5. ASSUME NEW c \in Clients, NEW r \in Routes, Ask(c, r)
      PROVE  AnswersYoung'
  BY <1>5 DEF Ask, Goto, clock
<1>6. ASSUME Tick \/ SetBack \/ (\E r \in Routes : Publish(r)) \/ UNCHANGED vars
      PROVE  AnswersYoung'
  BY <1>6 DEF Tick, SetBack, Publish, vars, tasks, clock, history
<1> QED
  BY <1>1, <1>2, <1>3, <1>4, <1>5, <1>6
  DEF Next, Request, JudgePanics, FetchFails, Refuse, Reply, RelayFails

-----------------------------------------------------------------------------
(* The order of the pages of a route whose fetches never overtook. *)

LEMMA OrderStep ==
  ASSUME Typed, NEW r \in Routes, ~overtaken[r] => Ordered(r), [Next]_vars
  PROVE  (~overtaken[r] => Ordered(r))'
<1> USE MonitorCacheAssumption DEF Typed, TypeOK, Payloads, Pages, Ages, Ordered, AtMost
<1>1. ASSUME NEW c \in Clients, NEW q \in Routes, Ask(c, q)
      PROVE  (~overtaken[r] => Ordered(r))'
  BY <1>1 DEF Ask, Goto, clock
<1>2. ASSUME NEW c \in Clients, Look(c)
      PROVE  (~overtaken[r] => Ordered(r))'
  BY <1>2 DEF Look, Goto, clock, history
<1>3. ASSUME NEW c \in Clients, JudgeFresh(c) \/ JudgeCold(c)
      PROVE  (~overtaken[r] => Ordered(r))'
  BY <1>3 DEF JudgeFresh, JudgeCold, Goto, clock, history
<1>4. ASSUME NEW c \in Clients, Done(c), UNCHANGED <<cache, upstream, seen, overtaken>>
      PROVE  (~overtaken[r] => Ordered(r))'
  BY <1>4 DEF Done, Goto, Empty
<1>5. ASSUME NEW c \in Clients, Fetch(c)
      PROVE  (~overtaken[r] => Ordered(r))'
  BY <1>5 DEF Fetch, Goto, clock, history
<1>6. ASSUME NEW c \in Clients, Store(c)
      PROVE  (~overtaken[r] => Ordered(r))'
  <2>1. CASE route[c] # r
    BY <1>6, <2>1 DEF Store, Goto, clock
  <2>2. CASE route[c] = r
    <3> SUFFICES ASSUME ~overtaken'[r]
                 PROVE  Ordered(r)'
      OBVIOUS
    <3>1. /\ Ordered(r)
          /\ \A d \in Clients \ {c} : ~(pc[d] = "store" /\ route[d] = r)
      BY <1>6, <2>2 DEF Store, Overtakes
    <3>2. /\ cache'[r] = Payload(held[c].buffer)
          /\ held' = [held EXCEPT ![c] = Payload(held[c].buffer)]
          /\ pc' = [pc EXCEPT ![c] = "reply"]
          /\ UNCHANGED <<upstream, route, seen>>
      BY <1>6, <2>2 DEF Store, Goto
    <3>3. /\ held[c].buffer # None /\ Payload(held[c].buffer).buffer = held[c].buffer
          /\ held[c].buffer.version <= upstream[r]
          /\ AtMost(cache[r], held[c].buffer.version)
      BY <1>6, <2>2, <3>1 DEF Store, Payload
    <3>4. /\ held[c].buffer.version \in Nat
          /\ cache[r].buffer # None => cache[r].buffer.version \in Nat
          /\ upstream[r] \in Nat
          /\ \A d \in Clients : held[d].buffer # None => held[d].buffer.version \in Nat
          /\ \A d \in Clients : seen[d][r] # None => seen[d][r] \in Nat
      BY <3>3
    <3> QED
      BY <2>2, <3>1, <3>2, <3>3, <3>4
  <2> QED
    BY <2>1, <2>2
<1>7. ASSUME NEW c \in Clients, Reply(c)
      PROVE  (~overtaken[r] => Ordered(r))'
  BY <1>7 DEF Reply, Done, Goto, clock, Empty
<1>8. ASSUME Tick \/ SetBack \/ UNCHANGED vars
      PROVE  (~overtaken[r] => Ordered(r))'
  BY <1>8 DEF Tick, SetBack, vars, tasks, clock, history
<1>9. ASSUME NEW q \in Routes, Publish(q)
      PROVE  (~overtaken[r] => Ordered(r))'
  BY <1>9 DEF Publish, tasks, clock, history
<1> QED
  BY <1>1, <1>2, <1>3, <1>4, <1>5, <1>6, <1>7, <1>8, <1>9
  DEF Next, Request, JudgePanics, FetchFails, Refuse, RelayFails

-----------------------------------------------------------------------------
(* The caches are consistent in every reachable state: types, ages, and    *)
(* the order of the pages (proxy.rs 35-116).                               *)
THEOREM Invariance == Spec => []Inv
<1>1. Init => Inv
  BY InitTyped DEF Inv, Typed
<1>2. Inv /\ [Next]_vars => Inv'
  <2> SUFFICES ASSUME Inv, [Next]_vars
               PROVE  Inv'
    OBVIOUS
  <2>1. TypeOK' /\ Ages'
    BY TypingStep, AgesStep DEF Inv, Typed
  <2>2. AnswersYoung'
    BY YoungStep DEF Inv, Typed
  <2>3. \A r \in Routes : (~overtaken[r] => Ordered(r))'
    BY OrderStep DEF Inv, Typed
  <2> QED
    BY <2>1, <2>2, <2>3 DEF Inv
<1> QED
  BY <1>1, <1>2, PTL DEF Spec

(* Nobody is answered a page older than its lifespan when the request      *)
(* came, but for what the clock was set back (proxy.rs 35-47).             *)
THEOREM Young == Spec => []AnswersYoung
<1>1. Inv => AnswersYoung
  BY DEF Inv
<1> QED
  BY <1>1, Invariance, PTL

(* Without overtaking fetches, a client's pages never go back              *)
(* (proxy.rs 100-105).                                                     *)
THEOREM Monotone == Spec => ClientsMonotone
<1>1. Inv /\ [Next]_vars =>
        [\A c \in Clients, r \in Routes :
           seen[c][r] # None /\ seen'[c][r] # seen[c][r]
             => seen'[c][r] > seen[c][r] \/ overtaken[r]]_vars
  <2> SUFFICES ASSUME Inv, Next, NEW c \in Clients, NEW r \in Routes,
                      seen[c][r] # None, seen'[c][r] # seen[c][r], ~overtaken[r]
               PROVE  seen'[c][r] > seen[c][r]
    OBVIOUS
  <2> USE MonitorCacheAssumption DEF Inv, TypeOK, Payloads, Pages, Ages
  <2>1. PICK d \in Clients : Reply(d)
    BY DEF Next, Request, Ask, Look, JudgeFresh, JudgeCold, JudgePanics, FetchFails, Fetch,
           Refuse, Store, RelayFails, Tick, SetBack, Publish, tasks, clock, history
  <2>2. d = c /\ route[c] = r /\ seen'[c][r] = held[c].buffer.version
    BY <2>1 DEF Reply
  <2>3. seen[c][r] <= held[c].buffer.version
    BY <2>1, <2>2 DEF Reply, Ordered
  <2>4. seen[c][r] \in Nat /\ held[c].buffer.version \in Nat
    <3>1. pc[c] = "reply"
      BY <2>1, <2>2 DEF Reply
    <3>2. held[c].buffer \in Pages
      BY <3>1
    <3> QED
      BY <3>2
  <2> QED
    <3> DEFINE old == seen[c][r]
               new == seen'[c][r]
    <3>1. old \in Nat /\ new \in Nat /\ old <= new /\ new # old
      BY <2>2, <2>3, <2>4
    <3> HIDE DEF old, new
    <3>2. new > old
      BY <3>1
    <3> QED
      BY <3>2 DEF old, new
<1> QED
  BY <1>1, Invariance, PTL DEF Spec, ClientsMonotone

(* A task that finds its copy expired while the cache is fresh had asked   *)
(* before the fresh page was stored (proxy.rs 35-50).                      *)
THEOREM SparesUpstream == Spec => FreshSparesUpstream
<1>1. Inv /\ [Next]_vars =>
        [\A c \in Clients : pc[c] = "judge" /\ pc'[c] = "fetch" =>
           LET kept == cache[route[c]] IN
           \/ kept.buffer = None
           \/ now < kept.stamp \/ now - kept.stamp > Lifespan[route[c]]
           \/ begun[c] <= kept.set]_vars
  <2> SUFFICES ASSUME Inv, Next, NEW c \in Clients, pc[c] = "judge", pc'[c] = "fetch",
                      ~(begun[c] <= cache[route[c]].set)
               PROVE  \/ cache[route[c]].buffer = None
                      \/ now < cache[route[c]].stamp
                      \/ now - cache[route[c]].stamp > Lifespan[route[c]]
    OBVIOUS
  <2> USE DEF Inv, TypeOK, Ages
  <2>1. JudgeCold(c)
    BY DEF Next, Request, Ask, Look, JudgeFresh, JudgeCold, JudgePanics, FetchFails, Fetch,
           Refuse, Store, Reply, RelayFails, Done, Goto, Tick, SetBack, Publish, tasks, clock, history
  <2>2. held[c] = cache[route[c]]
    OBVIOUS
  <2> QED
    BY <2>1, <2>2 DEF JudgeCold, Expired
<1> QED
  BY <1>1, Invariance, PTL DEF Spec, FreshSparesUpstream
=============================================================================
