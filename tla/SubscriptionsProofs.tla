------------------------ MODULE SubscriptionsProofs ------------------------
(***************************************************************************)
(* Theorems about Subscriptions, for any sockets, accounts and callbacks:  *)
(* the maps agree, a closed socket is forgotten, nobody is notified twice, *)
(* and the manager implements SubscriptionRegistry.                        *)
(***************************************************************************)
EXTENDS Subscriptions, TLAPS

-----------------------------------------------------------------------------
(* Hash maps *)

(* Discard takes one element from the set of one key.                      *)
LEMMA DiscardAt ==
  ASSUME NEW m, NEW k, NEW e
  PROVE  /\ SetAt(Discard(m, k, e), k) = SetAt(m, k) \ {e}
         /\ \A x : x # k => SetAt(Discard(m, k, e), x) = SetAt(m, x)
<1>1. CASE k \notin DOMAIN m
  BY <1>1 DEF Discard, SetAt
<1>2. CASE k \in DOMAIN m /\ m[k] \ {e} = {}
  BY <1>2 DEF Discard, Drop, SetAt
<1>3. CASE k \in DOMAIN m /\ m[k] \ {e} # {}
  BY <1>3 DEF Discard, Put, SetAt
<1> QED BY <1>1, <1>2, <1>3

(* ... and leaves a map, without an empty set if there was none.           *)
LEMMA DiscardMap ==
  ASSUME NEW K, NEW E, NEW m, IsMap(m, K, SUBSET E), NEW k, NEW e
  PROVE  /\ IsMap(Discard(m, k, e), K, SUBSET E)
         /\ DOMAIN Discard(m, k, e) \subseteq DOMAIN m
         /\ (\A x \in DOMAIN m : m[x] # {}) =>
              \A x \in DOMAIN Discard(m, k, e) : Discard(m, k, e)[x] # {}
<1>1. CASE k \notin DOMAIN m
  BY <1>1 DEF Discard
<1>2. CASE k \in DOMAIN m /\ m[k] \ {e} = {}
  BY <1>2 DEF Discard, Drop, IsMap
<1>3. CASE k \in DOMAIN m /\ m[k] \ {e} # {}
  BY <1>3 DEF Discard, Put, IsMap
<1> QED BY <1>1, <1>2, <1>3

-----------------------------------------------------------------------------
(* Tasks *)

(* The tasks of the three kinds are different, and each knows its own. *)
LEMMA TaskNames ==
  /\ \A s \in Sockets : Reader(s) \in Tasks /\ Heart(s) \in Tasks
  /\ \A u \in Callbacks : Callback(u) \in Tasks
  /\ \A s, r : Reader(s) # Heart(r) /\ Reader(s) # Callback(r) /\ Heart(s) # Callback(r)
  /\ \A s, r : Reader(s) = Reader(r) => s = r
  /\ \A s, r : Heart(s) = Heart(r) => s = r
  /\ \A s, r : Callback(s) = Callback(r) => s = r
  /\ \A t \in Tasks : \/ \E s \in Sockets : t = Reader(s) \/ t = Heart(s)
                      \/ \E u \in Callbacks : t = Callback(u)
BY DEF Tasks, Reader, Heart, Callback

(* Where Return sends a task. *)
LEMMA Returns ==
  ASSUME NEW t \in Tasks, Return(t)
  PROVE  \E l \in {"closing", "dropped", "idle", "send"} :
           /\ pc' = [pc EXCEPT ![t] = l]
           /\ \A s \in Sockets : t = Reader(s) => l = "closing"
           /\ \A s \in Sockets : t = Heart(s) => l = "dropped"
           /\ \A u \in Callbacks : t = Callback(u) => l \in {"idle", "send"}
BY TaskNames DEF Return, Goto

(* What remove_states does to maps that agree.                             *)
LEMMA Removal ==
  ASSUME TypeOK, MapsAgree, NEW a, NEW s, remove_states(a, s)
  PROVE  /\ IsMap(accounts_by_sock', Sockets, SUBSET Accounts)
         /\ IsMap(socks_by_account', Accounts, SUBSET Sockets)
         /\ IsMap(last_received', Accounts, Times)
         /\ SetAt(accounts_by_sock', s) = SetAt(accounts_by_sock, s) \ {a}
         /\ \A x : x # s => SetAt(accounts_by_sock', x) = SetAt(accounts_by_sock, x)
         /\ SetAt(socks_by_account', a) = SetAt(socks_by_account, a) \ {s}
         /\ \A x : x # a => SetAt(socks_by_account', x) = SetAt(socks_by_account, x)
         /\ DOMAIN last_received' \subseteq DOMAIN last_received
         /\ \A b \in DOMAIN last_received' : last_received'[b] = last_received[b]
         /\ \A b \in DOMAIN last_received : b # a => b \in DOMAIN last_received'
         /\ MapsAgree'
<1>1. /\ IsMap(accounts_by_sock, Sockets, SUBSET Accounts)
      /\ IsMap(socks_by_account, Accounts, SUBSET Sockets)
      /\ IsMap(last_received, Accounts, Times)
  BY DEF TypeOK
<1>2. /\ IsMap(accounts_by_sock', Sockets, SUBSET Accounts)
      /\ DOMAIN accounts_by_sock' \subseteq DOMAIN accounts_by_sock
      /\ SetAt(accounts_by_sock', s) = SetAt(accounts_by_sock, s) \ {a}
      /\ \A x : x # s => SetAt(accounts_by_sock', x) = SetAt(accounts_by_sock, x)
      /\ \A x \in DOMAIN accounts_by_sock' : accounts_by_sock'[x] # {}
  <2>1. accounts_by_sock' = Discard(accounts_by_sock, s, a)
    BY DEF remove_states
  <2>2. \A x \in DOMAIN accounts_by_sock : accounts_by_sock[x] # {}
    BY DEF MapsAgree
  <2> DEFINE left == Discard(accounts_by_sock, s, a)
  <2>3. IsMap(left, Sockets, SUBSET Accounts) /\ DOMAIN left \subseteq DOMAIN accounts_by_sock
    BY <1>1, DiscardMap
  <2>4. /\ SetAt(left, s) = SetAt(accounts_by_sock, s) \ {a}
        /\ \A x : x # s => SetAt(left, x) = SetAt(accounts_by_sock, x)
    BY DiscardAt
  <2>5. \A x \in DOMAIN left : left[x] # {}
    BY <1>1, <2>2, DiscardMap
  <2> QED BY <2>1, <2>3, <2>4, <2>5
<1>3. /\ IsMap(socks_by_account', Accounts, SUBSET Sockets)
      /\ DOMAIN socks_by_account' \subseteq DOMAIN socks_by_account
      /\ SetAt(socks_by_account', a) = SetAt(socks_by_account, a) \ {s}
      /\ \A x : x # a => SetAt(socks_by_account', x) = SetAt(socks_by_account, x)
      /\ \A x \in DOMAIN socks_by_account' : socks_by_account'[x] # {}
  <2>1. socks_by_account' = Discard(socks_by_account, a, s)
    BY DEF remove_states
  <2>2. \A x \in DOMAIN socks_by_account : socks_by_account[x] # {}
    BY DEF MapsAgree
  <2> DEFINE left == Discard(socks_by_account, a, s)
  <2>3. IsMap(left, Accounts, SUBSET Sockets) /\ DOMAIN left \subseteq DOMAIN socks_by_account
    BY <1>1, DiscardMap
  <2>4. /\ SetAt(left, a) = SetAt(socks_by_account, a) \ {s}
        /\ \A x : x # a => SetAt(left, x) = SetAt(socks_by_account, x)
    BY DiscardAt
  <2>5. \A x \in DOMAIN left : left[x] # {}
    BY <1>1, <2>2, DiscardMap
  <2> QED BY <2>1, <2>3, <2>4, <2>5
<1>4. \A x \in DOMAIN socks_by_account : x # a => x \in DOMAIN socks_by_account'
  BY <1>3 DEF MapsAgree, SetAt
<1>5. /\ IsMap(last_received', Accounts, Times)
      /\ DOMAIN last_received' = DOMAIN socks_by_account'
      /\ \A b \in DOMAIN last_received' : last_received'[b] = last_received[b]
  <2>1. CASE a \in DOMAIN socks_by_account /\ a \notin DOMAIN socks_by_account'
    <3>1. last_received' = Drop(last_received, a)
      BY <2>1 DEF remove_states
    <3> QED BY <1>1, <1>3, <1>4, <2>1, <3>1 DEF Drop, IsMap, MapsAgree
  <2>2. CASE ~(a \in DOMAIN socks_by_account /\ a \notin DOMAIN socks_by_account')
    <3>1. last_received' = last_received
      BY <2>2 DEF remove_states
    <3> QED BY <1>1, <1>3, <1>4, <2>2, <3>1 DEF MapsAgree
  <2> QED BY <2>1, <2>2
<1>6. MapsAgree'
  BY <1>2, <1>3, <1>5 DEF MapsAgree
<1> QED BY <1>2, <1>3, <1>4, <1>5, <1>6 DEF MapsAgree

-----------------------------------------------------------------------------
(* Types, agreement and task data *)

Base == TypeOK /\ MapsAgree /\ TaskData

(* A reader or a heartbeat that goes on to no request leaves the data be. *)
LEMMA MoveData ==
  ASSUME Base, UNCHANGED <<maps, sock, asked, update>>,
         NEW t \in Tasks, NEW l \in Labels \ {"set", "remove"},
         pc' = [pc EXCEPT ![t] = l], \A u \in Callbacks : t # Callback(u)
  PROVE  pc' \in [Tasks -> Labels] /\ MapsAgree' /\ TaskData'
<1>0. TypeOK /\ MapsAgree /\ TaskData
  BY DEF Base
<1>1. pc' \in [Tasks -> Labels]
  BY <1>0 DEF TypeOK
<1>2. MapsAgree'
  BY <1>0 DEF MapsAgree, maps
<1>3. /\ \A x \in Tasks : x # t => pc'[x] = pc[x]
      /\ pc'[t] = l
  BY <1>0 DEF TypeOK
<1>4. TaskData'
  BY <1>0, <1>3, TaskNames DEF TaskData
<1> QED BY <1>1, <1>2, <1>4

LEMMA ReaderBase ==
  ASSUME Base, NEW s \in Sockets, ReaderStep(s)
  PROVE  Base'
<1> USE DEF Goto
<1>0. TypeOK /\ MapsAgree /\ TaskData
  BY DEF Base
<1>1. ASSUME NEW a \in Accounts, Subscribe(s, a) \/ Unsubscribe(s, a)
      PROVE  Base'
  <2>1. /\ asked' = [asked EXCEPT ![s] = a]
        /\ \E l \in {"set", "remove"} : pc' = [pc EXCEPT ![Reader(s)] = l]
        /\ UNCHANGED <<maps, sockets, sock, rest, update, targets, updates, history>>
    BY <1>1 DEF Subscribe, Unsubscribe
  <2>2. TypeOK' /\ MapsAgree'
    BY <1>0, <2>1, TaskNames DEF TypeOK, MapsAgree, maps, sockets, history, Labels
  <2>3. TaskData'
    BY <1>0, <2>1, TaskNames DEF TypeOK, TaskData
  <2> QED BY <2>2, <2>3 DEF Base
<1>2. CASE Close(s) \/ CloseEnds(s)
  <2>1. \E l \in {"all", "closed"} : pc' = [pc EXCEPT ![Reader(s)] = l]
    BY <1>2 DEF Close, CloseEnds
  <2>2. UNCHANGED <<maps, receiving, sock, rest, asked, update, targets, updates, history>>
    BY <1>2 DEF Close, CloseEnds
  <2>3. socket_map' \subseteq socket_map /\ map_writer' \in {map_writer, s, None}
    BY <1>2 DEF Close, CloseEnds
  <2>4. pc' \in [Tasks -> Labels] /\ MapsAgree' /\ TaskData'
    <3>1. PICK l \in {"all", "closed"} : pc' = [pc EXCEPT ![Reader(s)] = l]
      BY <2>1
    <3>2. Reader(s) \in Tasks /\ l \in Labels \ {"set", "remove"}
      BY TaskNames DEF Labels
    <3>3. \A u \in Callbacks : Reader(s) # Callback(u)
      BY TaskNames
    <3>4. UNCHANGED <<maps, sock, asked, update>>
      BY <2>2
    <3> QED BY <3>1, <3>2, <3>3, <3>4, MoveData
  <2> QED BY <1>0, <2>2, <2>3, <2>4 DEF Base, TypeOK, maps, history
<1>6. CASE Break(s)
  <2>1. /\ asked' = [asked EXCEPT ![s] = None]
        /\ pc' = [pc EXCEPT ![Reader(s)] = "gone"]
        /\ UNCHANGED <<maps, sockets, sock, rest, update, targets, updates, history>>
    BY <1>6 DEF Break
  <2>2. TypeOK' /\ MapsAgree'
    BY <1>0, <2>1, TaskNames DEF TypeOK, MapsAgree, maps, sockets, history, Labels
  <2>3. TaskData'
    BY <1>0, <2>1, TaskNames DEF TypeOK, TaskData
  <2> QED BY <2>2, <2>3 DEF Base
<1>5. CASE Connect(s)
  <2>1. pc' = [pc EXCEPT ![Reader(s)] = "idle", ![Heart(s)] = "idle"]
    BY <1>5 DEF Connect
  <2>2. TypeOK' /\ MapsAgree'
    BY <1>0, <1>5, TaskNames DEF TypeOK, MapsAgree, Connect, maps, history, Labels
  <2>3. /\ \A x \in Tasks : pc'[x] \in {pc[x], "idle"}
        /\ UNCHANGED <<sock, asked, update>>
    BY <1>0, <1>5, <2>1 DEF TypeOK, Connect
  <2>4. TaskData'
    BY <1>0, <2>3, TaskNames DEF TaskData
  <2> QED BY <2>2, <2>4 DEF Base
<1>3. CASE SetStates(s)
  <2> DEFINE a == asked[s]
  <2>1. a \in Accounts
    BY <1>0, <1>3 DEF SetStates, TaskData
  <2>2. /\ IsMap(accounts_by_sock', Sockets, SUBSET Accounts)
        /\ IsMap(socks_by_account', Accounts, SUBSET Sockets)
    BY <1>0, <1>3, <2>1 DEF SetStates, TypeOK, Put, SetAt, IsMap
  <2>3. IsMap(last_received', Accounts, Times)
    BY <1>0, <1>3, <2>1 DEF SetStates, TypeOK, Put, IsMap
  <2>4. MapsAgree'
    <3>1. /\ SetAt(accounts_by_sock', s) = SetAt(accounts_by_sock, s) \cup {a}
          /\ \A r : r # s => SetAt(accounts_by_sock', r) = SetAt(accounts_by_sock, r)
          /\ SetAt(socks_by_account', a) = SetAt(socks_by_account, a) \cup {s}
          /\ \A b : b # a => SetAt(socks_by_account', b) = SetAt(socks_by_account, b)
      BY <1>3 DEF SetStates, Put, SetAt
    <3>2. /\ \A r \in DOMAIN accounts_by_sock' : accounts_by_sock'[r] # {}
          /\ \A b \in DOMAIN socks_by_account' : socks_by_account'[b] # {}
      BY <1>0, <1>3 DEF SetStates, Put, MapsAgree
    <3>3. DOMAIN last_received' = DOMAIN socks_by_account'
      BY <1>0, <1>3 DEF SetStates, Put, MapsAgree
    <3> QED BY <1>0, <3>1, <3>2, <3>3 DEF MapsAgree
  <2> QED BY <1>0, <1>3, <2>2, <2>3, <2>4, TaskNames
          DEF Base, SetStates, TypeOK, TaskData, sockets, history, Labels
<1>4. CASE Remove(s)
  <2>1. TypeOK /\ MapsAgree /\ remove_states(asked[s], s)
    BY <1>0, <1>4 DEF Remove
  <2>2. /\ IsMap(accounts_by_sock', Sockets, SUBSET Accounts)
        /\ IsMap(socks_by_account', Accounts, SUBSET Sockets)
        /\ IsMap(last_received', Accounts, Times)
        /\ MapsAgree'
    BY <2>1, Removal
  <2>3. /\ adrift' \in [Callbacks -> BOOLEAN]
        /\ notified' \subseteq notified
    BY <2>1 DEF remove_states, Forget, history, TypeOK
  <2> QED BY <1>0, <1>4, <2>2, <2>3, TaskNames
          DEF Base, Remove, TypeOK, TaskData, sockets, Labels
<1> QED BY <1>1, <1>2, <1>3, <1>4, <1>5, <1>6 DEF ReaderStep

LEMMA HeartBase ==
  ASSUME Base, NEW s \in Sockets, HeartStep(s)
  PROVE  Base'
<1> USE DEF Goto
<1>0. TypeOK /\ MapsAgree /\ TaskData
  BY DEF Base
<1>1. \E l \in {"all", "stopped", "dropped"} : pc' = [pc EXCEPT ![Heart(s)] = l]
  BY DEF HeartStep, Timeout, PingFails, HandleStreamEnds
<1>2. /\ UNCHANGED <<maps, socket_map, map_writer, sock, asked, update, targets, updates, history>>
      /\ receiving' \subseteq receiving
      /\ rest' \in {rest, [rest EXCEPT ![Heart(s)] = {}]}
  BY DEF HeartStep, Timeout, PingFails, HandleStreamEnds, sockets
<1>3. pc' \in [Tasks -> Labels] /\ MapsAgree' /\ TaskData'
  <2>1. PICK l \in {"all", "stopped", "dropped"} : pc' = [pc EXCEPT ![Heart(s)] = l]
    BY <1>1
  <2>2. Heart(s) \in Tasks /\ l \in Labels \ {"set", "remove"}
    BY TaskNames DEF Labels
  <2>3. \A u \in Callbacks : Heart(s) # Callback(u)
    BY TaskNames
  <2>4. UNCHANGED <<maps, sock, asked, update>>
    BY <1>2
  <2> QED BY <2>1, <2>2, <2>3, <2>4, MoveData
<1> QED BY <1>0, <1>2, <1>3 DEF Base, TypeOK, maps, history

LEMMA CallbackBase ==
  ASSUME Base, NEW u \in Callbacks, CallbackStep(u)
  PROVE  Base'
<1> USE DEF Goto
<1>0. TypeOK /\ MapsAgree /\ TaskData
  BY DEF Base
<1>1. ASSUME NEW a \in Accounts, NEW ts \in Times, Receive(u, a, ts)
      PROVE  Base'
  <2>1. TypeOK'
    BY <1>0, <1>1, TaskNames, SubscriptionsAssumption
       DEF TypeOK, Receive, maps, sockets, Labels
  <2>2. MapsAgree' /\ TaskData'
    BY <1>0, <1>1, TaskNames DEF TypeOK, MapsAgree, TaskData, Receive, maps
  <2> QED BY <2>1, <2>2 DEF Base
<1>2. CASE Stamp(u)
  <2>1. /\ DOMAIN last_received' = DOMAIN last_received
        /\ IsMap(last_received', Accounts, Times)
        /\ adrift' \in [Callbacks -> BOOLEAN]
    BY <1>0, <1>2 DEF TypeOK, IsMap, Stamp
  <2>2. PICK l \in {"idle", "targets"} : pc' = [pc EXCEPT ![Callback(u)] = l]
    BY <1>2 DEF Stamp
  <2>3. UNCHANGED <<accounts_by_sock, socks_by_account, sockets, sock, rest, asked,
                    update, targets, updates, notified>>
    BY <1>2 DEF Stamp
  <2>4. pc' \in [Tasks -> Labels]
    BY <1>0, <2>2 DEF TypeOK, Labels
  <2>5. TypeOK' /\ MapsAgree'
    BY <1>0, <2>1, <2>3, <2>4 DEF TypeOK, MapsAgree, sockets
  <2>6. TaskData'
    <3>1. \A r \in Sockets : pc'[Reader(r)] = pc[Reader(r)]
      BY <1>0, <2>2, TaskNames DEF TypeOK
    <3>2. pc[Callback(u)] = "stamp"
      BY <1>2 DEF Stamp
    <3>3. \A v \in Callbacks : v # u => pc'[Callback(v)] = pc[Callback(v)]
      BY <1>0, <2>2, TaskNames DEF TypeOK
    <3> QED BY <1>0, <2>3, <3>1, <3>2, <3>3 DEF TaskData
  <2> QED BY <2>5, <2>6 DEF Base
<1>3. CASE TakeTargets(u)
  BY <1>0, <1>3, TaskNames
     DEF Base, TypeOK, IsMap, MapsAgree, TaskData, TakeTargets, maps, sockets, history, Labels, SetAt
<1>4. ASSUME NEW s \in Sockets, Send(u, s)
      PROVE  Base'
  <2>1. notified' \in SUBSET [sock : Sockets, account : Accounts, timestamp : Times]
    BY <1>0, <1>4 DEF TypeOK, TaskData, Send, Notice
  <2>2. PICK l \in {"idle", "send", "all"} : pc' = [pc EXCEPT ![Callback(u)] = l]
    BY <1>4 DEF Send
  <2>3. \/ UNCHANGED sock
        \/ sock' = [sock EXCEPT ![Callback(u)] = s]
    BY <1>4 DEF Send
  <2>4. UNCHANGED <<maps, sockets, rest, asked, update, updates, adrift>>
    BY <1>4 DEF Send
  <2>5. targets' \in [Callbacks -> SUBSET Sockets]
    BY <1>0, <1>4 DEF TypeOK, Send
  <2>6. pc' \in [Tasks -> Labels] /\ sock' \in [Tasks -> Sockets \cup {None}]
    BY <1>0, <2>2, <2>3, TaskNames DEF TypeOK, Labels
  <2>7. TypeOK' /\ MapsAgree'
    <3>1. MapsAgree'
      BY <1>0, <2>4 DEF MapsAgree, maps
    <3>2. TypeOK'
      BY <1>0, <2>1, <2>4, <2>5, <2>6 DEF TypeOK, maps, sockets
    <3> QED BY <3>1, <3>2
  <2>8. \A r \in Sockets : sock'[Reader(r)] = r /\ sock'[Heart(r)] = r
    <3>1. /\ sock \in [Tasks -> Sockets \cup {None}]
          /\ \A r \in Sockets : sock[Reader(r)] = r /\ sock[Heart(r)] = r
      BY <1>0 DEF TypeOK, TaskData
    <3>2. \A t \in Tasks : t # Callback(u) => sock'[t] = sock[t]
      BY <2>3, <3>1
    <3>3. \A r \in Sockets : /\ Reader(r) \in Tasks /\ Reader(r) # Callback(u)
                              /\ Heart(r) \in Tasks /\ Heart(r) # Callback(u)
      BY TaskNames
    <3> QED BY <3>1, <3>2, <3>3
  <2>9. TaskData'
    <3>1. \A r \in Sockets : pc'[Reader(r)] = pc[Reader(r)]
      BY <1>0, <2>2, TaskNames DEF TypeOK
    <3>2. pc[Callback(u)] = "send"
      BY <1>4 DEF Send
    <3>3. \A v \in Callbacks : v # u => pc'[Callback(v)] = pc[Callback(v)]
      BY <1>0, <2>2, TaskNames DEF TypeOK
    <3> QED BY <1>0, <2>4, <2>8, <3>1, <3>2, <3>3 DEF TaskData
  <2> QED BY <2>7, <2>9 DEF Base
<1> QED BY <1>1, <1>2, <1>3, <1>4 DEF CallbackStep

LEMMA UnsubscribeBase ==
  ASSUME Base, NEW t \in Tasks, UnsubscribeAll(t) \/ UnsubscribeNext(t)
  PROVE  Base'
<1>0. TypeOK /\ MapsAgree /\ TaskData
  BY DEF Base
<1>1. PICK l \in {"allNext", "closing", "dropped", "idle", "send"} :
        /\ pc' = [pc EXCEPT ![t] = l]
        /\ \A s \in Sockets : t = Reader(s) => l \in {"allNext", "closing"}
        /\ \A u \in Callbacks : t = Callback(u) => pc[t] \in {"all", "allNext"}
  <2>1. CASE UnsubscribeAll(t)
    BY <1>0, <2>1, Returns DEF UnsubscribeAll, Goto, TypeOK
  <2>2. CASE UnsubscribeNext(t) /\ rest'[t] = {}
    BY <1>0, <2>2, Returns DEF UnsubscribeNext, Goto, TypeOK
  <2>3. CASE UnsubscribeNext(t) /\ rest'[t] # {}
    BY <1>0, <2>3 DEF UnsubscribeNext, TypeOK
  <2> QED BY <2>1, <2>2, <2>3
<1>2. pc' \in [Tasks -> Labels] /\ UNCHANGED <<sockets, sock, asked, update, targets, updates>>
  BY <1>0, <1>1 DEF TypeOK, Labels, UnsubscribeAll, UnsubscribeNext
<1>3. TypeOK' /\ MapsAgree'
  <2>1. CASE UnsubscribeAll(t)
    <3>1. rest' \in [Tasks -> SUBSET Accounts]
      BY <1>0, <2>1 DEF TypeOK, IsMap, UnsubscribeAll
    <3>2. UNCHANGED <<maps, history>>
      BY <2>1 DEF UnsubscribeAll
    <3> QED BY <1>0, <1>2, <3>1, <3>2 DEF TypeOK, MapsAgree, maps, history, sockets
  <2>2. CASE UnsubscribeNext(t)
    <3>1. PICK a \in rest[t] : /\ remove_states(a, sock[t])
                               /\ rest' = [rest EXCEPT ![t] = @ \ {a}]
      BY <2>2 DEF UnsubscribeNext
    <3>2. /\ IsMap(accounts_by_sock', Sockets, SUBSET Accounts)
          /\ IsMap(socks_by_account', Accounts, SUBSET Sockets)
          /\ IsMap(last_received', Accounts, Times)
          /\ MapsAgree'
      BY <1>0, <3>1, Removal
    <3>3. /\ adrift' \in [Callbacks -> BOOLEAN]
          /\ notified' \subseteq notified
      BY <1>0, <3>1 DEF remove_states, Forget, history, TypeOK
    <3>4. rest' \in [Tasks -> SUBSET Accounts]
      BY <1>0, <3>1 DEF TypeOK
    <3> QED BY <1>0, <1>2, <3>2, <3>3, <3>4 DEF TypeOK, sockets
  <2> QED BY <2>1, <2>2
<1>4. TaskData'
  <2>1. \A x \in Tasks : x # t => pc'[x] = pc[x]
    BY <1>0, <1>1 DEF TypeOK
  <2>2. pc'[t] = l
    BY <1>0, <1>1 DEF TypeOK
  <2>3. pc[t] \in {"all", "allNext"} /\ UNCHANGED <<asked, sock, update>>
    BY <1>2 DEF UnsubscribeAll, UnsubscribeNext
  <2> QED BY <1>0, <1>1, <2>1, <2>2, <2>3, TaskNames DEF TaskData
<1> QED BY <1>3, <1>4 DEF Base
LEMMA BaseInit ==
  ASSUME Init
  PROVE  Base
<1>1. TypeOK
  <2>1. pc \in [Tasks -> Labels]
    BY DEF Init, Labels
  <2>2. sock \in [Tasks -> Sockets \cup {None}]
    BY DEF Init, Tasks, Reader, Heart, Callback
  <2> QED BY <2>1, <2>2, SubscriptionsAssumption DEF Init, TypeOK, IsMap, NoUpdate, Times
<1>2. MapsAgree
  BY DEF Init, MapsAgree, SetAt
<1>3. TaskData
  <2>1. \A t \in Tasks : pc[t] \in {"new", "stopped", "idle"}
    BY DEF Init
  <2>2. \A s \in Sockets : sock[Reader(s)] = s /\ sock[Heart(s)] = s
    BY TaskNames DEF Init, Reader, Heart
  <2> QED BY <2>1, <2>2, TaskNames DEF TaskData
<1> QED BY <1>1, <1>2, <1>3 DEF Base

LEMMA BaseStep ==
  ASSUME Base, [Next]_vars
  PROVE  Base'
<1>1. CASE Next
  BY <1>1, ReaderBase, HeartBase, CallbackBase, UnsubscribeBase DEF Next
<1>2. CASE UNCHANGED vars
  BY <1>2 DEF vars, maps, sockets, history, Base, TypeOK, MapsAgree, TaskData
<1> QED BY <1>1, <1>2

-----------------------------------------------------------------------------
(* Closing readers *)

Has(s) == SetAt(accounts_by_sock, s)

ClosingOf(s) ==
  /\ pc[Reader(s)] \in {"all", "allNext", "closing", "closed"} => s \notin socket_map
  /\ pc[Reader(s)] = "allNext" => Has(s) \subseteq rest[Reader(s)]
  /\ pc[Reader(s)] \in {"closing", "closed"} => Has(s) = {}

LEMMA ClosingParts ==
  ASSUME MapsAgree
  PROVE  Closing <=> \A s \in Sockets : ClosingOf(s)
<1>1. \A s \in Sockets : s \notin DOMAIN accounts_by_sock <=> Has(s) = {}
  BY DEF MapsAgree, Has, SetAt
<1> QED BY <1>1 DEF Closing, ClosingOf, Has

(* Nothing that another task does disturbs a closing reader.               *)
LEMMA ClosingFrame ==
  ASSUME NEW s \in Sockets, ClosingOf(s),
         UNCHANGED <<pc[Reader(s)], rest[Reader(s)]>>,
         s \in socket_map' => s \in socket_map,
         Has(s)' \subseteq Has(s)
  PROVE  ClosingOf(s)'
BY DEF ClosingOf

(* What any removal leaves to a socket.                                    *)
LEMMA HasLess ==
  ASSUME Base, NEW a, NEW r, remove_states(a, r), NEW s
  PROVE  Has(s)' = IF s = r THEN Has(s) \ {a} ELSE Has(s)
<1>1. TypeOK /\ MapsAgree
  BY DEF Base
<1>2. /\ SetAt(accounts_by_sock', r) = SetAt(accounts_by_sock, r) \ {a}
      /\ \A x : x # r => SetAt(accounts_by_sock', x) = SetAt(accounts_by_sock, x)
  BY <1>1, Removal
<1> QED BY <1>2 DEF Has

LEMMA ClosingReader ==
  ASSUME Base, NEW s \in Sockets, ClosingOf(s), NEW r \in Sockets, ReaderStep(r)
  PROVE  ClosingOf(s)'
<1> USE DEF Goto
<1>0. TypeOK /\ Reader(s) \in Tasks /\ Reader(r) \in Tasks /\ Heart(r) \in Tasks
  BY TaskNames DEF Base
<1>1. CASE s # r
  <2>1. Reader(s) # Reader(r) /\ Reader(s) # Heart(r)
    BY <1>1, TaskNames
  <2>2. UNCHANGED <<pc[Reader(s)], rest[Reader(s)]>>
    BY <1>0, <2>1 DEF TypeOK, ReaderStep, Subscribe, Unsubscribe, Connect, SetStates, Remove,
                      Close, CloseEnds, Break
  <2>3. socket_map' \subseteq socket_map \cup {r}
    BY DEF sockets, ReaderStep, Subscribe, Unsubscribe, Connect, SetStates, Remove,
           Close, CloseEnds, Break
  <2>4. Has(s)' = Has(s)
    <3>1. CASE SetStates(r)
      BY <1>1, <3>1 DEF SetStates, Has, SetAt, Put
    <3>2. CASE Remove(r)
      BY <1>1, <3>2, HasLess DEF Remove
    <3>3. CASE \/ \E a \in Accounts : Subscribe(r, a) \/ Unsubscribe(r, a)
               \/ Connect(r) \/ Close(r) \/ CloseEnds(r) \/ Break(r)
      BY <3>3 DEF maps, Has, Subscribe, Unsubscribe, Connect, Close, CloseEnds, Break
    <3> QED BY <3>1, <3>2, <3>3 DEF ReaderStep
  <2> QED BY <1>1, <2>2, <2>3, <2>4, ClosingFrame
<1>2. CASE s = r /\ Close(s)
  BY <1>0, <1>2 DEF Close, ClosingOf, TypeOK
<1>3. CASE s = r /\ CloseEnds(s)
  <2>1. pc[Reader(s)] = "closing" /\ UNCHANGED <<accounts_by_sock, socket_map>>
    BY <1>3 DEF CloseEnds, maps
  <2>2. pc'[Reader(s)] = "closed"
    BY <1>0, <1>3 DEF CloseEnds, TypeOK
  <2> QED BY <2>1, <2>2 DEF ClosingOf, Has
<1>4. CASE s = r /\ ~Close(s) /\ ~CloseEnds(s)
  <2>1. pc'[Reader(s)] \in {"set", "remove", "idle", "gone"}
    BY <1>0, <1>4, TaskNames DEF TypeOK, ReaderStep, Subscribe, Unsubscribe, Connect, SetStates,
                      Remove, Break
  <2> QED BY <2>1 DEF ClosingOf
<1> QED BY <1>1, <1>2, <1>3, <1>4

LEMMA ClosingUnsubscribe ==
  ASSUME Base, NEW s \in Sockets, ClosingOf(s), NEW t \in Tasks,
         UnsubscribeAll(t) \/ UnsubscribeNext(t)
  PROVE  ClosingOf(s)'
<1>0. TypeOK /\ TaskData /\ Reader(s) \in Tasks
  BY TaskNames DEF Base
<1>1. UNCHANGED socket_map
  BY DEF UnsubscribeAll, UnsubscribeNext, sockets
<1>2. CASE t # Reader(s)
  <2>1. UNCHANGED <<pc[Reader(s)], rest[Reader(s)]>>
    BY <1>0, <1>2 DEF TypeOK, UnsubscribeAll, UnsubscribeNext, Return, Goto
  <2>2. Has(s)' \subseteq Has(s)
    <3>1. CASE UnsubscribeAll(t)
      BY <3>1 DEF UnsubscribeAll, maps, Has
    <3>2. CASE UnsubscribeNext(t)
      <4>1. PICK a \in rest[t] : remove_states(a, sock[t])
        BY <3>2 DEF UnsubscribeNext
      <4> QED BY <4>1, HasLess
    <3> QED BY <3>1, <3>2
  <2> QED BY <1>1, <2>1, <2>2, ClosingFrame
<1>3. ASSUME t = Reader(s), Return(t)
      PROVE  pc'[Reader(s)] = "closing"
  BY <1>0, <1>3, TaskNames DEF Return, Goto, TypeOK
<1>4. CASE t = Reader(s) /\ UnsubscribeAll(t)
  <2>1. sock[t] = s /\ pc[t] = "all" /\ Has(s)' = Has(s)
    BY <1>0, <1>4 DEF TaskData, UnsubscribeAll, maps, Has
  <2>2. CASE s \in DOMAIN accounts_by_sock
    <3>1. rest'[Reader(s)] = Has(s) /\ pc'[Reader(s)] = "allNext"
      BY <1>0, <1>4, <2>1, <2>2 DEF UnsubscribeAll, Goto, TypeOK, Has, SetAt
    <3> QED BY <1>1, <1>4, <2>1, <3>1 DEF ClosingOf
  <2>3. CASE s \notin DOMAIN accounts_by_sock
    <3>1. pc'[Reader(s)] = "closing"
      BY <1>3, <1>4, <2>1, <2>3 DEF UnsubscribeAll
    <3>2. Has(s) = {}
      BY <2>3 DEF Has, SetAt
    <3> QED BY <1>1, <1>4, <2>1, <3>1, <3>2 DEF ClosingOf
  <2> QED BY <2>2, <2>3
<1>5. CASE t = Reader(s) /\ UnsubscribeNext(t)
  <2>1. sock[t] = s /\ pc[t] = "allNext"
    BY <1>0, <1>5 DEF TaskData, UnsubscribeNext
  <2>2. PICK a \in rest[t] : remove_states(a, s) /\ rest' = [rest EXCEPT ![t] = @ \ {a}]
    BY <1>5, <2>1 DEF UnsubscribeNext
  <2>3. Has(s)' = Has(s) \ {a}
    BY <2>2, HasLess
  <2>4. rest'[t] = rest[t] \ {a}
    BY <1>0, <2>2 DEF TypeOK
  <2>5. Has(s)' \subseteq rest'[t]
    BY <1>5, <2>1, <2>3, <2>4 DEF ClosingOf
  <2>6. rest'[t] = {} => pc'[t] = "closing"
    BY <1>3, <1>5 DEF UnsubscribeNext
  <2>7. rest'[t] # {} => pc'[t] = "allNext"
    BY <1>5, <2>1 DEF UnsubscribeNext
  <2> QED BY <1>1, <1>5, <2>1, <2>5, <2>6, <2>7 DEF ClosingOf
<1> QED BY <1>2, <1>4, <1>5

LEMMA ClosingStep ==
  ASSUME Base, NEW s \in Sockets, ClosingOf(s), [Next]_vars
  PROVE  ClosingOf(s)'
<1>0. TypeOK /\ Reader(s) \in Tasks
  BY TaskNames DEF Base
<1>1. ASSUME NEW r \in Sockets, HeartStep(r)
      PROVE  ClosingOf(s)'
  <2>1. Reader(s) # Heart(r)
    BY TaskNames
  <2>2. UNCHANGED <<pc[Reader(s)], rest[Reader(s)]>>
    BY <1>0, <1>1, <2>1 DEF TypeOK, HeartStep, Timeout, PingFails, HandleStreamEnds, Goto
  <2>3. UNCHANGED socket_map /\ Has(s)' = Has(s)
    BY <1>1 DEF HeartStep, Timeout, PingFails, HandleStreamEnds, maps, sockets, Has
  <2> QED BY <2>2, <2>3, ClosingFrame
<1>2. ASSUME NEW u \in Callbacks, CallbackStep(u)
      PROVE  ClosingOf(s)'
  <2>1. Reader(s) # Callback(u)
    BY TaskNames
  <2>2. UNCHANGED <<pc[Reader(s)], rest[Reader(s)]>>
    BY <1>0, <1>2, <2>1 DEF TypeOK, CallbackStep, Receive, Stamp, TakeTargets, Send, Goto
  <2>3. UNCHANGED socket_map /\ Has(s)' = Has(s)
    BY <1>2 DEF CallbackStep, Receive, Stamp, TakeTargets, Send, maps, sockets, Has
  <2> QED BY <2>2, <2>3, ClosingFrame
<1>3. CASE UNCHANGED vars
  BY <1>3 DEF vars, maps, sockets, ClosingOf, Has
<1> QED BY <1>1, <1>2, <1>3, ClosingReader, ClosingUnsubscribe DEF Next

-----------------------------------------------------------------------------
(* Notifications *)

(* A step keeps Once when it adds no notification and no carrier, and      *)
(* forgets no timestamp that is carried or was notified of.                *)
LEMMA OnceFrame ==
  ASSUME Once, notified' \subseteq notified,
         \A n \in notified' : Entered(n.account, n.timestamp)
                                => Entered(n.account, n.timestamp)',
         \A u \in Callbacks : Carries(u)' =>
           /\ Carries(u) /\ UNCHANGED update[u] /\ targets'[u] \subseteq targets[u]
           /\ pc'[Callback(u)] = "targets" => pc[Callback(u)] = "targets"
           /\ Entered(update[u].account, update[u].timestamp)
                => Entered(update[u].account, update[u].timestamp)'
  PROVE  Once'
<1>1. \A n \in notified' : Entered(n.account, n.timestamp)'
  BY DEF Once
<1>2. ASSUME NEW u \in Callbacks, Carries(u)'
      PROVE  /\ Entered(update[u].account, update[u].timestamp)'
             /\ \A v \in Callbacks : v # u /\ Carries(v)' => update'[u] # update'[v]
             /\ \A n \in notified' :
                  n.account = update'[u].account /\ n.timestamp = update'[u].timestamp
                    => pc'[Callback(u)] # "targets" /\ n.sock \notin targets'[u]
  <2>1. /\ Carries(u) /\ update'[u] = update[u] /\ targets'[u] \subseteq targets[u]
        /\ pc'[Callback(u)] = "targets" => pc[Callback(u)] = "targets"
        /\ Entered(update[u].account, update[u].timestamp)
             => Entered(update[u].account, update[u].timestamp)'
    BY <1>2
  <2>2. Entered(update[u].account, update[u].timestamp)'
    BY <2>1 DEF Once
  <2>3. \A v \in Callbacks : v # u /\ Carries(v)' => update'[u] # update'[v]
    BY <2>1 DEF Once
  <2>4. \A n \in notified' :
          n.account = update'[u].account /\ n.timestamp = update'[u].timestamp
            => pc'[Callback(u)] # "targets" /\ n.sock \notin targets'[u]
    BY <2>1 DEF Once
  <2> QED BY <2>2, <2>3, <2>4
<1> QED BY <1>1, <1>2 DEF Once

(* A removal forgets the timestamp of its account only, and says so.       *)
LEMMA Forgets ==
  ASSUME Base, NEW a, NEW s, remove_states(a, s)
  PROVE  /\ notified' \subseteq notified
         /\ \A n \in notified' : Entered(n.account, n.timestamp)
                                   => Entered(n.account, n.timestamp)'
         /\ \A u \in Callbacks : ~adrift'[u] =>
              /\ ~adrift[u]
              /\ Entered(update[u].account, update[u].timestamp)
                   => (update[u].account \in DOMAIN last_received'
                       /\ update[u].timestamp <= last_received'[update[u].account])
<1>0. TypeOK /\ MapsAgree
  BY DEF Base
<1>1. /\ \A b \in DOMAIN last_received' : last_received'[b] = last_received[b]
      /\ \A b \in DOMAIN last_received : b # a => b \in DOMAIN last_received'
  BY <1>0, Removal
<1>2. CASE a \in DOMAIN last_received'
  <2>1. UNCHANGED <<adrift, notified>>
    BY <1>2 DEF remove_states, Forget, history
  <2> QED BY <1>1, <1>2, <2>1 DEF Entered
<1>3. CASE a \notin DOMAIN last_received'
  <2>1. /\ adrift' = [u \in Callbacks |-> adrift[u] \/ update[u].account = a]
        /\ notified' = {n \in notified : n.account # a}
    BY <1>3 DEF remove_states, Forget
  <2> QED BY <1>1, <2>1 DEF Entered
<1> QED BY <1>2, <1>3

LEMMA OnceReader ==
  ASSUME Base, Once, NEW s \in Sockets, ReaderStep(s)
  PROVE  Once'
<1>0. TypeOK /\ Reader(s) \in Tasks /\ Heart(s) \in Tasks
  BY TaskNames DEF Base
<1>1. \A u \in Callbacks : Callback(u) # Reader(s) /\ Callback(u) # Heart(s)
  BY TaskNames
<1>2. \A u \in Callbacks : pc'[Callback(u)] = pc[Callback(u)]
  <2>1. \A t \in Tasks : t # Reader(s) /\ t # Heart(s) => pc'[t] = pc[t]
    BY <1>0 DEF TypeOK, ReaderStep, Subscribe, Unsubscribe, Connect, SetStates, Remove,
                Close, CloseEnds, Break, Goto
  <2> QED BY <1>1, <2>1, TaskNames
<1>3. UNCHANGED <<update, targets>>
  BY DEF ReaderStep, Subscribe, Unsubscribe, Connect, SetStates, Remove, Close, CloseEnds, Break
<1>4. CASE Remove(s)
  <2>1. remove_states(asked[s], s)
    BY <1>4 DEF Remove
  <2>2. /\ notified' \subseteq notified
        /\ \A n \in notified' : Entered(n.account, n.timestamp)
                                  => Entered(n.account, n.timestamp)'
    BY <2>1, Forgets
  <2>3. \A u \in Callbacks : ~adrift'[u] =>
              /\ ~adrift[u]
              /\ Entered(update[u].account, update[u].timestamp)
                   => (update[u].account \in DOMAIN last_received'
                       /\ update[u].timestamp <= last_received'[update[u].account])
    BY <2>1, Forgets
  <2>4. \A u \in Callbacks : Carries(u)' =>
           /\ Carries(u) /\ UNCHANGED update[u] /\ targets'[u] \subseteq targets[u]
           /\ pc'[Callback(u)] = "targets" => pc[Callback(u)] = "targets"
           /\ Entered(update[u].account, update[u].timestamp)
                => Entered(update[u].account, update[u].timestamp)'
    BY <1>2, <1>3, <2>3 DEF Carries, Entered
  <2> QED BY <2>2, <2>4, OnceFrame
<1>5. CASE ~Remove(s)
  <2>1. UNCHANGED history
    BY <1>5 DEF ReaderStep, Subscribe, Unsubscribe, Connect, SetStates, Close, CloseEnds, Break
  <2>2. \A a \in DOMAIN last_received : a \in DOMAIN last_received'
                                        /\ last_received'[a] = last_received[a]
    BY <1>5 DEF ReaderStep, Subscribe, Unsubscribe, Connect, SetStates, Close, CloseEnds, Break,
                maps, Put
  <2>3. \A a, ts : Entered(a, ts) => Entered(a, ts)'
    BY <2>2 DEF Entered
  <2>4. \A u \in Callbacks : Carries(u)' =>
           /\ Carries(u) /\ UNCHANGED update[u] /\ targets'[u] \subseteq targets[u]
           /\ pc'[Callback(u)] = "targets" => pc[Callback(u)] = "targets"
           /\ Entered(update[u].account, update[u].timestamp)
                => Entered(update[u].account, update[u].timestamp)'
    BY <1>2, <1>3, <2>1, <2>2 DEF Carries, Entered, history
  <2>5. /\ notified' \subseteq notified
        /\ \A n \in notified' : Entered(n.account, n.timestamp)
                                  => Entered(n.account, n.timestamp)'
    BY <2>1, <2>2 DEF history, Entered
  <2> QED BY <2>4, <2>5, OnceFrame
<1> QED BY <1>4, <1>5

(* A step that keeps the callbacks' data and the timestamps keeps Once,    *)
(* unless a callback gets to carry.                                        *)
LEMMA OnceKept ==
  ASSUME Once, UNCHANGED <<last_received, update, targets, history>>,
         \A u \in Callbacks : \/ pc'[Callback(u)] = pc[Callback(u)]
                              \/ /\ pc[Callback(u)] \in {"send", "all", "allNext"}
                                 /\ pc'[Callback(u)] # "targets"
                              \/ pc'[Callback(u)] \in {"idle", "stamp"}
  PROVE  Once'
<1>1. /\ notified' \subseteq notified
      /\ \A n \in notified' : Entered(n.account, n.timestamp)
                                => Entered(n.account, n.timestamp)'
  BY DEF history, Entered
<1>2. \A u \in Callbacks : Carries(u)' =>
           /\ Carries(u) /\ UNCHANGED update[u] /\ targets'[u] \subseteq targets[u]
           /\ pc'[Callback(u)] = "targets" => pc[Callback(u)] = "targets"
           /\ Entered(update[u].account, update[u].timestamp)
                => Entered(update[u].account, update[u].timestamp)'
  BY DEF Carries, Entered, history
<1> QED BY <1>1, <1>2, OnceFrame

LEMMA OnceHeart ==
  ASSUME Base, Once, NEW s \in Sockets, HeartStep(s)
  PROVE  Once'
<1>1. TypeOK /\ Heart(s) \in Tasks /\ \A u \in Callbacks : Callback(u) # Heart(s)
  BY TaskNames DEF Base
<1>2. \A u \in Callbacks : pc'[Callback(u)] = pc[Callback(u)]
  BY <1>1, TaskNames DEF TypeOK, HeartStep, Timeout, PingFails, HandleStreamEnds, Goto
<1>3. UNCHANGED <<last_received, update, targets, history>>
  BY DEF HeartStep, Timeout, PingFails, HandleStreamEnds, maps
<1> QED BY <1>2, <1>3, OnceKept

LEMMA OnceUnsubscribe ==
  ASSUME Base, Once, NEW t \in Tasks, UnsubscribeAll(t) \/ UnsubscribeNext(t)
  PROVE  Once'
<1>0. TypeOK
  BY DEF Base
<1>1. \A u \in Callbacks : \/ pc'[Callback(u)] = pc[Callback(u)]
                           \/ /\ pc[Callback(u)] \in {"send", "all", "allNext"}
                              /\ pc'[Callback(u)] # "targets"
  <2>1. pc[t] \in {"all", "allNext"}
    BY DEF UnsubscribeAll, UnsubscribeNext
  <2>2. \A x \in Tasks : x # t => pc'[x] = pc[x]
    BY <1>0 DEF TypeOK, UnsubscribeAll, UnsubscribeNext, Return, Goto
  <2>3. pc'[t] # "targets"
    <3>1. CASE Return(t)
      BY <1>0, <3>1, Returns DEF TypeOK
    <3>2. CASE ~Return(t)
      BY <1>0, <2>1, <3>2 DEF TypeOK, UnsubscribeAll, UnsubscribeNext, Goto
    <3> QED BY <3>1, <3>2
  <2> QED BY <2>1, <2>2, <2>3, TaskNames
<1>2. UNCHANGED <<update, targets>>
  BY DEF UnsubscribeAll, UnsubscribeNext
<1>3. CASE UnsubscribeAll(t)
  <2>1. UNCHANGED <<last_received, update, targets, history>>
    BY <1>3 DEF UnsubscribeAll, maps
  <2> QED BY <1>1, <2>1, OnceKept
<1>4. CASE UnsubscribeNext(t)
  <2>1. PICK a \in rest[t] : remove_states(a, sock[t])
    BY <1>4 DEF UnsubscribeNext
  <2>2. /\ notified' \subseteq notified
        /\ \A n \in notified' : Entered(n.account, n.timestamp)
                                  => Entered(n.account, n.timestamp)'
    BY <2>1, Forgets
  <2>3. \A u \in Callbacks : ~adrift'[u] =>
              /\ ~adrift[u]
              /\ Entered(update[u].account, update[u].timestamp)
                   => (update[u].account \in DOMAIN last_received'
                       /\ update[u].timestamp <= last_received'[update[u].account])
    BY <2>1, Forgets
  <2>4. \A u \in Callbacks : Carries(u)' =>
           /\ Carries(u) /\ UNCHANGED update[u] /\ targets'[u] \subseteq targets[u]
           /\ pc'[Callback(u)] = "targets" => pc[Callback(u)] = "targets"
           /\ Entered(update[u].account, update[u].timestamp)
                => Entered(update[u].account, update[u].timestamp)'
    BY <1>1, <1>2, <2>3 DEF Carries, Entered
  <2> QED BY <2>2, <2>4, OnceFrame
<1> QED BY <1>3, <1>4

(* The pcs of the other callbacks stay. *)
LEMMA OthersStay ==
  ASSUME Base, NEW u \in Callbacks, NEW l, pc' = [pc EXCEPT ![Callback(u)] = l]
  PROVE  /\ pc'[Callback(u)] = l
         /\ \A v \in Callbacks : v # u => pc'[Callback(v)] = pc[Callback(v)]
BY TaskNames DEF Base, TypeOK

LEMMA OnceReceive ==
  ASSUME Base, Once, NEW u \in Callbacks, NEW a \in Accounts, NEW ts \in Times, Receive(u, a, ts)
  PROVE  Once'
<1>0. TypeOK
  BY DEF Base
<1>1. /\ pc'[Callback(u)] = "stamp"
      /\ \A v \in Callbacks : v # u => pc'[Callback(v)] = pc[Callback(v)]
  BY OthersStay DEF Receive, Goto
<1>2. \A v \in Callbacks : v # u => update'[v] = update[v] /\ adrift'[v] = adrift[v]
  BY <1>0 DEF Receive, TypeOK
<1>3. UNCHANGED <<last_received, targets, notified>>
  BY DEF Receive, maps
<1>4. \A v \in Callbacks : Carries(v)' => v # u
  BY <1>1 DEF Carries
<1>5. \A v \in Callbacks : Carries(v)' =>
           /\ Carries(v) /\ UNCHANGED update[v] /\ targets'[v] \subseteq targets[v]
           /\ pc'[Callback(v)] = "targets" => pc[Callback(v)] = "targets"
           /\ Entered(update[v].account, update[v].timestamp)
                => Entered(update[v].account, update[v].timestamp)'
  BY <1>1, <1>2, <1>3, <1>4 DEF Carries, Entered
<1>6. /\ notified' \subseteq notified
      /\ \A n \in notified' : Entered(n.account, n.timestamp)
                                => Entered(n.account, n.timestamp)'
  BY <1>3 DEF Entered
<1> QED BY <1>5, <1>6, OnceFrame

(* The timestamp a callback enters is newer than every one entered before. *)
LEMMA OnceStamp ==
  ASSUME Base, Once, NEW u \in Callbacks, Stamp(u)
  PROVE  Once'
<1> DEFINE a == update[u].account
           ts == update[u].timestamp
<1>0. TypeOK /\ pc[Callback(u)] = "stamp"
  BY DEF Base, Stamp
<1>1. \A v \in Callbacks : v # u => pc'[Callback(v)] = pc[Callback(v)]
  <2>1. PICK l \in {"idle", "targets"} : pc' = [pc EXCEPT ![Callback(u)] = l]
    BY DEF Stamp, Goto
  <2> QED BY <2>1, OthersStay
<1>2. UNCHANGED <<update, targets, notified>>
  BY DEF Stamp
<1>3. CASE ~Newer(a, ts)
  <2>1. UNCHANGED <<last_received, update, targets, history>>
    BY <1>2, <1>3 DEF Stamp, history
  <2>2. pc'[Callback(u)] = "idle"
    BY <1>0, <1>3, TaskNames DEF Stamp, Goto, TypeOK
  <2> QED BY <1>1, <2>1, <2>2, OnceKept
<1>4. CASE Newer(a, ts) /\ a \notin DOMAIN last_received
  <2>1. UNCHANGED last_received /\ adrift' = [adrift EXCEPT ![u] = TRUE]
    BY <1>4 DEF Stamp
  <2>2. \A v \in Callbacks : Carries(v)' => v # u /\ Carries(v)
    BY <1>0, <1>1, <2>1 DEF Carries, TypeOK
  <2>3. \A v \in Callbacks : Carries(v)' =>
           /\ Carries(v) /\ UNCHANGED update[v] /\ targets'[v] \subseteq targets[v]
           /\ pc'[Callback(v)] = "targets" => pc[Callback(v)] = "targets"
           /\ Entered(update[v].account, update[v].timestamp)
                => Entered(update[v].account, update[v].timestamp)'
    BY <1>1, <1>2, <2>1, <2>2 DEF Entered
  <2>4. /\ notified' \subseteq notified
        /\ \A n \in notified' : Entered(n.account, n.timestamp)
                                  => Entered(n.account, n.timestamp)'
    BY <1>2, <2>1 DEF Entered
  <2> QED BY <2>3, <2>4, OnceFrame
<1>5. CASE Newer(a, ts) /\ a \in DOMAIN last_received
  <2>1. /\ last_received' = [last_received EXCEPT ![a] = ts]
        /\ adrift' = [adrift EXCEPT ![u] = FALSE]
    BY <1>5 DEF Stamp
  <2>2. /\ last_received \in [DOMAIN last_received -> Int]
        /\ \A v \in Callbacks : update[v].timestamp \in Int
        /\ \A n \in notified : n.timestamp \in Int
    BY <1>0 DEF TypeOK, IsMap, Times
  <2>3. last_received[a] < ts
    BY <1>5, <2>2 DEF Newer
  <2>4. Entered(a, ts)' /\ ~Entered(a, ts)
    BY <1>2, <1>5, <2>1, <2>2, <2>3 DEF Entered
  <2>5. \A b, x : x \in Int /\ Entered(b, x) => Entered(b, x)'
    <3> SUFFICES ASSUME NEW b, NEW x, x \in Int, Entered(b, x)
                 PROVE  b \in DOMAIN last_received' /\ x <= last_received'[b]
      BY DEF Entered
    <3>1. b \in DOMAIN last_received /\ x <= last_received[b]
      BY DEF Entered
    <3>2. CASE b = a
      BY <2>1, <2>2, <2>3, <3>1, <3>2
    <3>3. CASE b # a
      BY <2>1, <3>1, <3>3
    <3> QED BY <3>2, <3>3
  <2>6. \A v \in Callbacks : v # u => (Carries(v)' <=> Carries(v))
    BY <1>0, <1>1, <2>1 DEF Carries, TypeOK
  <2>7. \A n \in notified' : Entered(n.account, n.timestamp)'
    BY <1>2, <2>2, <2>5 DEF Once
  <2>8. \A v \in Callbacks : v # u /\ Carries(v)' => update'[v] # update'[u]
    BY <1>2, <2>4, <2>6 DEF Once
  <2>9. \A n \in notified' : ~(n.account = a /\ n.timestamp = ts)
    BY <1>2, <2>4 DEF Once
  <2>10. \A v \in Callbacks : v # u /\ Carries(v)' =>
           /\ Entered(update[v].account, update[v].timestamp)'
           /\ \A w \in Callbacks : w # v /\ Carries(w)' => update'[v] # update'[w]
           /\ \A n \in notified' :
                n.account = update'[v].account /\ n.timestamp = update'[v].timestamp
                  => pc'[Callback(v)] # "targets" /\ n.sock \notin targets'[v]
    <3> SUFFICES ASSUME NEW v \in Callbacks, v # u, Carries(v)'
                 PROVE  /\ Entered(update[v].account, update[v].timestamp)'
                        /\ \A w \in Callbacks : w # v /\ Carries(w)' => update'[v] # update'[w]
                        /\ \A n \in notified' :
                             n.account = update'[v].account /\ n.timestamp = update'[v].timestamp
                               => pc'[Callback(v)] # "targets" /\ n.sock \notin targets'[v]
      OBVIOUS
    <3>1. Carries(v)
      BY <2>6
    <3>2. update[v].timestamp \in Int /\ Entered(update[v].account, update[v].timestamp)
      BY <2>2, <3>1 DEF Once
    <3>3. Entered(update[v].account, update[v].timestamp)'
      <4> DEFINE b == update[v].account
                 x == update[v].timestamp
      <4>1. b \in DOMAIN last_received' /\ x <= last_received'[b]
        BY <2>5, <3>2 DEF Entered
      <4> QED BY <1>2, <4>1 DEF Entered
    <3>4. \A w \in Callbacks : w # v /\ Carries(w)' => update'[v] # update'[w]
      BY <1>2, <2>6, <2>8, <3>1 DEF Once
    <3>5. \A n \in notified' :
            n.account = update'[v].account /\ n.timestamp = update'[v].timestamp
              => pc'[Callback(v)] # "targets" /\ n.sock \notin targets'[v]
      BY <1>1, <1>2, <3>1 DEF Once
    <3> QED BY <3>3, <3>4, <3>5
  <2>11. Entered(update[u].account, update[u].timestamp)'
    BY <1>2, <2>4 DEF Entered
  <2> QED BY <1>2, <2>7, <2>8, <2>9, <2>10, <2>11 DEF Once
<1> QED BY <1>3, <1>4, <1>5

LEMMA OnceTargets ==
  ASSUME Base, Once, NEW u \in Callbacks, TakeTargets(u)
  PROVE  Once'
<1>0. TypeOK /\ pc[Callback(u)] = "targets"
  BY DEF Base, TakeTargets
<1>1. UNCHANGED <<last_received, update, adrift, notified>>
  BY DEF TakeTargets, maps, history
<1>2. /\ pc'[Callback(u)] \in {"idle", "send"}
      /\ \A v \in Callbacks : v # u => pc'[Callback(v)] = pc[Callback(v)]
  <2>1. PICK l \in {"idle", "send"} : pc' = [pc EXCEPT ![Callback(u)] = l]
    BY DEF TakeTargets, Goto
  <2> QED BY <2>1, OthersStay
<1>3. \A v \in Callbacks : v # u => targets'[v] = targets[v]
  BY <1>0 DEF TakeTargets, TypeOK
<1>4. \A v \in Callbacks : Carries(v)' => Carries(v)
  BY <1>0, <1>1, <1>2 DEF Carries
<1>5. \A a, ts : Entered(a, ts)' <=> Entered(a, ts)
  BY <1>1 DEF Entered
<1>6. \A n \in notified' : Entered(n.account, n.timestamp)'
  BY <1>1 DEF Once, Entered
<1>7. ASSUME NEW v \in Callbacks, Carries(v)'
      PROVE  /\ Entered(update[v].account, update[v].timestamp)'
             /\ \A w \in Callbacks : w # v /\ Carries(w)' => update'[v] # update'[w]
             /\ \A n \in notified' :
                  n.account = update'[v].account /\ n.timestamp = update'[v].timestamp
                    => pc'[Callback(v)] # "targets" /\ n.sock \notin targets'[v]
  <2>1. Carries(v)
    BY <1>4, <1>7
  <2>2. Entered(update[v].account, update[v].timestamp)'
    BY <1>1, <2>1 DEF Once, Entered
  <2>3. \A w \in Callbacks : w # v /\ Carries(w)' => update'[v] # update'[w]
    BY <1>1, <1>4, <2>1 DEF Once
  <2>4. \A n \in notified :
          n.account = update[v].account /\ n.timestamp = update[v].timestamp
            => pc[Callback(v)] # "targets" /\ n.sock \notin targets[v]
    BY <2>1 DEF Once
  <2>5. CASE v = u
    BY <1>0, <1>1, <2>2, <2>3, <2>4, <2>5
  <2>6. CASE v # u
    BY <1>1, <1>2, <1>3, <2>2, <2>3, <2>4, <2>6
  <2> QED BY <2>5, <2>6
<1> QED BY <1>6, <1>7 DEF Once

LEMMA OnceSend ==
  ASSUME Base, Once, NEW u \in Callbacks, NEW s \in Sockets, Send(u, s)
  PROVE  Once'
<1>0. /\ TypeOK /\ pc[Callback(u)] = "send" /\ s \in targets[u]
      /\ targets' = [targets EXCEPT ![u] = @ \ {s}]
  BY DEF Base, Send
<1>1. UNCHANGED <<last_received, update, adrift>>
  BY DEF Send, maps
<1>2. /\ pc'[Callback(u)] \in {"idle", "send", "all"}
      /\ \A v \in Callbacks : v # u => pc'[Callback(v)] = pc[Callback(v)]
  <2>1. PICK l \in {"idle", "send", "all"} : pc' = [pc EXCEPT ![Callback(u)] = l]
    BY DEF Send, Goto
  <2> QED BY <2>1, OthersStay
<1>3. /\ targets'[u] = targets[u] \ {s}
      /\ \A v \in Callbacks : v # u => targets'[v] = targets[v]
  BY <1>0 DEF TypeOK
<1>4. \A v \in Callbacks : Carries(v)' => Carries(v)
  BY <1>0, <1>1, <1>2 DEF Carries
<1>5. CASE notified' = notified
  <2>1. \A v \in Callbacks : Carries(v)' =>
           /\ Carries(v) /\ UNCHANGED update[v] /\ targets'[v] \subseteq targets[v]
           /\ pc'[Callback(v)] = "targets" => pc[Callback(v)] = "targets"
           /\ Entered(update[v].account, update[v].timestamp)
                => Entered(update[v].account, update[v].timestamp)'
    BY <1>1, <1>2, <1>3, <1>4 DEF Entered
  <2>2. /\ notified' \subseteq notified
        /\ \A n \in notified' : Entered(n.account, n.timestamp)
                                  => Entered(n.account, n.timestamp)'
    BY <1>1, <1>5 DEF Entered
  <2> QED BY <2>1, <2>2, OnceFrame
<1>6. CASE notified' = notified \cup {Notice(u, s)} /\ ~adrift[u]
  <2>1. Carries(u)
    BY <1>0, <1>6 DEF Carries
  <2>2. /\ Notice(u, s).sock = s
        /\ Notice(u, s).account = update[u].account
        /\ Notice(u, s).timestamp = update[u].timestamp
    BY DEF Notice
  <2>3. \A n \in notified' : Entered(n.account, n.timestamp)'
    BY <1>1, <1>6, <2>1, <2>2 DEF Once, Entered
  <2>4. ASSUME NEW v \in Callbacks, Carries(v)'
        PROVE  /\ Entered(update[v].account, update[v].timestamp)'
               /\ \A w \in Callbacks : w # v /\ Carries(w)' => update'[v] # update'[w]
               /\ \A n \in notified' :
                    n.account = update'[v].account /\ n.timestamp = update'[v].timestamp
                      => pc'[Callback(v)] # "targets" /\ n.sock \notin targets'[v]
    <3>1. Carries(v)
      BY <1>4, <2>4
    <3>2. Entered(update[v].account, update[v].timestamp)'
      BY <1>1, <3>1 DEF Once, Entered
    <3>3. \A w \in Callbacks : w # v /\ Carries(w)' => update'[v] # update'[w]
      BY <1>1, <1>4, <3>1 DEF Once
    <3>4. \A n \in notified :
            n.account = update[v].account /\ n.timestamp = update[v].timestamp
              => pc[Callback(v)] # "targets" /\ n.sock \notin targets[v]
      BY <3>1 DEF Once
    <3>5. CASE v = u
      BY <1>1, <1>2, <1>3, <1>6, <2>2, <3>2, <3>3, <3>4, <3>5
    <3>6. CASE v # u
      <4>1. ~(Notice(u, s).account = update[v].account
               /\ Notice(u, s).timestamp = update[v].timestamp)
        <5>1. update[u] # update[v]
          BY <2>1, <3>1, <3>6 DEF Once
        <5>2. update \in [Callbacks -> [account : Accounts \cup {None}, timestamp : Times]]
          BY <1>0 DEF TypeOK
        <5> QED BY <2>2, <5>1, <5>2
      <4> QED BY <1>1, <1>2, <1>3, <1>6, <3>2, <3>3, <3>4, <3>6, <4>1
    <3> QED BY <3>5, <3>6
  <2> QED BY <2>3, <2>4 DEF Once
<1> QED BY <1>5, <1>6 DEF Send

LEMMA OnceStep ==
  ASSUME Base, Once, [Next]_vars
  PROVE  Once'
<1>1. CASE UNCHANGED vars
  BY <1>1 DEF vars, maps, history, Once, Carries, Entered
<1>2. ASSUME NEW u \in Callbacks, CallbackStep(u)
      PROVE  Once'
  BY <1>2, OnceReceive, OnceStamp, OnceTargets, OnceSend DEF CallbackStep
<1> QED BY <1>1, <1>2, OnceReader, OnceHeart, OnceUnsubscribe DEF Next

-----------------------------------------------------------------------------
(* Theorems *)

(* Every reachable state of the manager and its callers, in any            *)
(* interleaving, satisfies the inductive invariant.                        *)
THEOREM Invariance == Spec => []Inv
<1>1. Init => Inv
  <2> SUFFICES ASSUME Init PROVE Inv
    OBVIOUS
  <2>1. Base
    BY BaseInit
  <2>2. Closing
    <3>1. \A s \in Sockets : pc[Reader(s)] = "new"
      BY TaskNames DEF Init, Reader
    <3> QED BY <3>1 DEF Closing
  <2>3. Once
    <3>1. \A u \in Callbacks : pc[Callback(u)] = "idle"
      BY TaskNames DEF Init, Callback
    <3> QED BY <3>1 DEF Init, Once, Carries
  <2> QED BY <2>1, <2>2, <2>3 DEF Base, Inv
<1>2. Inv /\ [Next]_vars => Inv'
  <2> SUFFICES ASSUME Inv, [Next]_vars PROVE Inv'
    OBVIOUS
  <2>1. Base /\ Closing /\ Once
    BY DEF Inv, Base
  <2>2. Base'
    BY <2>1, BaseStep
  <2>3. \A s \in Sockets : ClosingOf(s)
    BY <2>1, ClosingParts DEF Base
  <2>4. \A s \in Sockets : ClosingOf(s)'
    BY <2>1, <2>3, ClosingStep
  <2>5. \A s \in Sockets : s \notin DOMAIN accounts_by_sock' <=> Has(s)' = {}
    BY <2>2 DEF Base, MapsAgree, Has, SetAt
  <2>6. Closing'
    BY <2>4, <2>5 DEF Closing, ClosingOf, Has
  <2>7. Once'
    BY <2>1, OnceStep
  <2> QED BY <2>2, <2>6, <2>7 DEF Base, Inv
<1> QED BY <1>1, <1>2, PTL DEF Spec

(* The maps, the tasks' data and the history have their types.             *)
THEOREM TypeCorrect == Spec => []TypeOK
<1>1. Inv => TypeOK
  BY DEF Inv
<1> QED BY <1>1, Invariance, PTL

(* However subscribe, unsubscribe, unsubscribe_all and the callbacks       *)
(* interleave between their locks, the three maps agree.                   *)
THEOREM Agreement == Spec => []MapsAgree
<1>1. Inv => MapsAgree
  BY DEF Inv
<1> QED BY <1>1, Invariance, PTL

(* A socket that sent a Close frame has no sender and no subscription,     *)
(* whatever the heartbeat and the callbacks do meanwhile.                  *)
THEOREM Forgotten == Spec => []ForgottenOnClose
<1>1. Inv => ForgottenOnClose
  BY DEF Inv, Closing, ForgottenOnClose
<1> QED BY <1>1, Invariance, PTL

(* No socket is notified twice of one timestamp of an account that keeps a *)
(* subscriber, however many callbacks of it run at once.                   *)
THEOREM NoRepeats == Spec => NotifiedOnce
<1> DEFINE A == \A u \in Callbacks, s \in Sockets :
                  pc[Callback(u)] = "send" /\ s \in targets[u] /\ s \notin targets'[u] /\ Reaches(s)
                    => adrift[u] \/ Notice(u, s) \notin notified
<1>1. Inv => A
  <2> SUFFICES ASSUME Inv, NEW u \in Callbacks, NEW s \in Sockets,
                      pc[Callback(u)] = "send", s \in targets[u], ~adrift[u]
               PROVE  Notice(u, s) \notin notified
    OBVIOUS
  <2>1. Carries(u)
    BY DEF Carries
  <2>2. \A n \in notified :
          n.account = update[u].account /\ n.timestamp = update[u].timestamp
            => n.sock \notin targets[u]
    BY <2>1 DEF Inv, Once
  <2> QED BY <2>2 DEF Notice
<1> HIDE DEF A
<1>2. Spec => [][A]_vars
  BY <1>1, Invariance, PTL
<1> QED BY <1>2 DEF A, NotifiedOnce

-----------------------------------------------------------------------------
(* The registry *)

PairsOf(m) == {p \in Sockets \X Accounts : p[1] \in SetAt(m, p[2])}

(* The accounts with a subscriber are the keys of the map.                 *)
LEMMA FollowedOf ==
  ASSUME NEW m, IsMap(m, Accounts, SUBSET Sockets), \A a \in DOMAIN m : m[a] # {}
  PROVE  {p[2] : p \in PairsOf(m)} = DOMAIN m
<1>1. ASSUME NEW p \in PairsOf(m)
      PROVE  p[2] \in DOMAIN m
  BY DEF PairsOf, SetAt
<1>2. ASSUME NEW a \in DOMAIN m
      PROVE  \E p \in PairsOf(m) : p[2] = a
  <2>1. PICK s \in Sockets : s \in m[a]
    BY DEF IsMap
  <2>2. a \in Accounts
    BY DEF IsMap
  <2>3. <<s, a>> \in PairsOf(m)
    BY <2>1, <2>2 DEF PairsOf, SetAt
  <2> QED BY <2>3
<1> QED BY <1>1, <1>2

LEMMA Follows ==
  ASSUME Base
  PROVE  Pairs = PairsOf(socks_by_account) /\ Registry!Followed(Pairs) = DOMAIN last_received
<1>1. Pairs = PairsOf(socks_by_account)
  BY DEF Pairs, PairsOf
<1>2. /\ IsMap(socks_by_account, Accounts, SUBSET Sockets)
      /\ \A a \in DOMAIN socks_by_account : socks_by_account[a] # {}
      /\ DOMAIN last_received = DOMAIN socks_by_account
  BY DEF Base, TypeOK, MapsAgree
<1>3. {p[2] : p \in PairsOf(socks_by_account)} = DOMAIN socks_by_account
  BY <1>2, FollowedOf
<1> QED BY <1>1, <1>2, <1>3 DEF Registry!Followed

LEMMA FollowsPrime ==
  ASSUME Base'
  PROVE  Pairs' = PairsOf(socks_by_account') /\ Registry!Followed(Pairs') = DOMAIN last_received'
<1>1. Pairs' = PairsOf(socks_by_account')
  BY DEF Pairs, PairsOf
<1>2. /\ IsMap(socks_by_account', Accounts, SUBSET Sockets)
      /\ \A a \in DOMAIN socks_by_account' : socks_by_account'[a] # {}
      /\ DOMAIN last_received' = DOMAIN socks_by_account'
  BY DEF Base, TypeOK, MapsAgree
<1>3. {p[2] : p \in PairsOf(socks_by_account')} = DOMAIN socks_by_account'
  BY <1>2, FollowedOf
<1> QED BY <1>1, <1>2, <1>3 DEF Registry!Followed

(* A removal is an abstract Unsubscribe or changes nothing.                *)
LEMMA RemovalSteps ==
  ASSUME Base, Base', NEW a \in Accounts, NEW s, remove_states(a, s), Closed' = Closed
  PROVE  [Registry!Next]_<<Pairs, last_received, Closed>>
<1>1. TypeOK /\ MapsAgree
  BY DEF Base
<1>2. /\ SetAt(socks_by_account', a) = SetAt(socks_by_account, a) \ {s}
      /\ \A x : x # a => SetAt(socks_by_account', x) = SetAt(socks_by_account, x)
      /\ \A b \in DOMAIN last_received' : last_received'[b] = last_received[b]
  BY <1>1, Removal
<1>3. Pairs' = Pairs \ {<<s, a>>}
  BY <1>2 DEF Pairs
<1>4. /\ last_received' = [b \in DOMAIN last_received' |-> last_received'[b]]
      /\ last_received = [b \in DOMAIN last_received |-> last_received[b]]
  <2>1. last_received \in [DOMAIN last_received -> Times]
    BY <1>1 DEF TypeOK, IsMap
  <2>2. last_received' \in [DOMAIN last_received' -> Times]
    BY DEF Base, TypeOK, IsMap
  <2> QED BY <2>1, <2>2
<1>5. /\ Registry!Followed(Pairs) = DOMAIN last_received
      /\ Registry!Followed(Pairs') = DOMAIN last_received'
  BY Follows, FollowsPrime
<1>6. CASE <<s, a>> \in Pairs
  <2>1. s \in Sockets
    BY <1>6 DEF Pairs
  <2>2. last_received' = [b \in Registry!Followed(Pairs') |-> last_received[b]]
    BY <1>2, <1>4, <1>5
  <2>3. Registry!Unsubscribe(s, a)
    BY <1>3, <1>6, <2>2 DEF Registry!Unsubscribe
  <2> QED BY <2>1, <2>3 DEF Registry!Next
<1>7. CASE <<s, a>> \notin Pairs
  <2>1. Pairs' = Pairs
    BY <1>3, <1>7
  <2>2. last_received' = last_received
    BY <1>2, <1>4, <1>5, <2>1
  <2> QED BY <2>1, <2>2
<1> QED BY <1>6, <1>7

(* Entering a subscription is an abstract Subscribe. *)
LEMMA SubscriptionSteps ==
  ASSUME Base, Base', NEW s \in Sockets, SetStates(s), Closed' = Closed
  PROVE  [Registry!Next]_<<Pairs, last_received, Closed>>
<1> DEFINE a == asked[s]
<1>1. TypeOK /\ MapsAgree /\ a \in Accounts /\ pc[Reader(s)] = "set"
  BY DEF Base, SetStates, TaskData
<1>2. socks_by_account' = Put(socks_by_account, a, SetAt(socks_by_account, a) \cup {s})
  BY DEF SetStates
<1>3. Pairs' = Pairs \cup {<<s, a>>}
  <2>1. /\ SetAt(socks_by_account', a) = SetAt(socks_by_account, a) \cup {s}
        /\ \A x : x # a => SetAt(socks_by_account', x) = SetAt(socks_by_account, x)
    BY <1>2 DEF Put, SetAt
  <2> QED BY <1>1, <2>1 DEF Pairs
<1>4. PICK ts \in Times : last_received' = IF a \in DOMAIN last_received
                            THEN last_received ELSE Put(last_received, a, ts)
  BY DEF SetStates
<1>5. /\ Registry!Followed(Pairs) = DOMAIN last_received
      /\ Registry!Followed(Pairs') = DOMAIN last_received'
  BY Follows, FollowsPrime
<1>6. last_received = [b \in DOMAIN last_received |-> last_received[b]]
  <2>1. last_received \in [DOMAIN last_received -> Times]
    BY <1>1 DEF TypeOK, IsMap
  <2> QED BY <2>1
<1>7. last_received' = [b \in Registry!Followed(Pairs') |->
                          IF b \in Registry!Followed(Pairs) THEN last_received[b] ELSE ts]
  <2>1. CASE a \in DOMAIN last_received
    BY <1>4, <1>5, <1>6, <2>1
  <2>2. CASE a \notin DOMAIN last_received
    BY <1>4, <1>5, <2>2 DEF Put
  <2> QED BY <2>1, <2>2
<1>8. CASE <<s, a>> \in Pairs
  <2>1. a \in DOMAIN last_received
    BY <1>5, <1>8 DEF Registry!Followed
  <2> QED BY <1>3, <1>4, <1>8, <2>1
<1>9. CASE <<s, a>> \notin Pairs
  <2>1. s \notin Closed
    BY <1>1 DEF Closed
  <2>2. Registry!Subscribe(s, a)
    BY <1>3, <1>7, <1>9, <2>1 DEF Registry!Subscribe
  <2> QED BY <1>1, <2>2 DEF Registry!Next
<1> QED BY <1>8, <1>9

(* Only CloseEnds closes a socket.                                         *)
LEMMA ClosedStays ==
  ASSUME Base, Next, \A s \in Sockets : ~CloseEnds(s)
  PROVE  Closed' = Closed
<1>0. TypeOK /\ \A s \in Sockets : Reader(s) \in Tasks
  BY TaskNames DEF Base
<1>1. ASSUME NEW r \in Sockets, ReaderStep(r)
      PROVE  \A s \in Sockets : pc'[Reader(s)] = "closed" <=> pc[Reader(s)] = "closed"
  <2>1. pc[Reader(r)] # "closed"
    BY <1>1 DEF ReaderStep, Subscribe, Unsubscribe, Connect, SetStates, Remove, Close, CloseEnds, Break
  <2>2. pc'[Reader(r)] # "closed"
    BY <1>0, <1>1, TaskNames DEF TypeOK, ReaderStep, Subscribe, Unsubscribe, Connect, SetStates, Remove,
                         Close, Break, Goto
  <2>3. \A t \in Tasks : t # Reader(r) /\ t # Heart(r) => pc'[t] = pc[t]
    BY <1>0, <1>1 DEF TypeOK, ReaderStep, Subscribe, Unsubscribe, Connect, SetStates, Remove,
                      Close, CloseEnds, Break, Goto
  <2>4. \A s \in Sockets : s # r => Reader(s) # Reader(r) /\ Reader(s) # Heart(r)
    BY TaskNames
  <2> QED BY <1>0, <2>1, <2>2, <2>3, <2>4
<1>2. ASSUME NEW r \in Sockets, HeartStep(r)
      PROVE  \A s \in Sockets : pc'[Reader(s)] = pc[Reader(s)]
  BY <1>0, <1>2, TaskNames DEF TypeOK, HeartStep, Timeout, PingFails, HandleStreamEnds, Goto
<1>3. ASSUME NEW u \in Callbacks, CallbackStep(u)
      PROVE  \A s \in Sockets : pc'[Reader(s)] = pc[Reader(s)]
  <2>1. \A t \in Tasks : t # Callback(u) => pc'[t] = pc[t]
    BY <1>0, <1>3 DEF TypeOK, CallbackStep, Receive, Stamp, TakeTargets, Send, Goto
  <2> QED BY <1>0, <2>1, TaskNames
<1>4. ASSUME NEW t \in Tasks, UnsubscribeAll(t) \/ UnsubscribeNext(t)
      PROVE  \A s \in Sockets : pc'[Reader(s)] = "closed" <=> pc[Reader(s)] = "closed"
  <2>1. pc[t] \in {"all", "allNext"}
    BY <1>4 DEF UnsubscribeAll, UnsubscribeNext
  <2>2. \A x \in Tasks : x # t => pc'[x] = pc[x]
    BY <1>0, <1>4 DEF TypeOK, UnsubscribeAll, UnsubscribeNext, Return, Goto
  <2>3. pc'[t] # "closed"
    <3>1. CASE Return(t)
      BY <1>0, <3>1, Returns DEF TypeOK
    <3>2. CASE ~Return(t)
      BY <1>0, <1>4, <2>1, <3>2 DEF TypeOK, UnsubscribeAll, UnsubscribeNext, Goto
    <3> QED BY <3>1, <3>2
  <2> QED BY <1>0, <2>1, <2>2, <2>3
<1>5. \A s \in Sockets : pc'[Reader(s)] = "closed" <=> pc[Reader(s)] = "closed"
  BY <1>1, <1>2, <1>3, <1>4 DEF Next
<1> QED BY <1>5 DEF Closed

(* Every step of the manager is a step of the registry or changes nothing  *)
(* there.                                                                  *)
LEMMA RegistryStep ==
  ASSUME Inv, Inv', [Next]_vars
  PROVE  [Registry!Next]_<<Pairs, last_received, Closed>>
<1>0. Base /\ Base' /\ TypeOK /\ MapsAgree
  BY DEF Inv, Base
<1>1. CASE UNCHANGED vars
  BY <1>1 DEF vars, maps, Pairs, Closed
<1>2. ASSUME NEW s \in Sockets, CloseEnds(s)
      PROVE  [Registry!Next]_<<Pairs, last_received, Closed>>
  <2>1. UNCHANGED <<Pairs, last_received>> /\ pc[Reader(s)] = "closing"
    BY <1>2 DEF CloseEnds, maps, Pairs
  <2>2. \A r \in Sockets : pc'[Reader(r)] = "closed" <=> r = s \/ pc[Reader(r)] = "closed"
    BY <1>0, <1>2, TaskNames DEF CloseEnds, Goto, TypeOK
  <2>3. Closed' = Closed \cup {s}
    BY <2>2 DEF Closed
  <2>4. s \notin DOMAIN accounts_by_sock
    BY <2>1 DEF Inv, Closing
  <2>5. \A a \in Accounts : <<s, a>> \notin Pairs
    <3>1. \A a \in Accounts : s \notin SetAt(socks_by_account, a)
      BY <1>0, <2>4 DEF MapsAgree, SetAt
    <3> QED BY <3>1 DEF Pairs
  <2>6. Registry!Leave(s)
    BY <2>1, <2>3, <2>5 DEF Registry!Leave
  <2> QED BY <2>6 DEF Registry!Next
<1>3. CASE Next /\ \A s \in Sockets : ~CloseEnds(s)
  <2>0. Closed' = Closed
    BY <1>0, <1>3, ClosedStays
  <2>1. CASE UNCHANGED maps
    BY <2>0, <2>1 DEF maps, Pairs
  <2>2. ASSUME NEW s \in Sockets, SetStates(s)
        PROVE  [Registry!Next]_<<Pairs, last_received, Closed>>
    BY <1>0, <2>0, <2>2, SubscriptionSteps
  <2>3. ASSUME NEW s \in Sockets, Remove(s)
        PROVE  [Registry!Next]_<<Pairs, last_received, Closed>>
    <3>1. asked[s] \in Accounts /\ remove_states(asked[s], s)
      BY <1>0, <2>3 DEF Remove, Base, TaskData
    <3> QED BY <1>0, <2>0, <3>1, RemovalSteps
  <2>4. ASSUME NEW t \in Tasks, UnsubscribeNext(t)
        PROVE  [Registry!Next]_<<Pairs, last_received, Closed>>
    <3>1. PICK a \in rest[t] : remove_states(a, sock[t])
      BY <2>4 DEF UnsubscribeNext
    <3>2. a \in Accounts
      BY <1>0, <3>1 DEF TypeOK
    <3> QED BY <1>0, <2>0, <3>1, <3>2, RemovalSteps
  <2>5. ASSUME NEW u \in Callbacks, Stamp(u)
        PROVE  [Registry!Next]_<<Pairs, last_received, Closed>>
    <3> DEFINE a == update[u].account
               ts == update[u].timestamp
    <3>1. a \in Accounts /\ ts \in Times
      BY <1>0, <2>5 DEF Base, TypeOK, TaskData, Stamp
    <3>2. UNCHANGED Pairs
      BY <2>5 DEF Stamp, Pairs
    <3>3. CASE UNCHANGED last_received
      BY <2>0, <3>2, <3>3
    <3>4. CASE last_received' # last_received
      <4>1. /\ a \in DOMAIN last_received /\ ts > last_received[a]
            /\ last_received' = [last_received EXCEPT ![a] = ts]
        BY <2>5, <3>4 DEF Stamp, Newer
      <4>2. a \in Registry!Followed(Pairs)
        BY <1>0, <4>1, Follows
      <4>3. Registry!Advance(a)
        BY <2>0, <3>1, <3>2, <4>1, <4>2 DEF Registry!Advance
      <4> QED BY <3>1, <4>3 DEF Registry!Next
    <3> QED BY <3>3, <3>4
  <2>6. \/ UNCHANGED maps
        \/ \E s \in Sockets : SetStates(s) \/ Remove(s)
        \/ \E t \in Tasks : UnsubscribeNext(t)
        \/ \E u \in Callbacks : Stamp(u)
    <3>1. ASSUME NEW s \in Sockets, ReaderStep(s), ~SetStates(s), ~Remove(s)
          PROVE  UNCHANGED maps
      BY <3>1 DEF ReaderStep, Subscribe, Unsubscribe, Connect, Close, CloseEnds, Break
    <3>2. ASSUME NEW s \in Sockets, HeartStep(s)
          PROVE  UNCHANGED maps
      BY <3>2 DEF HeartStep, Timeout, PingFails, HandleStreamEnds
    <3>3. ASSUME NEW u \in Callbacks, CallbackStep(u), ~Stamp(u)
          PROVE  UNCHANGED maps
      BY <3>3 DEF CallbackStep, Receive, TakeTargets, Send
    <3>4. ASSUME NEW t \in Tasks, UnsubscribeAll(t)
          PROVE  UNCHANGED maps
      BY <3>4 DEF UnsubscribeAll
    <3> QED BY <1>3, <3>1, <3>2, <3>3, <3>4 DEF Next
  <2> QED BY <2>1, <2>2, <2>3, <2>4, <2>5, <2>6
<1> QED BY <1>1, <1>2, <1>3

(* The manager implements the registry: with all its locks and lookups its *)
(* maps change as one relation, its timestamps only grow while somebody    *)
(* subscribes, and a socket that left never comes back.                    *)
THEOREM Implementation == Spec => ImplementsRegistry
<1>1. Init => Registry!Init
  <2> SUFFICES ASSUME Init PROVE Registry!Init
    OBVIOUS
  <2>1. Pairs = {}
    BY DEF Init, Pairs, SetAt
  <2>2. Closed = {}
    BY TaskNames DEF Init, Closed, Reader
  <2> QED BY <2>1, <2>2 DEF Init, Registry!Init
<1>2. Inv /\ Inv' /\ [Next]_vars => [Registry!Next]_<<Pairs, last_received, Closed>>
  BY RegistryStep
<1>3. [Registry!Next]_<<Pairs, last_received, Closed>> => [Registry!Next]_(Registry!registry)
  BY DEF Registry!registry
<1> QED BY <1>1, <1>2, <1>3, Invariance, PTL DEF Spec, ImplementsRegistry, Registry!Spec

=============================================================================
