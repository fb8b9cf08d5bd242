--------------------------- MODULE Subscriptions ---------------------------
(***************************************************************************)
(* The subscription manager of src/src/subscription.rs and the tasks that  *)
(* call it.  Of every websocket (src/src/ws.rs) a reader task handles the  *)
(* client's messages one by one and a heartbeat task drops it when it      *)
(* stops answering; the collector's listener (src/src/collector.rs) spawns *)
(* one callback task per account update.                                   *)
(*                                                                         *)
(* The three maps of the manager lie under one RwLock, taken and released  *)
(* many times in one operation: what happens under it is one action.  The  *)
(* map of the sockets' senders lies under another, which is also held over *)
(* calls of the manager.                                                   *)
(***************************************************************************)
EXTENDS Integers, FiniteSets

CONSTANTS
  Sockets,        \* socket ids, each for one connection
  Accounts,       \* account addresses
  Callbacks,      \* tasks that run listen_account_update_callback
  MaxTime,        \* bound: the timestamps 0..MaxTime
  MaxUpdates,     \* bound: the updates of subscribed accounts received
  None            \* "nobody"

Reader(s) == <<"reader", s>>
Heart(s) == <<"heart", s>>
Callback(u) == <<"callback", u>>

Tasks == {Reader(s) : s \in Sockets} \cup {Heart(s) : s \in Sockets}
           \cup {Callback(u) : u \in Callbacks}

Times == 0..MaxTime

ASSUME SubscriptionsAssumption ==
  MaxTime \in Nat /\ MaxUpdates \in Nat /\ None \notin Sockets

VARIABLES
  accounts_by_sock,  \* Inner: the accounts of a socket,
  socks_by_account,  \*   the sockets of an account,
  last_received,     \*   and the newest timestamp of an account
  socket_map,        \* the sockets that have a sender
  receiving,         \* the sockets whose handle_stream still receives
  map_writer,        \* the socket whose reader holds socket_map for writing
  pc,                \* where each task stands
  sock,              \* the socket that unsubscribe_all works on
  rest,              \* the accounts it has still to remove
  asked,             \* the account of the request a reader handles
  update,            \* the update a callback handles
  targets,           \* the sockets it has still to notify
  updates,           \* the updates received
  adrift,            \* history: the account was forgotten under the callback
  notified           \* history: notifications since the account was last forgotten

maps == <<accounts_by_sock, socks_by_account, last_received>>
sockets == <<socket_map, receiving, map_writer>>
history == <<adrift, notified>>
vars == <<maps, sockets, pc, sock, rest, asked, update, targets, updates, history>>

-----------------------------------------------------------------------------
(* Hash maps: functions whose domains are the keys present. *)

Put(m, k, v) == [x \in DOMAIN m \cup {k} |-> IF x = k THEN v ELSE m[x]]
Drop(m, k) == [x \in DOMAIN m \ {k} |-> m[x]]
SetAt(m, k) == IF k \in DOMAIN m THEN m[k] ELSE {}

(* Removes an element of a set of the map, and the set when it is empty.   *)
Discard(m, k, x) ==
  IF k \notin DOMAIN m THEN m
  ELSE IF m[k] \ {x} = {} THEN Drop(m, k) ELSE Put(m, k, m[k] \ {x})

(* The callback holds socket_map for reading while it removes a socket. *)
MapRead == \E u \in Callbacks : pc[Callback(u)] \in {"all", "allNext"}

Goto(t, label) == pc' = [pc EXCEPT ![t] = label]

(* What becomes of the history when account a may have been forgotten. *)
Forget(a) ==
  IF a \in DOMAIN last_received'
  THEN UNCHANGED history
  ELSE /\ adrift' = [u \in Callbacks |-> adrift[u] \/ update[u].account = a]
       /\ notified' = {n \in notified : n.account # a}

remove_states(a, s) ==
  /\ accounts_by_sock' = Discard(accounts_by_sock, s, a)
  /\ socks_by_account' = Discard(socks_by_account, a, s)
  /\ last_received' = IF a \in DOMAIN socks_by_account /\ a \notin DOMAIN socks_by_account'
                      THEN Drop(last_received, a) ELSE last_received
  /\ Forget(a)

-----------------------------------------------------------------------------
(* The reader of a socket. *)

Connect(s) ==
  /\ pc[Reader(s)] = "new" /\ map_writer = None /\ ~MapRead
  /\ socket_map' = socket_map \cup {s}
  /\ receiving' = receiving \cup {s}
  /\ pc' = [pc EXCEPT ![Reader(s)] = "idle", ![Heart(s)] = "idle"]
  /\ UNCHANGED <<maps, map_writer, sock, rest, asked, update, targets, updates, history>>

(* A seeded bug, as every definition with an underscore suffix: the        *)
(* address is lost on the way from the request to set_states.              *)
Subscribe_Unaddressed(s, a) ==
  /\ pc[Reader(s)] = "idle"
  /\ a \notin SetAt(accounts_by_sock, s)
  /\ Goto(Reader(s), "set")
  /\ UNCHANGED <<maps, sockets, sock, rest, asked, update, targets, updates, history>>

(* subscribe asks is_exist, then lets go of the lock. *)
Subscribe(s, a) ==
  /\ pc[Reader(s)] = "idle"
  /\ a \notin SetAt(accounts_by_sock, s)
  /\ asked' = [asked EXCEPT ![s] = a]
  /\ Goto(Reader(s), "set")
  /\ UNCHANGED <<maps, sockets, sock, rest, update, targets, updates, history>>

(* The timestamp is overwritten: insert instead of or_insert. *)
SetStates_Overwrites(s) ==
  LET a == asked[s] IN
  /\ pc[Reader(s)] = "set"
  /\ accounts_by_sock' = Put(accounts_by_sock, s, SetAt(accounts_by_sock, s) \cup {a})
  /\ socks_by_account' = Put(socks_by_account, a, SetAt(socks_by_account, a) \cup {s})
  /\ \E ts \in Times : last_received' = Put(last_received, a, ts)
  /\ asked' = [asked EXCEPT ![s] = None]
  /\ Goto(Reader(s), "idle")
  /\ UNCHANGED <<sockets, sock, rest, update, targets, updates, history>>

(* ... and set_states takes it again, after asking a validator for the     *)
(* account: its chat timestamp, or 0 when there is none.                   *)
SetStates(s) ==
  LET a == asked[s] IN
  /\ pc[Reader(s)] = "set"
  /\ accounts_by_sock' = Put(accounts_by_sock, s, SetAt(accounts_by_sock, s) \cup {a})
  /\ socks_by_account' = Put(socks_by_account, a, SetAt(socks_by_account, a) \cup {s})
  /\ \E ts \in Times :
       last_received' = IF a \in DOMAIN last_received
                        THEN last_received ELSE Put(last_received, a, ts)
  /\ asked' = [asked EXCEPT ![s] = None]
  /\ Goto(Reader(s), "idle")
  /\ UNCHANGED <<sockets, sock, rest, update, targets, updates, history>>

(* unsubscribe looks under the read lock and removes under the write lock. *)
Unsubscribe(s, a) ==
  /\ pc[Reader(s)] = "idle"
  /\ a \in SetAt(accounts_by_sock, s)
  /\ asked' = [asked EXCEPT ![s] = a]
  /\ Goto(Reader(s), "remove")
  /\ UNCHANGED <<maps, sockets, sock, rest, update, targets, updates, history>>

Remove(s) ==
  /\ pc[Reader(s)] = "remove"
  /\ remove_states(asked[s], s)
  /\ asked' = [asked EXCEPT ![s] = None]
  /\ Goto(Reader(s), "idle")
  /\ UNCHANGED <<sockets, sock, rest, update, targets, updates>>

(* A Close frame: socket_map stays locked until unsubscribe_all is done.   *)
Close(s) ==
  /\ pc[Reader(s)] = "idle" /\ map_writer = None /\ ~MapRead
  /\ socket_map' = socket_map \ {s}
  /\ map_writer' = s
  /\ Goto(Reader(s), "all")
  /\ UNCHANGED <<maps, receiving, sock, rest, asked, update, targets, updates, history>>

CloseEnds(s) ==
  /\ pc[Reader(s)] = "closing"
  /\ map_writer' = None
  /\ Goto(Reader(s), "closed")
  /\ UNCHANGED <<maps, socket_map, receiving, sock, rest, asked, update, targets, updates, history>>

(* The stream ends or fails, or handling a request panics, which it may    *)
(* also do while it asks a collector or a validator for the account: the   *)
(* reader ends and leaves the maps as they are.                            *)
Break(s) ==
  /\ pc[Reader(s)] \in {"idle", "set"}
  /\ asked' = [asked EXCEPT ![s] = None]
  /\ Goto(Reader(s), "gone")
  /\ UNCHANGED <<maps, sockets, sock, rest, update, targets, updates, history>>

-----------------------------------------------------------------------------
(* The heartbeat of a socket, and the end of handle_stream. *)

Timeout(s) ==
  /\ pc[Heart(s)] = "idle"
  /\ Goto(Heart(s), "all")
  /\ UNCHANGED <<maps, sockets, sock, rest, asked, update, targets, updates, history>>

(* A ping cannot be sent: the heartbeat stops, nothing is unsubscribed. *)
PingFails(s) ==
  /\ pc[Heart(s)] = "idle"
  /\ Goto(Heart(s), "stopped")
  /\ UNCHANGED <<maps, sockets, sock, rest, asked, update, targets, updates, history>>

(* The receiving loop ends, when no sender is left or a write fails, and   *)
(* aborts the heartbeat, wherever that is.                                 *)
HandleStreamEnds(s) ==
  /\ s \in receiving
  /\ receiving' = receiving \ {s}
  /\ pc' = [pc EXCEPT ![Heart(s)] = IF @ = "dropped" THEN @ ELSE "stopped"]
  /\ rest' = [rest EXCEPT ![Heart(s)] = {}]
  /\ UNCHANGED <<maps, socket_map, map_writer, sock, asked, update, targets, updates, history>>

-----------------------------------------------------------------------------
(* unsubscribe_all, run by any of the three kinds of tasks: the accounts   *)
(* are copied under the read lock, then removed one by one.                *)

(* The task goes on: a reader gives the lock back, a heartbeat has dropped *)
(* its socket, a callback turns to the next target.                        *)
Return(t) ==
  \/ /\ \E s \in Sockets : t = Reader(s)
     /\ Goto(t, "closing")
  \/ /\ \E s \in Sockets : t = Heart(s)
     /\ Goto(t, "dropped")
  \/ \E u \in Callbacks :
       t = Callback(u) /\ Goto(t, IF targets[u] = {} THEN "idle" ELSE "send")

(* The entry is unwrapped: a socket without one ends the task there.       *)
UnsubscribeAll_Unwraps(t) ==
  /\ pc[t] = "all" /\ sock[t] \in DOMAIN accounts_by_sock
  /\ rest' = [rest EXCEPT ![t] = accounts_by_sock[sock[t]]]
  /\ Goto(t, "allNext")
  /\ UNCHANGED <<maps, sockets, sock, asked, update, targets, updates, history>>

UnsubscribeAll(t) ==
  /\ pc[t] = "all"
  /\ IF sock[t] \in DOMAIN accounts_by_sock
     THEN /\ rest' = [rest EXCEPT ![t] = accounts_by_sock[sock[t]]]
          /\ Goto(t, "allNext")
     ELSE Return(t) /\ UNCHANGED rest
  /\ UNCHANGED <<maps, sockets, sock, asked, update, targets, updates, history>>

(* Only the first account is removed. *)
UnsubscribeNext_First(t) ==
  /\ pc[t] = "allNext"
  /\ \E a \in rest[t] :
       /\ remove_states(a, sock[t])
       /\ rest' = [rest EXCEPT ![t] = {}]
  /\ Return(t)
  /\ UNCHANGED <<sockets, sock, asked, update, targets, updates>>

UnsubscribeNext(t) ==
  /\ pc[t] = "allNext"
  /\ \E a \in rest[t] :
       /\ remove_states(a, sock[t])
       /\ rest' = [rest EXCEPT ![t] = @ \ {a}]
  /\ IF rest'[t] = {} THEN Return(t) ELSE UNCHANGED pc
  /\ UNCHANGED <<sockets, sock, asked, update, targets, updates>>

-----------------------------------------------------------------------------
(* listen_account_update_callback.  An update of an account that nobody    *)
(* subscribes to is dropped and changes nothing.                           *)

Receive(u, a, ts) ==
  /\ pc[Callback(u)] = "idle" /\ updates < MaxUpdates
  /\ a \in DOMAIN socks_by_account
  /\ update' = [update EXCEPT ![u] = [account |-> a, timestamp |-> ts]]
  /\ adrift' = [adrift EXCEPT ![u] = FALSE]
  /\ updates' = updates + 1
  /\ Goto(Callback(u), "stamp")
  /\ UNCHANGED <<maps, sockets, sock, rest, asked, targets, notified>>

(* An update that is as old as the last one passes. *)
Newer_OrEqual(a, ts) == ts >= (IF a \in DOMAIN last_received THEN last_received[a] ELSE 0)

(* An account forgotten since counts as 0 and is not entered again.        *)
Newer(a, ts) == ts > (IF a \in DOMAIN last_received THEN last_received[a] ELSE 0)

(* The timestamp is entered without looking whether the account is there.  *)
Stamp_Inserts(u) ==
  LET a == update[u].account
      ts == update[u].timestamp
  IN
  /\ pc[Callback(u)] = "stamp"
  /\ IF Newer(a, ts)
     THEN /\ last_received' = Put(last_received, a, ts)
          /\ adrift' = [adrift EXCEPT ![u] = FALSE]
          /\ Goto(Callback(u), "targets")
     ELSE Goto(Callback(u), "idle") /\ UNCHANGED <<last_received, adrift>>
  /\ UNCHANGED <<accounts_by_sock, socks_by_account, sockets, sock, rest, asked,
                 update, targets, updates, notified>>

Stamp(u) ==
  LET a == update[u].account
      ts == update[u].timestamp
  IN
  /\ pc[Callback(u)] = "stamp"
  /\ IF Newer(a, ts)
     THEN /\ last_received' = IF a \in DOMAIN last_received
                              THEN [last_received EXCEPT ![a] = ts] ELSE last_received
          /\ adrift' = [adrift EXCEPT ![u] = a \notin DOMAIN last_received]
          /\ Goto(Callback(u), "targets")
     ELSE Goto(Callback(u), "idle") /\ UNCHANGED <<last_received, adrift>>
  /\ UNCHANGED <<accounts_by_sock, socks_by_account, sockets, sock, rest, asked,
                 update, targets, updates, notified>>

TakeTargets(u) ==
  LET found == SetAt(socks_by_account, update[u].account) IN
  /\ pc[Callback(u)] = "targets"
  /\ targets' = [targets EXCEPT ![u] = found]
  /\ Goto(Callback(u), IF found = {} THEN "idle" ELSE "send")
  /\ UNCHANGED <<maps, sockets, sock, rest, asked, update, updates, history>>

Reaches(s) == s \in socket_map \cap receiving

Notice(u, s) ==
  [sock |-> s, account |-> update[u].account, timestamp |-> update[u].timestamp]

(* A socket without a sender, or whose receiver is gone, is unsubscribed.  *)
Send(u, s) ==
  /\ pc[Callback(u)] = "send" /\ s \in targets[u] /\ map_writer = None
  /\ targets' = [targets EXCEPT ![u] = @ \ {s}]
  /\ IF Reaches(s)
     THEN /\ notified' = IF adrift[u] THEN notified ELSE notified \cup {Notice(u, s)}
          /\ Goto(Callback(u), IF targets[u] = {s} THEN "idle" ELSE "send")
          /\ UNCHANGED sock
     ELSE /\ sock' = [sock EXCEPT ![Callback(u)] = s]
          /\ Goto(Callback(u), "all")
          /\ UNCHANGED notified
  /\ UNCHANGED <<maps, sockets, rest, asked, update, updates, adrift>>

-----------------------------------------------------------------------------
NoUpdate == [account |-> None, timestamp |-> 0]

Init ==
  /\ accounts_by_sock = [s \in {} |-> {}]
  /\ socks_by_account = [a \in {} |-> {}]
  /\ last_received = [a \in {} |-> 0]
  /\ socket_map = {} /\ receiving = {} /\ map_writer = None
  /\ pc = [t \in Tasks |-> IF t[1] = "reader" THEN "new"
                           ELSE IF t[1] = "heart" THEN "stopped" ELSE "idle"]
  /\ sock = [t \in Tasks |-> IF t[1] = "callback" THEN None ELSE t[2]]
  /\ rest = [t \in Tasks |-> {}]
  /\ asked = [s \in Sockets |-> None]
  /\ update = [u \in Callbacks |-> NoUpdate]
  /\ targets = [u \in Callbacks |-> {}]
  /\ updates = 0
  /\ adrift = [u \in Callbacks |-> FALSE]
  /\ notified = {}

ReaderStep(s) ==
  \/ \E a \in Accounts : Subscribe(s, a) \/ Unsubscribe(s, a)
  \/ Connect(s) \/ SetStates(s) \/ Remove(s)
  \/ Close(s) \/ CloseEnds(s) \/ Break(s)

HeartStep(s) == Timeout(s) \/ PingFails(s) \/ HandleStreamEnds(s)

CallbackStep(u) ==
  \/ \E a \in Accounts, ts \in Times : Receive(u, a, ts)
  \/ Stamp(u) \/ TakeTargets(u)
  \/ \E s \in Sockets : Send(u, s)

Next ==
  \/ \E s \in Sockets : ReaderStep(s) \/ HeartStep(s)
  \/ \E u \in Callbacks : CallbackStep(u)
  \/ \E t \in Tasks : UnsubscribeAll(t) \/ UnsubscribeNext(t)

Spec == Init /\ [][Next]_vars

(* The runtime polls every task that can go on: what has been started is   *)
(* carried on, though no client, update or timeout need ever come.  Asking *)
(* for an account has no time-out (collector.rs 169, liberdus.rs 608), so  *)
(* SetStates need not come either.                                         *)
Progress ==
  /\ \A s \in Sockets : WF_vars(Remove(s)) /\ WF_vars(CloseEnds(s))
  /\ \A u \in Callbacks :
       /\ WF_vars(Stamp(u)) /\ WF_vars(TakeTargets(u))
       /\ WF_vars(\E s \in Sockets : Send(u, s))
  /\ \A t \in Tasks : WF_vars(UnsubscribeAll(t)) /\ WF_vars(UnsubscribeNext(t))

FairSpec == Spec /\ Progress

-----------------------------------------------------------------------------
(* Properties *)

Labels == {"new", "idle", "set", "remove", "all", "allNext", "closing", "closed", "gone",
           "stopped", "dropped", "stamp", "targets", "send"}

IsMap(m, keys, values) == DOMAIN m \subseteq keys /\ m \in [DOMAIN m -> values]

TypeOK ==
  /\ IsMap(accounts_by_sock, Sockets, SUBSET Accounts)
  /\ IsMap(socks_by_account, Accounts, SUBSET Sockets)
  /\ IsMap(last_received, Accounts, Times)
  /\ socket_map \subseteq Sockets /\ receiving \subseteq Sockets
  /\ map_writer \in Sockets \cup {None}
  /\ pc \in [Tasks -> Labels]
  /\ sock \in [Tasks -> Sockets \cup {None}]
  /\ rest \in [Tasks -> SUBSET Accounts]
  /\ asked \in [Sockets -> Accounts \cup {None}]
  /\ update \in [Callbacks -> [account : Accounts \cup {None}, timestamp : Times]]
  /\ targets \in [Callbacks -> SUBSET Sockets]
  /\ updates \in 0..MaxUpdates
  /\ adrift \in [Callbacks -> BOOLEAN]
  /\ notified \in SUBSET [sock : Sockets, account : Accounts, timestamp : Times]

(* The three maps agree whatever callers interleave: they hold the same    *)
(* subscriptions, no empty set, and a timestamp for exactly the accounts   *)
(* that have a subscriber (subscription.rs 68-113, 264-280).               *)
MapsAgree ==
  /\ \A s \in Sockets, a \in Accounts :
       a \in SetAt(accounts_by_sock, s) <=> s \in SetAt(socks_by_account, a)
  /\ \A s \in DOMAIN accounts_by_sock : accounts_by_sock[s] # {}
  /\ \A a \in DOMAIN socks_by_account : socks_by_account[a] # {}
  /\ DOMAIN last_received = DOMAIN socks_by_account

(* A socket that closed has no sender and no subscription, then and ever   *)
(* after: its reader adds none any more and no other task does (ws.rs      *)
(* 230-239, tests 427-428 and 478-482).                                    *)
ForgottenOnClose ==
  \A s \in Sockets : pc[Reader(s)] = "closed" =>
    s \notin socket_map /\ s \notin DOMAIN accounts_by_sock

(* While an account keeps a subscriber, no socket is notified twice of one *)
(* timestamp, even if updates are repeated and their callbacks interleave  *)
(* (subscription.rs 264-280 drops what is not newer).                      *)
NotifiedOnce ==
  [][\A u \in Callbacks, s \in Sockets :
       pc[Callback(u)] = "send" /\ s \in targets[u] /\ s \notin targets'[u] /\ Reaches(s)
         => adrift[u] \/ Notice(u, s) \notin notified]_vars

(* The locks deadlock nobody: an unsubscribe, a close, a heartbeat's       *)
(* cleanup and a callback, once begun, come to their end, even while       *)
(* subscribers wait for ever for an account (nothing is locked meanwhile). *)
Settles ==
  \A t \in Tasks :
    pc[t] \in {"remove", "all", "allNext", "closing", "stamp", "targets", "send"}
      ~> pc[t] \in {"idle", "closed", "stopped", "dropped"}

(* The manager is a registry: one relation, its newest timestamps, and     *)
(* sockets that leave.                                                     *)
Pairs == {p \in Sockets \X Accounts : p[1] \in SetAt(socks_by_account, p[2])}

Closed == {s \in Sockets : pc[Reader(s)] = "closed"}

Registry == INSTANCE SubscriptionRegistry WITH
  subscribed <- Pairs, newest <- last_received, left <- Closed

ImplementsRegistry == Registry!Spec

(* Why these hold: the parts of the inductive invariant.                   *)

TaskData ==
  /\ \A s \in Sockets :
       /\ sock[Reader(s)] = s /\ sock[Heart(s)] = s
       /\ pc[Reader(s)] \in {"set", "remove"} => asked[s] \in Accounts
  /\ \A u \in Callbacks :
       pc[Callback(u)] \in {"stamp", "targets", "send", "all", "allNext"} =>
         update[u].account \in Accounts

(* What a closing reader has left to remove. *)
Closing ==
  \A s \in Sockets :
    /\ pc[Reader(s)] \in {"all", "allNext", "closing", "closed"} => s \notin socket_map
    /\ pc[Reader(s)] = "allNext" => SetAt(accounts_by_sock, s) \subseteq rest[Reader(s)]
    /\ pc[Reader(s)] \in {"closing", "closed"} => s \notin DOMAIN accounts_by_sock

(* A callback whose timestamp has been entered and not been forgotten.     *)
Carries(u) ==
  pc[Callback(u)] \in {"targets", "send", "all", "allNext"} /\ ~adrift[u]

Entered(a, ts) == a \in DOMAIN last_received /\ ts <= last_received[a]

(* Carried timestamps of an account differ, and a callback carries none    *)
(* that a socket it has still to notify has been notified of.              *)
Once ==
  /\ \A n \in notified : Entered(n.account, n.timestamp)
  /\ \A u \in Callbacks : Carries(u) =>
       /\ Entered(update[u].account, update[u].timestamp)
       /\ \A v \in Callbacks : v # u /\ Carries(v) => update[u] # update[v]
       /\ \A n \in notified :
            n.account = update[u].account /\ n.timestamp = update[u].timestamp
              => pc[Callback(u)] # "targets" /\ n.sock \notin targets[u]

Inv == TypeOK /\ MapsAgree /\ TaskData /\ Closing /\ Once

(* What the sources say and the code does not keep.                        *)

(* subscription.rs 129-131: unsubscribe_all removes the socket from every  *)
(* account and from the maps.  Once it has done so for a heartbeat that    *)
(* timed out, and the reader is done too, the socket has no subscription.  *)
TimeoutUnsubscribes ==
  \A s \in Sockets :
    pc[Heart(s)] = "dropped" /\ pc[Reader(s)] = "gone" => s \notin DOMAIN accounts_by_sock
=============================================================================
