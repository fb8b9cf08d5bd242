------------------------------ MODULE NodePool ------------------------------
(***************************************************************************)
(* The consensor pool of src/src/liberdus.rs: the list of validators that  *)
(* the refresh task of main.rs fetches from the archivers, and the load    *)
(* balancer that hands a validator to every request: round robin after a   *)
(* refresh, then a random choice weighted by the measured round trips.     *)
(*                                                                         *)
(* The pool is five shared cells, each read and written by itself: the     *)
(* ArcSwap'ed list, two maps behind RwLocks and two atomics.  Nothing      *)
(* holds two of them together, so every read and every write that another  *)
(* task can see is an action of its own.                                   *)
(***************************************************************************)
EXTENDS Integers, Sequences, FiniteSets, SequencesExt

CONSTANTS
  Nodes,          \* the ids of validators
  None,           \* "no validator", "not measured", "no bias"
  Senders,        \* tasks that run Liberdus::send
  Lookups,        \* tasks that run Liberdus::get_account_by_address
  ArchiverLists,  \* the node lists an archiver may answer, in join order
  MaxRefreshes,   \* bound: the refreshes that bring a list
  Filtering,      \* config.node_filtering: [enabled, min, top, bottom]
  MaxTimeout,     \* config.max_http_timeout_ms
  RTTs,           \* the round trips that may be measured, in the same unit
  MaxInserts,     \* bound: the inserts into trip_ms outstanding
  Attempts,       \* how often send asks the pool: max_retry + 2, 4 in the code
  IndexCap        \* where the model stops counting the round-robin index

Tasks == Senders \cup Lookups

(* The order in which a list is kept does not matter to the index beyond   *)
(* its length: counting past IndexCap, longer than every list, would tell  *)
(* nothing new.                                                            *)
ASSUME NodePoolAssumption ==
  /\ None \notin Nodes /\ None \notin Int
  /\ ArchiverLists \subseteq Seq(Nodes)
  /\ MaxRefreshes \in Nat
  /\ Filtering \in [enabled : BOOLEAN, min : Nat, top : Nat, bottom : Nat]
  /\ MaxTimeout \in Nat \ {0}
  /\ RTTs \subseteq Nat /\ RTTs # {}
  /\ Attempts \in Nat \ {0} /\ MaxInserts \in Nat \ {0}
  /\ IndexCap \in Nat
  /\ \A l \in ArchiverLists : Len(l) < IndexCap

VARIABLES
  nodelist,       \* active_nodelist: a sequence of [id, rng_bias]
  weights,        \* load_distribution_commulative_bias, by its increments
  trips,          \* trip_ms: the round trip of each node, None if absent
  rr,             \* round_robin_index
  prepared,       \* list_prepared
  upc,            \* where the refresh task stands in update_active_nodelist
  refreshes,      \* the lists stored so far
  serving,        \* main.rs has seen a list and opened its listeners
  pc,             \* where each request task stands
  list,           \* the list a request task holds
  num,            \* the length or the index it has read
  tries,          \* the attempts it has left
  chosen,         \* the validator it was handed
  inserts,        \* spawned trip_ms inserts that have not run yet
  fresh,          \* history: the validators of the last list stored by a refresh
  raced           \* history: a refresh and a list pass met (see Holding)

pool == <<nodelist, weights, trips, rr, prepared>>
refresh == <<upc, refreshes, serving>>
locals == <<list, num, tries, chosen>>
vars == <<pool, refresh, pc, locals, inserts, fresh, raced>>

-----------------------------------------------------------------------------
(* Lists *)

Unbiased(ids) == [i \in DOMAIN ids |-> [id |-> ids[i], rng_bias |-> None]]

IdsOf(entries) == {entries[i].id : i \in DOMAIN entries}

(* A seeded bug, as every definition with an underscore suffix: the oldest *)
(* are dropped even when nothing else is left.                             *)
FilterNodes_DropsLast(ids) ==
  IF Filtering.enabled /\ Len(ids) > Filtering.min
  THEN LET keep == IF Len(ids) > Filtering.bottom THEN Len(ids) - Filtering.bottom ELSE 0
       IN  SubSeq(ids, Filtering.top + 1, keep)
  ELSE ids

(* The join-order filter: drop the youngest `bottom` nodes, then the       *)
(* oldest `top`, of a list longer than `min`.                              *)
FilterNodes(ids) ==
  IF Filtering.enabled /\ Len(ids) > Filtering.min
  THEN LET keep == IF Len(ids) > Filtering.bottom THEN Len(ids) - Filtering.bottom ELSE 0
           first == IF Filtering.top > 0 /\ keep > Filtering.top THEN Filtering.top + 1 ELSE 1
       IN  SubSeq(ids, first, keep)
  ELSE ids

(* The round trip prepare_list ranks a node by. *)
TripOf(n) == IF trips[n] = None THEN MaxTimeout ELSE trips[n]

(* calculate_bias, scaled by MaxTimeout to stay in the integers: the code's*)
(* 1 - t / max becomes max - t, and is as negative when t > max.           *)
calculate_bias(t) == IF MaxTimeout = 1 THEN 1 ELSE MaxTimeout - t

(* The biases a list can give its nodes, one not measured ranking as slow  *)
(* as a call may be.                                                       *)
Biases == {calculate_bias(t) : t \in RTTs \cup {MaxTimeout}}

Entries == [id : Nodes, rng_bias : Biases \cup {None}]

(* The ways to order n entries. *)
Orders(n) == {p \in [1..n -> 1..n] : \A j \in 1..n : \E i \in 1..n : p[i] = j}

(* p is the stable order of `entries` by round trip: sort_by is stable. *)
SortsByTrip(p, entries) ==
  \A i, j \in DOMAIN entries : i < j =>
    LET a == TripOf(entries[p[i]].id)
        b == TripOf(entries[p[j]].id)
    IN  a < b \/ (a = b /\ p[i] < p[j])

(* Only the measured nodes are ranked and stored. *)
Ranked_Measured(p, entries) ==
  LET measured == SelectSeq([i \in DOMAIN entries |-> entries[p[i]].id],
                            LAMBDA n : trips[n] # None)
  IN  [i \in DOMAIN measured |->
        [id |-> measured[i], rng_bias |-> calculate_bias(TripOf(measured[i]))]]

Ranked(p, entries) ==
  [i \in DOMAIN entries |->
    LET n == entries[p[i]].id IN [id |-> n, rng_bias |-> calculate_bias(TripOf(n))]]

(* The cumulative vector the code stores, entry by entry. *)
Cumulative(w, i) == FoldLeft(LAMBDA a, b : a + b, 0, SubSeq(w, 1, i))

(* The entry after the interval. *)
Reachable_PastInterval(w) ==
  {i + 1 : i \in {j \in DOMAIN w : w[j] > 0 /\ Cumulative(w, j - 1) < Cumulative(w, Len(w))}}

(* The indices binary_search can return for a random value in [0, total):  *)
(* an interval of such values ends at the entry.                           *)
Reachable(w) ==
  {i \in DOMAIN w : /\ w[i] > 0
                    /\ Cumulative(w, i - 1) < Cumulative(w, Len(w))}

-----------------------------------------------------------------------------
(* The refresh task: main.rs calls update_active_nodelist from one ticker  *)
(* loop, one call at a time.                                               *)

(* Steps of a list pass between reading active_nodelist and the last use   *)
(* of what was read: prepare_list up to its flag, and a weighted pick up   *)
(* to its read of the weights.                                             *)
Holding == {"loadTrips", "storeList", "storeWeights", "setPrepared", "loadWeights"}

(* `raced` records that the list was replaced under a pass that holds the  *)
(* old one, or that a pass took the new list while the weights of the old  *)
(* one were still in place.  A refresh that meets no pass clears it.       *)

(* The new list is added to the old one. *)
StoreNodelist_Merges ==
  /\ upc = "idle" /\ refreshes < MaxRefreshes
  /\ \E l \in ArchiverLists :
       /\ nodelist' = Unbiased(FilterNodes(l)) \o nodelist
       /\ fresh' = IdsOf(Unbiased(FilterNodes(l)))
  /\ raced' = (\E t \in Tasks : pc[t] \in Holding)
  /\ refreshes' = refreshes + 1
  /\ upc' = "clearWeights"
  /\ UNCHANGED <<weights, trips, rr, prepared, serving, pc, locals, inserts>>

(* Fetching touches nothing of the pool, and a refresh that no archiver    *)
(* answers changes nothing, so a refresh starts with its first store.      *)
StoreNodelist ==
  /\ upc = "idle" /\ refreshes < MaxRefreshes
  /\ \E l \in ArchiverLists :
       /\ nodelist' = Unbiased(FilterNodes(l))
       /\ fresh' = IdsOf(Unbiased(FilterNodes(l)))
  /\ raced' = (\E t \in Tasks : pc[t] \in Holding)
  /\ refreshes' = refreshes + 1
  /\ upc' = "clearWeights"
  /\ UNCHANGED <<weights, trips, rr, prepared, serving, pc, locals, inserts>>

ClearWeights ==
  /\ upc = "clearWeights"
  /\ weights' = <<>>
  /\ upc' = "clearTrips"
  /\ UNCHANGED <<nodelist, trips, rr, prepared, refreshes, serving,
                 pc, locals, inserts, fresh, raced>>

ClearTrips ==
  /\ upc = "clearTrips"
  /\ trips' = [n \in Nodes |-> None]
  /\ upc' = "resetIndex"
  /\ UNCHANGED <<nodelist, weights, rr, prepared, refreshes, serving,
                 pc, locals, inserts, fresh, raced>>

ResetIndex ==
  /\ upc = "resetIndex"
  /\ rr' = 0
  /\ upc' = "clearPrepared"
  /\ UNCHANGED <<nodelist, weights, trips, prepared, refreshes, serving,
                 pc, locals, inserts, fresh, raced>>

(* The flag outlives the weights it vouches for. *)
ClearPrepared_Forgotten ==
  /\ upc = "clearPrepared"
  /\ upc' = "idle"
  /\ UNCHANGED <<pool, refreshes, serving, pc, locals, inserts, fresh, raced>>

ClearPrepared ==
  /\ upc = "clearPrepared"
  /\ prepared' = FALSE
  /\ upc' = "idle"
  /\ UNCHANGED <<nodelist, weights, trips, rr, refreshes, serving,
                 pc, locals, inserts, fresh, raced>>

(* The start-up loop of main.rs: no request before the first list. *)
OpenListeners ==
  /\ ~serving /\ nodelist # <<>>
  /\ serving' = TRUE
  /\ UNCHANGED <<upc, refreshes, pool, pc, locals, inserts, fresh, raced>>

Refresh ==
  \/ StoreNodelist \/ ClearWeights \/ ClearTrips \/ ResetIndex \/ ClearPrepared
  \/ OpenListeners

-----------------------------------------------------------------------------
(* A request task. *)

Goto(t, label) == pc' = [pc EXCEPT ![t] = label]

(* One attempt too many. *)
Miss_OneMore(t) ==
  /\ tries' = [tries EXCEPT ![t] = @ - 1]
  /\ Goto(t, IF tries[t] >= 0 THEN "check" ELSE "unserved")

(* One attempt found no validator: with_retry tries again, and gives up    *)
(* after its last attempt.                                                 *)
Miss(t) ==
  IF tries[t] > 0
  THEN Goto(t, "check") /\ tries' = [tries EXCEPT ![t] = @ - 1]
  ELSE Goto(t, "unserved") /\ UNCHANGED tries

(* An account lookup asks the pool only once. *)
Begin(t) ==
  /\ pc[t] = "idle" /\ serving
  /\ Goto(t, "check")
  /\ tries' = [tries EXCEPT ![t] = IF t \in Lookups THEN 0 ELSE Attempts - 1]
  /\ UNCHANGED <<pool, refresh, list, num, chosen, inserts, fresh, raced>>

CheckEmpty(t) ==
  /\ pc[t] = "check"
  /\ IF nodelist = <<>> THEN Miss(t) ELSE Goto(t, "gate") /\ UNCHANGED tries
  /\ UNCHANGED <<pool, refresh, list, num, chosen, inserts, fresh, raced>>

GatePrepared(t) ==
  /\ pc[t] = "gate"
  /\ Goto(t, IF prepared THEN "gateWeights" ELSE "index")
  /\ UNCHANGED <<pool, refresh, locals, inserts, fresh, raced>>

GateWeights(t) ==
  /\ pc[t] = "gateWeights"
  /\ num' = [num EXCEPT ![t] = Len(weights)]
  /\ Goto(t, "gateLength")
  /\ UNCHANGED <<pool, refresh, list, tries, chosen, inserts, fresh, raced>>

GateLength(t) ==
  /\ pc[t] = "gateLength"
  /\ Goto(t, IF num[t] = Len(nodelist) THEN "pick" ELSE "index")
  /\ num' = [num EXCEPT ![t] = 0]
  /\ UNCHANGED <<pool, refresh, list, tries, chosen, inserts, fresh, raced>>

(* round_robin_index.fetch_add(1) *)
TakeIndex(t) ==
  /\ pc[t] = "index"
  /\ num' = [num EXCEPT ![t] = rr]
  /\ rr' = IF rr < IndexCap THEN rr + 1 ELSE rr
  /\ Goto(t, "select")
  /\ UNCHANGED <<nodelist, weights, trips, prepared, refresh, list, tries, chosen,
                 inserts, fresh, raced>>

Select(t) ==
  /\ pc[t] = "select"
  /\ IF num[t] < Len(nodelist)
     THEN /\ chosen' = [chosen EXCEPT ![t] = nodelist[num[t] + 1].id]
          /\ Goto(t, "forward")
     ELSE Goto(t, "prepare") /\ UNCHANGED chosen
  /\ num' = [num EXCEPT ![t] = 0]
  /\ UNCHANGED <<pool, refresh, list, tries, inserts, fresh, raced>>

(* prepare_list: a pass that finds the list prepared does nothing. *)
CheckPrepared(t) ==
  /\ pc[t] = "prepare"
  /\ Goto(t, IF prepared THEN "pick" ELSE "loadList")
  /\ UNCHANGED <<pool, refresh, locals, inserts, fresh, raced>>

(* A pass that takes the new list before ClearWeights has removed the      *)
(* weights of the old one.                                                 *)
TakesListEarly == raced' = (raced \/ upc = "clearWeights")

PrepareLoadList(t) ==
  /\ pc[t] = "loadList"
  /\ list' = [list EXCEPT ![t] = nodelist]
  /\ TakesListEarly
  /\ Goto(t, "loadTrips")
  /\ UNCHANGED <<pool, refresh, num, tries, chosen, inserts, fresh>>

(* Reads trip_ms, then sorts and weighs its own copy of the list. *)
PrepareLoadTrips(t) ==
  /\ pc[t] = "loadTrips"
  /\ \E p \in Orders(Len(list[t])) :
       /\ SortsByTrip(p, list[t])
       /\ list' = [list EXCEPT ![t] = Ranked(p, @)]
  /\ Goto(t, "storeList")
  /\ UNCHANGED <<pool, refresh, num, tries, chosen, inserts, fresh, raced>>

PrepareStoreList(t) ==
  /\ pc[t] = "storeList"
  /\ nodelist' = list[t]
  /\ Goto(t, "storeWeights")
  /\ UNCHANGED <<weights, trips, rr, prepared, refresh, locals, inserts, fresh, raced>>

PrepareStoreWeights(t) ==
  /\ pc[t] = "storeWeights"
  /\ weights' = [i \in DOMAIN list[t] |-> list[t][i].rng_bias]
  /\ list' = [list EXCEPT ![t] = <<>>]
  /\ Goto(t, "setPrepared")
  /\ UNCHANGED <<nodelist, trips, rr, prepared, refresh, num, tries, chosen,
                 inserts, fresh, raced>>

PrepareSetFlag(t) ==
  /\ pc[t] = "setPrepared"
  /\ prepared' = TRUE
  /\ Goto(t, "pick")
  /\ UNCHANGED <<nodelist, weights, trips, rr, refresh, locals, inserts, fresh, raced>>

(* get_random_consensor_biased *)
PickCheck(t) ==
  /\ pc[t] = "pick"
  /\ IF prepared THEN Goto(t, "pickList") /\ UNCHANGED tries ELSE Miss(t)
  /\ UNCHANGED <<pool, refresh, list, num, chosen, inserts, fresh, raced>>

PickLoadList(t) ==
  /\ pc[t] = "pickList"
  /\ list' = [list EXCEPT ![t] = nodelist]
  /\ TakesListEarly
  /\ Goto(t, "loadWeights")
  /\ UNCHANGED <<pool, refresh, num, tries, chosen, inserts, fresh>>

Total == Cumulative(weights, Len(weights))

PickMisses(t) ==
  /\ list[t] = <<>> \/ weights = <<>>
  /\ Miss(t)
  /\ UNCHANGED chosen

(* No weight at all: any node, and the round robin starts over. *)
PickUnweighted(t) ==
  /\ list[t] # <<>> /\ weights # <<>> /\ Total = 0
  /\ \E i \in DOMAIN list[t] : chosen' = [chosen EXCEPT ![t] = list[t][i].id]
  /\ Goto(t, "restartIndex")
  /\ UNCHANGED tries

(* gen_range(0.0..total) panics on an empty range. *)
PickFromEmptyRange(t) ==
  /\ list[t] # <<>> /\ weights # <<>> /\ Total < 0
  /\ Goto(t, "rangePanic")
  /\ UNCHANGED <<tries, chosen>>

(* nodes[index] panics when the weights are longer than the list. *)
PickWeighted(t) ==
  /\ list[t] # <<>> /\ weights # <<>> /\ Total > 0
  /\ \E i \in Reachable(weights) :
       IF i \in DOMAIN list[t]
       THEN /\ chosen' = [chosen EXCEPT ![t] = list[t][i].id]
            /\ Goto(t, "forward")
       ELSE Goto(t, "indexPanic") /\ UNCHANGED chosen
  /\ UNCHANGED tries

PickLoadWeights(t) ==
  /\ pc[t] = "loadWeights"
  /\ \/ PickMisses(t) \/ PickUnweighted(t)
     \/ PickFromEmptyRange(t) \/ PickWeighted(t)
  /\ list' = [list EXCEPT ![t] = <<>>]
  /\ UNCHANGED <<pool, refresh, num, inserts, fresh, raced>>

RestartIndex(t) ==
  /\ pc[t] = "restartIndex"
  /\ rr' = 0
  /\ Goto(t, "restartPrepared")
  /\ UNCHANGED <<nodelist, weights, trips, prepared, refresh, locals, inserts, fresh, raced>>

RestartPrepared(t) ==
  /\ pc[t] = "restartPrepared"
  /\ prepared' = FALSE
  /\ Goto(t, "forward")
  /\ UNCHANGED <<nodelist, weights, trips, rr, refresh, locals, inserts, fresh, raced>>

(* The call to the validator ends after r: a failed connection, write or   *)
(* read counts as MaxTimeout, an answer as the time it took.  The measure  *)
(* is dropped if the list is prepared, else a spawned task inserts it.     *)
Forward(t) ==
  /\ pc[t] = "forward"
  /\ IF t \in Lookups \/ prepared
     THEN UNCHANGED inserts
     ELSE \E r \in RTTs :
            /\ Cardinality(inserts) < MaxInserts
            /\ inserts' = inserts \cup {[id |-> chosen[t], trip |-> r]}
  /\ chosen' = [chosen EXCEPT ![t] = None]
  /\ tries' = [tries EXCEPT ![t] = 0]
  /\ Goto(t, "idle")
  /\ UNCHANGED <<pool, refresh, list, num, fresh, raced>>

InsertTrip(i) ==
  /\ trips' = [trips EXCEPT ![i.id] = i.trip]
  /\ inserts' = inserts \ {i}
  /\ UNCHANGED <<nodelist, weights, rr, prepared, refresh, pc, locals, fresh, raced>>

(* "No consensors available after 3 retries" *)
Refuse(t) ==
  /\ pc[t] = "unserved"
  /\ Goto(t, "idle")
  /\ UNCHANGED <<pool, refresh, locals, inserts, fresh, raced>>

(* A panic ends the task of its connection; a new one takes its place. *)
Reconnect(t) ==
  /\ pc[t] \in {"indexPanic", "rangePanic"}
  /\ tries' = [tries EXCEPT ![t] = 0]
  /\ Goto(t, "idle")
  /\ UNCHANGED <<pool, refresh, list, num, chosen, inserts, fresh, raced>>

Request(t) ==
  \/ Begin(t) \/ CheckEmpty(t) \/ GatePrepared(t) \/ GateWeights(t) \/ GateLength(t)
  \/ TakeIndex(t) \/ Select(t)
  \/ CheckPrepared(t) \/ PrepareLoadList(t) \/ PrepareLoadTrips(t)
  \/ PrepareStoreList(t) \/ PrepareStoreWeights(t) \/ PrepareSetFlag(t)
  \/ PickCheck(t) \/ PickLoadList(t) \/ PickLoadWeights(t)
  \/ RestartIndex(t) \/ RestartPrepared(t)
  \/ Forward(t) \/ Refuse(t) \/ Reconnect(t)

-----------------------------------------------------------------------------
Init ==
  /\ nodelist = <<>>
  /\ weights = <<>>
  /\ trips = [n \in Nodes |-> None]
  /\ rr = 0
  /\ prepared = FALSE
  /\ upc = "idle" /\ refreshes = 0
  /\ serving = FALSE
  /\ pc = [t \in Tasks |-> "idle"]
  /\ list = [t \in Tasks |-> <<>>]
  /\ num = [t \in Tasks |-> 0]
  /\ tries = [t \in Tasks |-> 0]
  /\ chosen = [t \in Tasks |-> None]
  /\ inserts = {}
  /\ fresh = {}
  /\ raced = FALSE

Next ==
  \/ Refresh
  \/ \E t \in Tasks : Request(t)
  \/ \E i \in inserts : InsertTrip(i)

Spec == Init /\ [][Next]_vars

-----------------------------------------------------------------------------
(* Properties *)

Labels ==
  {"idle", "check", "gate", "gateWeights", "gateLength", "index", "select", "prepare",
   "loadList", "pick", "pickList", "restartIndex", "restartPrepared", "forward",
   "unserved", "indexPanic", "rangePanic"} \cup Holding

TypeOK ==
  /\ nodelist \in Seq(Entries)
  /\ weights \in Seq(Biases)
  /\ trips \in [Nodes -> RTTs \cup {None}]
  /\ rr \in Nat /\ prepared \in BOOLEAN
  /\ upc \in {"idle", "clearWeights", "clearTrips", "resetIndex", "clearPrepared"}
  /\ refreshes \in 0..MaxRefreshes
  /\ serving \in BOOLEAN
  /\ pc \in [Tasks -> Labels]
  /\ list \in [Tasks -> Seq(Entries)]
  /\ num \in [Tasks -> Nat]
  /\ tries \in [Tasks -> Nat]
  /\ chosen \in [Tasks -> Nodes \cup {None}]
  /\ inserts \in SUBSET [id : Nodes, trip : RTTs]
  /\ fresh \in SUBSET Nodes
  /\ raced \in BOOLEAN

(* Between refreshes a prepared pool has one weight per listed validator,  *)
(* as get_next_appropriate_consensor expects before it trusts the weights  *)
(* (liberdus.rs 389-401), unless a refresh and a list pass raced.  When it *)
(* does not hold and the weights are empty, every request after one round  *)
(* robin fails until the next refresh.                                     *)
WeightsFitList ==
  ~raced /\ prepared /\ upc = "idle" => Len(weights) = Len(nodelist)

(* The pool lists exactly the validators of the last refresh, however many *)
(* tasks re-sort and re-store it, unless a pass of prepare_list that read  *)
(* the previous list was under way at the refresh (liberdus.rs 154, 323).  *)
ListIsFresh == ~raced => IdsOf(nodelist) = fresh

(* A request is handed a validator of the list current at that moment.     *)
HandsOutFresh ==
  [][\A t \in Tasks :
       chosen[t] = None /\ chosen'[t] # None /\ ~raced => chosen'[t] \in fresh]_vars

(* nodes[index] is out of range (liberdus.rs 375) only in a pool that a    *)
(* race has left with more weights than validators.                        *)
IndexPanicOnlyRaced ==
  [][\A t \in Tasks : pc[t] = "loadWeights" /\ pc'[t] = "indexPanic" => raced]_vars

(* A pool that has validators never loses them all, whatever the filter    *)
(* drops and whichever stale list a late pass stores, as long as archivers *)
(* answer some (liberdus.rs 130-151).                                      *)
NeverEmptied == [][nodelist # <<>> => nodelist' # <<>>]_nodelist

(* Why WeightsFitList and ListIsFresh hold: what an unspoiled pool and the *)
(* tasks that hold a copy of its list have in common.                      *)
HoldsFreshCopy(t) ==
  /\ pc[t] \in {"loadTrips", "storeList", "loadWeights"} => IdsOf(list[t]) = fresh
  /\ pc[t] \in {"loadTrips", "storeList", "storeWeights", "loadWeights"} =>
       Len(list[t]) = Len(nodelist)
  /\ pc[t] = "setPrepared" => Len(weights) = Len(nodelist)

Unspoiled ==
  /\ IdsOf(nodelist) = fresh
  /\ upc = "clearWeights" => \A t \in Tasks : pc[t] \notin Holding
  /\ upc # "clearWeights" => weights = <<>> \/ Len(weights) = Len(nodelist)
  /\ upc = "idle" /\ prepared => Len(weights) = Len(nodelist)
  /\ \A t \in Tasks : HoldsFreshCopy(t)

TaskData(t) ==
  /\ pc[t] \in {"forward", "restartIndex", "restartPrepared"} => chosen[t] \in Nodes
  /\ pc[t] \in {"storeList", "storeWeights"} =>
       \A i \in DOMAIN list[t] : list[t][i].rng_bias \in Biases

(* The inductive invariant of the proofs. *)
Inv ==
  /\ TypeOK
  /\ \A t \in Tasks : TaskData(t)
  /\ ~raced => Unspoiled

(* What the sources say of the pool and the code does not keep.            *)

(* liberdus.rs 288: the weights are recalculated whenever the list is      *)
(* updated.  A pool at rest must not be prepared with no weights: then     *)
(* prepare_list refuses to work and every pick misses.                     *)
PreparedPoolHasWeights ==
  upc = "idle" /\ prepared /\ (\A t \in Tasks : pc[t] = "idle") => weights # <<>>

(* liberdus.rs 192 and 249: a bias is between 0 and 1, here MaxTimeout.    *)
BiasIsNormalised == \A i \in DOMAIN weights : weights[i] \in 0..MaxTimeout
=============================================================================
