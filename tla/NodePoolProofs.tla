--------------------------- MODULE NodePoolProofs ---------------------------
(* Proofs about NodePool: the type invariant, the conditions under which   *)
(* the list and the weights of the pool belong together, and what the      *)
(* join-order filter leaves, for every set of tasks, validators and lists. *)
EXTENDS NodePool, Induction

-----------------------------------------------------------------------------
(* Lists *)

(* A list that is not empty keeps a validator if the filter spares lists   *)
(* no longer than what it drops from the young end.                        *)
THEOREM FilterKeepsNodes ==
  ASSUME NEW ids \in Seq(Nodes), ids # <<>>, Filtering.min >= Filtering.bottom
  PROVE  FilterNodes(ids) # <<>>
<1>1. Len(ids) \in Nat /\ Len(ids) > 0
  OBVIOUS
<1>2. /\ Filtering.min \in Nat /\ Filtering.bottom \in Nat /\ Filtering.top \in Nat
  BY NodePoolAssumption
<1>3. CASE Filtering.enabled /\ Len(ids) > Filtering.min
  <2> DEFINE keep == IF Len(ids) > Filtering.bottom THEN Len(ids) - Filtering.bottom ELSE 0
             first == IF Filtering.top > 0 /\ keep > Filtering.top THEN Filtering.top + 1 ELSE 1
  <2>1. keep \in 1..Len(ids) /\ first \in 1..keep
    BY <1>1, <1>2, <1>3
  <2>2. Len(SubSeq(ids, first, keep)) = keep - first + 1
    BY <2>1
  <2>3. FilterNodes(ids) = SubSeq(ids, first, keep)
    BY <1>3 DEF FilterNodes
  <2> QED
    BY <2>1, <2>2, <2>3
<1>4. CASE ~(Filtering.enabled /\ Len(ids) > Filtering.min)
  BY <1>4 DEF FilterNodes
<1> QED
  BY <1>3, <1>4

LEMMA FilterType ==
  ASSUME NEW ids \in Seq(Nodes)
  PROVE  FilterNodes(ids) \in Seq(Nodes)
<1> DEFINE keep == IF Len(ids) > Filtering.bottom THEN Len(ids) - Filtering.bottom ELSE 0
           first == IF Filtering.top > 0 /\ keep > Filtering.top THEN Filtering.top + 1 ELSE 1
<1>1. /\ Filtering.min \in Nat /\ Filtering.bottom \in Nat /\ Filtering.top \in Nat
  BY NodePoolAssumption
<1>2. keep \in 0..Len(ids) /\ first \in Nat /\ first >= 1
  BY <1>1
<1>3. SubSeq(ids, first, keep) \in Seq(Nodes)
  BY <1>2
<1> QED
  BY <1>3 DEF FilterNodes

LEMMA UnbiasedType ==
  ASSUME NEW ids \in Seq(Nodes)
  PROVE  Unbiased(ids) \in Seq(Entries)
<1>1. \A i \in 1..Len(ids) : [id |-> ids[i], rng_bias |-> None] \in Entries
  BY DEF Entries
<1>2. Unbiased(ids) = [i \in 1..Len(ids) |-> [id |-> ids[i], rng_bias |-> None]]
  BY DEF Unbiased
<1> QED
  BY <1>1, <1>2

LEMMA EntryType ==
  ASSUME NEW s \in Seq(Entries)
  PROVE  /\ \A i \in DOMAIN s : s[i].id \in Nodes
         /\ IdsOf(s) \subseteq Nodes
<1>1. \A i \in DOMAIN s : s[i] \in Entries
  OBVIOUS
<1>2. \A e \in Entries : e.id \in Nodes
  BY DEF Entries
<1> QED
  BY <1>1, <1>2 DEF IdsOf

LEMMA BiasType ==
  /\ Biases \subseteq Int
  /\ (\A r \in RTTs : r <= MaxTimeout) => \A b \in Biases : b >= 0
BY NodePoolAssumption DEF Biases, calculate_bias

LEMMA TripType ==
  ASSUME TypeOK, NEW n \in Nodes
  PROVE  TripOf(n) \in Nat /\ calculate_bias(TripOf(n)) \in Biases
<1>1. trips[n] \in RTTs \cup {None}
  BY DEF TypeOK
<1>2. TripOf(n) \in RTTs \cup {MaxTimeout}
  BY <1>1 DEF TripOf
<1>3. RTTs \subseteq Nat /\ MaxTimeout \in Nat
  BY NodePoolAssumption
<1>4. TripOf(n) \in Nat
  BY <1>2, <1>3
<1>5. calculate_bias(TripOf(n)) \in Biases
  BY <1>2 DEF Biases
<1> QED
  BY <1>4, <1>5

(* Ranking reorders a list and gives every entry a bias. *)
LEMMA RankedList ==
  ASSUME TypeOK, NEW entries \in Seq(Entries), NEW p \in Orders(Len(entries))
  PROVE  /\ Ranked(p, entries) \in Seq(Entries)
         /\ Len(Ranked(p, entries)) = Len(entries)
         /\ DOMAIN Ranked(p, entries) = DOMAIN entries
         /\ IdsOf(Ranked(p, entries)) = IdsOf(entries)
         /\ \A i \in DOMAIN entries : Ranked(p, entries)[i].rng_bias \in Biases
<1> DEFINE r == Ranked(p, entries)
           n == Len(entries)
<1>1. n \in Nat /\ DOMAIN entries = 1..n
  OBVIOUS
<1>2. p \in [1..n -> 1..n] /\ \A j \in 1..n : \E i \in 1..n : p[i] = j
  BY DEF Orders
<1>3. \A i \in 1..n : entries[p[i]] \in Entries /\ entries[p[i]].id \in Nodes
  <2>1. \A j \in 1..n : entries[j] \in Entries /\ entries[j].id \in Nodes
    BY <1>1, EntryType
  <2> QED
    BY <1>2, <2>1
<1>4. r = [i \in 1..n |-> [id |-> entries[p[i]].id,
                           rng_bias |-> calculate_bias(TripOf(entries[p[i]].id))]]
  BY <1>1 DEF Ranked
<1>5. \A i \in 1..n : /\ r[i].id = entries[p[i]].id
                      /\ r[i].rng_bias \in Biases
                      /\ r[i] \in Entries
  BY <1>3, <1>4, TripType DEF Entries
<1>6. r \in Seq(Entries) /\ Len(r) = n /\ DOMAIN r = 1..n
  BY <1>1, <1>4, <1>5
<1>7. IdsOf(r) = IdsOf(entries)
  <2>1. ASSUME NEW i \in 1..n
        PROVE  r[i].id \in IdsOf(entries)
    BY <1>1, <1>2, <1>5 DEF IdsOf
  <2>2. ASSUME NEW j \in 1..n
        PROVE  entries[j].id \in IdsOf(r)
    <3>1. PICK i \in 1..n : p[i] = j
      BY <1>2
    <3> QED
      BY <3>1, <1>5, <1>6 DEF IdsOf
  <2> QED
    BY <2>1, <2>2, <1>1, <1>6 DEF IdsOf
<1> QED
  BY <1>1, <1>5, <1>6, <1>7

(* A pass always finds an order: sort_by (liberdus.rs 307) can rank every  *)
(* list by the round trips, so no pass of prepare_list is stuck there.     *)
THEOREM PassHasOrder ==
  ASSUME TypeOK, NEW entries \in Seq(Entries)
  PROVE  \E p \in Orders(Len(entries)) : SortsByTrip(p, entries)
<1> DEFINE n == Len(entries)
           key == [i \in 1..n |-> TripOf(entries[i].id)]
<1>1. n \in Nat /\ DOMAIN entries = 1..n
  OBVIOUS
<1>2. \A i \in 1..n : key[i] \in Int
  <2>1. \A i \in 1..n : entries[i].id \in Nodes
    BY <1>1, EntryType
  <2>2. \A d \in Nodes : TripOf(d) \in Int
    BY TripType
  <2> QED
    BY <2>1, <2>2
<1>3. PICK p : Arranges(p, n) /\ Ordered(p, n, key)
  <2> HIDE DEF key
  <2> QED
    BY <1>1, <1>2, StableOrder
<1>4. p \in Orders(n) /\ \A i \in 1..n : p[i] \in 1..n
  BY <1>3 DEF Arranges, Orders
<1>5. ASSUME NEW i \in 1..n, NEW j \in 1..n, i < j
      PROVE  LET a == TripOf(entries[p[i]].id)
                 b == TripOf(entries[p[j]].id)
             IN  a < b \/ (a = b /\ p[i] < p[j])
  <2>1. Precedes(key, p[i], p[j])
    BY <1>3, <1>5 DEF Ordered
  <2> QED
    BY <1>4, <2>1 DEF Precedes
<1> QED
  BY <1>1, <1>4, <1>5 DEF SortsByTrip

-----------------------------------------------------------------------------
(* Types *)

LEMMA InitTypes == Init => TypeOK /\ \A t \in Tasks : TaskData(t)
<1> SUFFICES ASSUME Init PROVE TypeOK /\ \A t \in Tasks : TaskData(t)
  OBVIOUS
<1>1. nodelist \in Seq(Entries) /\ weights \in Seq(Biases) /\ list \in [Tasks -> Seq(Entries)]
  BY DEF Init
<1>2. refreshes \in 0..MaxRefreshes
  BY NodePoolAssumption DEF Init
<1>3. pc \in [Tasks -> Labels] /\ \A t \in Tasks : pc[t] = "idle"
  BY DEF Init, Labels
<1>4. TypeOK
  BY <1>1, <1>2, <1>3 DEF Init, TypeOK
<1> QED
  BY <1>3, <1>4 DEF TaskData

LEMMA RefreshTypes ==
  ASSUME TypeOK, \A t \in Tasks : TaskData(t), Refresh
  PROVE  TypeOK' /\ \A t \in Tasks : TaskData(t)'
<1>1. CASE StoreNodelist
  <2>1. PICK l \in ArchiverLists : /\ nodelist' = Unbiased(FilterNodes(l))
                                   /\ fresh' = IdsOf(Unbiased(FilterNodes(l)))
    BY <1>1 DEF StoreNodelist
  <2>2. nodelist' \in Seq(Entries)
    BY <2>1, NodePoolAssumption, FilterType, UnbiasedType
  <2>3. fresh' \in SUBSET Nodes
    BY <2>1, <2>2, EntryType
  <2>4. refreshes' \in 0..MaxRefreshes
    BY <1>1, NodePoolAssumption DEF StoreNodelist, TypeOK
  <2> QED
    BY <1>1, <2>2, <2>3, <2>4 DEF StoreNodelist, TypeOK, TaskData, locals
<1>2. CASE ClearWeights
  BY <1>2 DEF ClearWeights, TypeOK, TaskData, pool, locals
<1>3. CASE ClearTrips
  BY <1>3 DEF ClearTrips, TypeOK, TaskData, pool, locals
<1>4. CASE ResetIndex
  BY <1>4 DEF ResetIndex, TypeOK, TaskData, pool, locals
<1>5. CASE ClearPrepared
  BY <1>5 DEF ClearPrepared, TypeOK, TaskData, pool, locals
<1>6. CASE OpenListeners
  BY <1>6 DEF OpenListeners, TypeOK, TaskData, pool, locals
<1> QED
  BY <1>1, <1>2, <1>3, <1>4, <1>5, <1>6 DEF Refresh

LEMMA MissTypes ==
  ASSUME TypeOK, NEW r \in Tasks, Miss(r)
  PROVE  /\ tries' \in [Tasks -> Nat]
         /\ \E l \in {"check", "unserved"} : pc' = [pc EXCEPT ![r] = l]
<1>1. tries \in [Tasks -> Nat]
  BY DEF TypeOK
<1>2. CASE tries[r] > 0
  BY <1>1, <1>2 DEF Miss, Goto
<1>3. CASE ~(tries[r] > 0)
  BY <1>1, <1>3 DEF Miss, Goto
<1> QED
  BY <1>2, <1>3

LEMMA RequestTypes ==
  ASSUME TypeOK, \A t \in Tasks : TaskData(t), NEW r \in Tasks, Request(r)
  PROVE  TypeOK' /\ \A t \in Tasks : TaskData(t)'
<1> USE DEF TypeOK, TaskData, Labels, Holding, Goto, pool, refresh, locals
<1>1. CASE Begin(r)
  BY <1>1, NodePoolAssumption DEF Begin
<1>2. CASE CheckEmpty(r)
  <2>1. CASE nodelist = <<>>
    BY <1>2, <2>1, MissTypes DEF CheckEmpty
  <2>2. CASE nodelist # <<>>
    BY <1>2, <2>2 DEF CheckEmpty
  <2> QED
    BY <2>1, <2>2
<1>3. CASE GatePrepared(r)
  BY <1>3 DEF GatePrepared
<1>4. CASE GateWeights(r)
  BY <1>4 DEF GateWeights
<1>5. CASE GateLength(r)
  BY <1>5 DEF GateLength
<1>6. CASE TakeIndex(r)
  BY <1>6 DEF TakeIndex
<1>7. CASE Select(r)
  <2>1. CASE num[r] < Len(nodelist)
    <3>1. nodelist[num[r] + 1].id \in Nodes
      BY <2>1, EntryType
    <3> QED
      BY <1>7, <2>1, <3>1 DEF Select
  <2>2. CASE ~(num[r] < Len(nodelist))
    BY <1>7, <2>2 DEF Select
  <2> QED
    BY <2>1, <2>2
<1>8. CASE CheckPrepared(r)
  BY <1>8 DEF CheckPrepared
<1>9. CASE PrepareLoadList(r)
  BY <1>9 DEF PrepareLoadList, TakesListEarly
<1>10. CASE PrepareLoadTrips(r)
  <2>1. PICK p \in Orders(Len(list[r])) : list' = [list EXCEPT ![r] = Ranked(p, @)]
    BY <1>10 DEF PrepareLoadTrips
  <2>2. /\ Ranked(p, list[r]) \in Seq(Entries)
        /\ \A i \in DOMAIN Ranked(p, list[r]) : Ranked(p, list[r])[i].rng_bias \in Biases
    BY RankedList
  <2> QED
    BY <1>10, <2>1, <2>2 DEF PrepareLoadTrips
<1>11. CASE PrepareStoreList(r)
  BY <1>11 DEF PrepareStoreList
<1>12. CASE PrepareStoreWeights(r)
  <2>1. \A i \in 1..Len(list[r]) : list[r][i].rng_bias \in Biases
    BY <1>12 DEF PrepareStoreWeights
  <2>2. weights' = [i \in 1..Len(list[r]) |-> list[r][i].rng_bias]
    BY <1>12 DEF PrepareStoreWeights
  <2>3. weights' \in Seq(Biases)
    BY <2>1, <2>2
  <2> QED
    BY <1>12, <2>3 DEF PrepareStoreWeights
<1>13. CASE PrepareSetFlag(r)
  BY <1>13 DEF PrepareSetFlag
<1>14. CASE PickCheck(r)
  <2>1. CASE prepared
    BY <1>14, <2>1 DEF PickCheck
  <2>2. CASE ~prepared
    BY <1>14, <2>2, MissTypes DEF PickCheck
  <2> QED
    BY <2>1, <2>2
<1>15. CASE PickLoadList(r)
  BY <1>15 DEF PickLoadList, TakesListEarly
<1>16. CASE PickLoadWeights(r)
  <2>1. \A i \in DOMAIN list[r] : list[r][i].id \in Nodes
    BY EntryType
  <2>2. list' \in [Tasks -> Seq(Entries)]
    BY <1>16 DEF PickLoadWeights
  <2>3. CASE PickMisses(r)
    <3>1. Miss(r) /\ chosen' = chosen
      BY <2>3 DEF PickMisses
    <3>2. tries' \in [Tasks -> Nat]
      BY <3>1, MissTypes
    <3>3. PICK l \in {"check", "unserved"} : pc' = [pc EXCEPT ![r] = l]
      BY <3>1, MissTypes
    <3> QED
      BY <1>16, <2>2, <3>1, <3>2, <3>3 DEF PickLoadWeights
  <2>4. CASE PickUnweighted(r)
    BY <1>16, <2>1, <2>2, <2>4 DEF PickLoadWeights, PickUnweighted
  <2>5. CASE PickFromEmptyRange(r)
    BY <1>16, <2>2, <2>5 DEF PickLoadWeights, PickFromEmptyRange
  <2>6. CASE PickWeighted(r)
    BY <1>16, <2>1, <2>2, <2>6 DEF PickLoadWeights, PickWeighted
  <2> QED
    BY <1>16, <2>3, <2>4, <2>5, <2>6 DEF PickLoadWeights
<1>17. CASE RestartIndex(r)
  BY <1>17 DEF RestartIndex
<1>18. CASE RestartPrepared(r)
  BY <1>18 DEF RestartPrepared
<1>19. CASE Forward(r)
  BY <1>19 DEF Forward
<1>20. CASE Refuse(r)
  BY <1>20 DEF Refuse
<1>21. CASE Reconnect(r)
  BY <1>21 DEF Reconnect
<1> QED
  BY <1>1, <1>2, <1>3, <1>4, <1>5, <1>6, <1>7, <1>8, <1>9, <1>10, <1>11, <1>12, <1>13, <1>14, <1>15, <1>16, <1>17, <1>18, <1>19, <1>20, <1>21 DEF Request

LEMMA NextTypes ==
  ASSUME TypeOK, \A t \in Tasks : TaskData(t), [Next]_vars
  PROVE  TypeOK' /\ \A t \in Tasks : TaskData(t)'
<1>1. CASE Refresh
  BY <1>1, RefreshTypes
<1>2. ASSUME NEW r \in Tasks, Request(r)
      PROVE  TypeOK' /\ \A t \in Tasks : TaskData(t)'
  BY <1>2, RequestTypes
<1>3. ASSUME NEW i \in inserts, InsertTrip(i)
      PROVE  TypeOK' /\ \A t \in Tasks : TaskData(t)'
  <2>1. i.id \in Nodes /\ i.trip \in RTTs
    BY DEF TypeOK
  <2>2. trips' \in [Nodes -> RTTs \cup {None}]
    BY <1>3, <2>1 DEF InsertTrip, TypeOK
  <2> QED
    BY <1>3, <2>2 DEF InsertTrip, TypeOK, TaskData, refresh, locals
<1>4. CASE UNCHANGED vars
  BY <1>4 DEF vars, pool, refresh, locals, TypeOK, TaskData
<1> QED
  BY <1>1, <1>2, <1>3, <1>4 DEF Next

(* Every variable keeps its type, and what a task carries from one step to *)
(* the next is what the next step needs.                                   *)
THEOREM TypeCorrect == Spec => [](TypeOK /\ \A t \in Tasks : TaskData(t))
<1> DEFINE Types == TypeOK /\ \A t \in Tasks : TaskData(t)
<1>1. Init => Types
  BY InitTypes
<1>2. Types /\ [Next]_vars => Types'
  BY NextTypes
<1> QED
  BY <1>1, <1>2, PTL DEF Spec

-----------------------------------------------------------------------------
(* The pool unless a refresh and a list pass race *)

LEMMA RefreshUnspoiled ==
  ASSUME Inv, Refresh, ~raced'
  PROVE  Unspoiled'
<1> USE DEF Unspoiled, HoldsFreshCopy, Holding
<1>1. CASE StoreNodelist
  <2>1. \A t \in Tasks : pc[t] \notin Holding /\ pc'[t] = pc[t]
    BY <1>1 DEF StoreNodelist
  <2>2. IdsOf(nodelist') = fresh'
    BY <1>1 DEF StoreNodelist
  <2> QED
    BY <1>1, <2>1, <2>2 DEF StoreNodelist
<1>2. CASE ClearWeights
  BY <1>2 DEF ClearWeights, Inv, pool, locals
<1>3. CASE ClearTrips
  BY <1>3 DEF ClearTrips, Inv, pool, locals
<1>4. CASE ResetIndex
  BY <1>4 DEF ResetIndex, Inv, pool, locals
<1>5. CASE ClearPrepared
  BY <1>5 DEF ClearPrepared, Inv, pool, locals
<1>6. CASE OpenListeners
  BY <1>6 DEF OpenListeners, Inv, pool, locals
<1> QED
  BY <1>1, <1>2, <1>3, <1>4, <1>5, <1>6 DEF Refresh

(* A step that changes neither the pool's list, weights and flag nor what  *)
(* a task holds, and brings no task to hold a copy.                        *)
LEMMA QuietRequestUnspoiled ==
  ASSUME Inv, ~raced, NEW r \in Tasks, NEW l \in Labels \ Holding,
         pc' = [pc EXCEPT ![r] = l],
         \A t \in Tasks : t # r => list'[t] = list[t],
         UNCHANGED <<nodelist, weights, upc, fresh, raced>>,
         prepared' => prepared
  PROVE  Unspoiled'
BY DEF Inv, TypeOK, Unspoiled, HoldsFreshCopy, Holding

LEMMA RequestUnspoiled ==
  ASSUME Inv, NEW r \in Tasks, Request(r), ~raced'
  PROVE  Unspoiled'
<1>1. TypeOK /\ TaskData(r)
  BY DEF Inv
<1>2. ~raced
  BY DEF Request, Begin, CheckEmpty, GatePrepared, GateWeights, GateLength, TakeIndex, Select,
         CheckPrepared, PrepareLoadList, PrepareLoadTrips, PrepareStoreList, PrepareStoreWeights,
         PrepareSetFlag, PickCheck, PickLoadList, PickLoadWeights, RestartIndex, RestartPrepared,
         Forward, Refuse, Reconnect, TakesListEarly
<1>3. Unspoiled
  BY <1>2 DEF Inv
<1> USE DEF Goto, pool, refresh, locals, Labels, Holding
<1>4. CASE Begin(r)
  BY <1>1, <1>2, <1>4, QuietRequestUnspoiled DEF Begin
<1>5. CASE GatePrepared(r)
  BY <1>1, <1>2, <1>5, QuietRequestUnspoiled DEF GatePrepared
<1>6. CASE GateWeights(r)
  BY <1>1, <1>2, <1>6, QuietRequestUnspoiled DEF GateWeights
<1>7. CASE GateLength(r)
  BY <1>1, <1>2, <1>7, QuietRequestUnspoiled DEF GateLength
<1>8. CASE TakeIndex(r)
  BY <1>1, <1>2, <1>8, QuietRequestUnspoiled DEF TakeIndex
<1>9. CASE Select(r)
  BY <1>1, <1>2, <1>9, QuietRequestUnspoiled DEF Select
<1>10. CASE CheckPrepared(r)
  BY <1>1, <1>2, <1>10, QuietRequestUnspoiled DEF CheckPrepared
<1>11. CASE RestartIndex(r)
  BY <1>1, <1>2, <1>11, QuietRequestUnspoiled DEF RestartIndex
<1>12. CASE RestartPrepared(r)
  BY <1>1, <1>2, <1>12, QuietRequestUnspoiled DEF RestartPrepared
<1>13. CASE Forward(r)
  BY <1>1, <1>2, <1>13, QuietRequestUnspoiled DEF Forward
<1>14. CASE Refuse(r)
  BY <1>1, <1>2, <1>14, QuietRequestUnspoiled DEF Refuse
<1>15. CASE Reconnect(r)
  BY <1>1, <1>2, <1>15, QuietRequestUnspoiled DEF Reconnect
<1>16. CASE CheckEmpty(r)
  <2>1. CASE nodelist = <<>>
    BY <1>1, <1>2, <1>16, <2>1, MissTypes, QuietRequestUnspoiled DEF CheckEmpty
  <2>2. CASE ~(nodelist = <<>>)
    BY <1>1, <1>2, <1>16, <2>2, QuietRequestUnspoiled DEF CheckEmpty
  <2> QED
    BY <2>1, <2>2
<1>17. CASE PickCheck(r)
  <2>1. CASE ~prepared
    BY <1>1, <1>2, <1>17, <2>1, MissTypes, QuietRequestUnspoiled DEF PickCheck
  <2>2. CASE ~(~prepared)
    BY <1>1, <1>2, <1>17, <2>2, QuietRequestUnspoiled DEF PickCheck
  <2> QED
    BY <2>1, <2>2
<1>18. CASE PrepareLoadList(r)
  BY <1>1, <1>2, <1>3, <1>18 DEF PrepareLoadList, Unspoiled, HoldsFreshCopy, TypeOK, TakesListEarly
<1>19. CASE PrepareStoreList(r)
  BY <1>1, <1>2, <1>3, <1>19 DEF PrepareStoreList, Unspoiled, HoldsFreshCopy, TypeOK
<1>20. CASE PrepareSetFlag(r)
  BY <1>1, <1>2, <1>3, <1>20 DEF PrepareSetFlag, Unspoiled, HoldsFreshCopy, TypeOK
<1>21. CASE PickLoadList(r)
  BY <1>1, <1>2, <1>3, <1>21 DEF PickLoadList, Unspoiled, HoldsFreshCopy, TypeOK, TakesListEarly
<1>22. CASE PrepareLoadTrips(r)
  <2>1. PICK p \in Orders(Len(list[r])) : list' = [list EXCEPT ![r] = Ranked(p, @)]
    BY <1>22 DEF PrepareLoadTrips
  <2>2. list[r] \in Seq(Entries)
    BY <1>1 DEF TypeOK
  <2>3. /\ Len(Ranked(p, list[r])) = Len(list[r])
        /\ IdsOf(Ranked(p, list[r])) = IdsOf(list[r])
    BY <1>1, <2>2, RankedList
  <2> QED
    BY <1>1, <1>2, <1>3, <1>22, <2>1, <2>3
    DEF PrepareLoadTrips, Unspoiled, HoldsFreshCopy, TypeOK
<1>23. CASE PrepareStoreWeights(r)
  <2>1. Len(weights') = Len(list[r])
    BY <1>1, <1>23 DEF PrepareStoreWeights, TypeOK
  <2> QED
    BY <1>1, <1>2, <1>3, <1>23, <2>1
    DEF PrepareStoreWeights, Unspoiled, HoldsFreshCopy, TypeOK
<1>24. CASE PickLoadWeights(r)
  <2>1. \E l \in {"check", "unserved", "restartIndex", "rangePanic", "forward", "indexPanic"} :
           pc' = [pc EXCEPT ![r] = l]
    BY <1>1, <1>24, MissTypes
    DEF PickLoadWeights, PickMisses, PickUnweighted, PickFromEmptyRange, PickWeighted
  <2> QED
    BY <1>1, <1>2, <1>24, <2>1, QuietRequestUnspoiled DEF PickLoadWeights, TypeOK
<1> QED
  BY <1>4, <1>5, <1>6, <1>7, <1>8, <1>9, <1>10, <1>11, <1>12, <1>13, <1>14, <1>15, <1>16, <1>17, <1>18, <1>19, <1>20, <1>21, <1>22, <1>23, <1>24 DEF Request

LEMMA NextInv ==
  ASSUME Inv, [Next]_vars
  PROVE  Inv'
<1>1. TypeOK' /\ \A t \in Tasks : TaskData(t)'
  BY NextTypes DEF Inv
<1>2. ASSUME ~raced' PROVE Unspoiled'
  <2>1. CASE Refresh
    BY <1>2, <2>1, RefreshUnspoiled
  <2>2. ASSUME NEW r \in Tasks, Request(r) PROVE Unspoiled'
    BY <1>2, <2>2, RequestUnspoiled
  <2>3. ASSUME NEW i \in inserts, InsertTrip(i) PROVE Unspoiled'
    BY <1>2, <2>3
    DEF InsertTrip, refresh, locals, Inv, Unspoiled, HoldsFreshCopy
  <2>4. CASE UNCHANGED vars
    BY <1>2, <2>4 DEF vars, pool, refresh, locals, Inv, Unspoiled, HoldsFreshCopy
  <2> QED
    BY <2>1, <2>2, <2>3, <2>4 DEF Next
<1> QED
  BY <1>1, <1>2 DEF Inv

LEMMA InitInv == Init => Inv
<1> SUFFICES ASSUME Init PROVE Inv
  OBVIOUS
<1>1. TypeOK /\ \A t \in Tasks : TaskData(t)
  BY InitTypes
<1>2. Unspoiled
  BY DEF Init, Unspoiled, HoldsFreshCopy, Holding, IdsOf
<1> QED
  BY <1>1, <1>2 DEF Inv

(* The inductive invariant holds in every reachable state of the pool.     *)
THEOREM Invariance == Spec => []Inv
<1> QED
  BY InitInv, NextInv, PTL DEF Spec

(* Unless a refresh and a list pass raced, a prepared pool at rest has one *)
(* weight for each listed validator.                                       *)
THEOREM WeightsFit == Spec => []WeightsFitList
<1>1. Inv => WeightsFitList
  BY DEF Inv, Unspoiled, WeightsFitList
<1> QED
  BY <1>1, Invariance, PTL

(* Unless a refresh and a list pass raced, the pool lists the validators   *)
(* of the last refresh and no others.                                      *)
THEOREM Fresh == Spec => []ListIsFresh
<1>1. Inv => ListIsFresh
  BY DEF Inv, Unspoiled, ListIsFresh
<1> QED
  BY <1>1, Invariance, PTL

(* The index that a weighted pick draws lies in its copy of the list,      *)
(* unless a refresh and a list pass raced.                                 *)
THEOREM IndexInRange == Spec => IndexPanicOnlyRaced
<1>1. ASSUME Inv, [Next]_vars, NEW t \in Tasks,
             pc[t] = "loadWeights", pc'[t] = "indexPanic"
      PROVE  raced
  <2>1. CASE Refresh
    BY <1>1, <2>1 DEF Refresh, StoreNodelist, ClearWeights, ClearTrips, ResetIndex,
                      ClearPrepared, OpenListeners
  <2>2. ASSUME NEW r \in Tasks, Request(r), r # t
        PROVE  raced
    <3>1. pc'[t] = pc[t]
      BY <1>1, <2>2
      DEF Inv, TypeOK, Request, Begin, CheckEmpty, GatePrepared, GateWeights, GateLength,
          TakeIndex, Select, CheckPrepared, PrepareLoadList, PrepareLoadTrips,
          PrepareStoreList, PrepareStoreWeights, PrepareSetFlag, PickCheck, PickLoadList,
          PickLoadWeights, PickMisses, PickUnweighted, PickFromEmptyRange, PickWeighted,
          RestartIndex, RestartPrepared, Forward, Refuse, Reconnect, Miss, Goto
    <3> QED
      BY <1>1, <3>1
  <2>3. CASE Request(t)
    <3>1. PickLoadWeights(t)
      BY <1>1, <2>3
      DEF Request, Begin, CheckEmpty, GatePrepared, GateWeights, GateLength,
          TakeIndex, Select, CheckPrepared, PrepareLoadList, PrepareLoadTrips,
          PrepareStoreList, PrepareStoreWeights, PrepareSetFlag, PickCheck, PickLoadList,
          RestartIndex, RestartPrepared, Forward, Refuse, Reconnect
    <3>2. PickWeighted(t)
      <4>1. pc \in [Tasks -> Labels]
        BY <1>1 DEF Inv, TypeOK
      <4> QED
        BY <1>1, <3>1, <4>1
        DEF PickLoadWeights, PickMisses, PickUnweighted, PickFromEmptyRange, Miss, Goto
    <3>3. PICK i \in Reachable(weights) : i \notin DOMAIN list[t]
      BY <1>1, <3>2 DEF PickWeighted, Inv, TypeOK, Goto
    <3>4. i \in DOMAIN weights /\ weights \in Seq(Biases) /\ list[t] \in Seq(Entries)
      BY <1>1, <3>3 DEF Reachable, Inv, TypeOK
    <3>5. weights # <<>> /\ Len(weights) # Len(list[t])
      BY <3>3, <3>4
    <3> QED
      BY <1>1, <3>5 DEF Inv, Unspoiled, HoldsFreshCopy, Holding
  <2>4. ASSUME NEW i \in inserts, InsertTrip(i) PROVE raced
    BY <1>1, <2>4 DEF InsertTrip
  <2>5. CASE UNCHANGED vars
    BY <1>1, <2>5 DEF vars
  <2> QED
    BY <1>1, <2>1, <2>2, <2>3, <2>4, <2>5 DEF Next
<1>2. Inv /\ [Next]_vars =>
        [\A t \in Tasks : pc[t] = "loadWeights" /\ pc'[t] = "indexPanic" => raced]_vars
  BY <1>1
<1> QED
  BY <1>2, Invariance, PTL DEF Spec, IndexPanicOnlyRaced

(* What a request is handed is listed by the last refresh, unless a        *)
(* refresh and a list pass raced.                                          *)
THEOREM HandsOut == Spec => HandsOutFresh
<1>1. ASSUME Inv, [Next]_vars, NEW t \in Tasks,
             chosen[t] = None, chosen'[t] # None, ~raced
      PROVE  chosen'[t] \in fresh
  <2> USE DEF pool, refresh, locals
  <2>1. CASE Refresh
    BY <1>1, <2>1 DEF Refresh, StoreNodelist, ClearWeights, ClearTrips, ResetIndex,
                      ClearPrepared, OpenListeners
  <2>2. ASSUME NEW r \in Tasks, Request(r) PROVE chosen'[t] \in fresh
    <3>1. chosen \in [Tasks -> Nodes \cup {None}]
      BY <1>1 DEF Inv, TypeOK
    <3>2. \/ Select(r) \/ PickLoadWeights(r) \/ UNCHANGED chosen
          \/ chosen' = [chosen EXCEPT ![r] = None]
      BY <2>2
      DEF Request, Begin, CheckEmpty, GatePrepared, GateWeights, GateLength,
          TakeIndex, CheckPrepared, PrepareLoadList, PrepareLoadTrips,
          PrepareStoreList, PrepareStoreWeights, PrepareSetFlag, PickCheck, PickLoadList,
          RestartIndex, RestartPrepared, Forward, Refuse, Reconnect
    <3>3. CASE Select(r)
      <4>1. num[r] + 1 \in DOMAIN nodelist /\ chosen' = [chosen EXCEPT ![r] = nodelist[num[r] + 1].id]
        BY <1>1, <3>1, <3>3 DEF Select, Inv, TypeOK
      <4> QED
        BY <1>1, <3>1, <4>1 DEF Inv, Unspoiled, IdsOf
    <3>4. CASE PickLoadWeights(r)
      <4>1. PICK i \in DOMAIN list[r] : chosen' = [chosen EXCEPT ![r] = list[r][i].id]
        BY <1>1, <3>1, <3>4
        DEF PickLoadWeights, PickMisses, PickUnweighted, PickFromEmptyRange, PickWeighted
      <4>2. IdsOf(list[r]) = fresh
        BY <1>1, <3>4 DEF Inv, Unspoiled, HoldsFreshCopy, PickLoadWeights
      <4> QED
        BY <1>1, <3>1, <4>1, <4>2 DEF IdsOf
    <3> QED
      BY <1>1, <3>1, <3>2, <3>3, <3>4
  <2>3. ASSUME NEW i \in inserts, InsertTrip(i) PROVE chosen'[t] \in fresh
    BY <1>1, <2>3 DEF InsertTrip
  <2>4. CASE UNCHANGED vars
    BY <1>1, <2>4 DEF vars
  <2> QED
    BY <1>1, <2>1, <2>2, <2>3, <2>4 DEF Next
<1>2. Inv /\ [Next]_vars =>
        [\A t \in Tasks :
           chosen[t] = None /\ chosen'[t] # None /\ ~raced => chosen'[t] \in fresh]_vars
  BY <1>1
<1> QED
  BY <1>2, Invariance, PTL DEF Spec, HandsOutFresh

-----------------------------------------------------------------------------
(* The pool does not run empty *)

(* Listeners open on a pool that lists someone; so requests, and the list  *)
(* copies they store, only ever meet lists that are not empty.             *)
Nonempty ==
  /\ serving => nodelist # <<>>
  /\ \A t \in Tasks : pc[t] # "idle" => serving
  /\ \A t \in Tasks : pc[t] \in {"loadTrips", "storeList"} => list[t] # <<>>

AnswersListSomeone == \A l \in ArchiverLists : FilterNodes(l) # <<>>

LEMMA NextNonempty ==
  ASSUME AnswersListSomeone, TypeOK, Nonempty, [Next]_vars
  PROVE  Nonempty' /\ (nodelist # <<>> => nodelist' # <<>>)
<1> USE DEF Nonempty, pool, refresh, locals, Goto
<1>0. TypeOK
  OBVIOUS
<1>1. CASE Refresh
  <2>1. CASE StoreNodelist
    <3>1. PICK l \in ArchiverLists : nodelist' = Unbiased(FilterNodes(l))
      BY <2>1 DEF StoreNodelist
    <3>2. FilterNodes(l) \in Seq(Nodes) /\ FilterNodes(l) # <<>>
      BY FilterType, NodePoolAssumption DEF AnswersListSomeone
    <3>3. 1 \in DOMAIN Unbiased(FilterNodes(l))
      BY <3>2 DEF Unbiased
    <3> QED
      BY <2>1, <3>1, <3>3 DEF StoreNodelist
  <2>2. CASE ClearWeights \/ ClearTrips \/ ResetIndex \/ ClearPrepared \/ OpenListeners
    BY <2>2 DEF ClearWeights, ClearTrips, ResetIndex, ClearPrepared, OpenListeners
  <2> QED
    BY <1>1, <2>1, <2>2 DEF Refresh
<1>2. ASSUME NEW r \in Tasks, Request(r) PROVE Nonempty' /\ (nodelist # <<>> => nodelist' # <<>>)
  <2>1. pc \in [Tasks -> Labels] /\ list \in [Tasks -> Seq(Entries)]
    BY DEF TypeOK
  <2>2. CASE Begin(r)
    BY <2>1, <2>2 DEF Begin
  <2>3. CASE PrepareLoadList(r)
    BY <2>1, <2>3 DEF PrepareLoadList
  <2>4. CASE PrepareLoadTrips(r)
    <3>1. PICK p \in Orders(Len(list[r])) : list' = [list EXCEPT ![r] = Ranked(p, @)]
      BY <2>4 DEF PrepareLoadTrips
    <3>2. list[r] \in Seq(Entries) /\ list[r] # <<>> /\ pc[r] = "loadTrips"
      BY <2>1, <2>4 DEF PrepareLoadTrips
    <3>3. Ranked(p, list[r]) # <<>>
      BY <3>2, RankedList
    <3> QED
      BY <2>1, <2>4, <3>1, <3>2, <3>3 DEF PrepareLoadTrips
  <2>5. CASE PrepareStoreList(r)
    BY <2>1, <2>5 DEF PrepareStoreList
  <2>6. CASE PickLoadWeights(r)
    <3>1. \E l \in {"check", "unserved", "restartIndex", "rangePanic", "forward", "indexPanic"} :
             pc' = [pc EXCEPT ![r] = l]
      BY <2>6, MissTypes
      DEF PickLoadWeights, PickMisses, PickUnweighted, PickFromEmptyRange, PickWeighted
    <3> QED
      BY <2>1, <2>6, <3>1 DEF PickLoadWeights
  <2>7. CASE PickLoadList(r)
    BY <2>1, <2>7 DEF PickLoadList
  <2>8. CASE PrepareStoreWeights(r)
    BY <2>1, <2>8 DEF PrepareStoreWeights
  <2>9. CASE CheckEmpty(r) \/ PickCheck(r)
    BY <2>1, <2>9 DEF CheckEmpty, PickCheck, Miss
  <2>10. CASE \/ GatePrepared(r) \/ GateWeights(r) \/ GateLength(r) \/ TakeIndex(r)
              \/ Select(r) \/ CheckPrepared(r) \/ PrepareSetFlag(r)
              \/ RestartIndex(r) \/ RestartPrepared(r) \/ Forward(r) \/ Refuse(r) \/ Reconnect(r)
    BY <2>1, <2>10 DEF GatePrepared, GateWeights, GateLength, TakeIndex, Select, CheckPrepared,
       PrepareSetFlag, RestartIndex, RestartPrepared, Forward, Refuse, Reconnect
  <2> QED
    BY <1>2, <2>2, <2>3, <2>4, <2>5, <2>6, <2>7, <2>8, <2>9, <2>10 DEF Request
<1>3. ASSUME NEW i \in inserts, InsertTrip(i)
      PROVE  Nonempty' /\ (nodelist # <<>> => nodelist' # <<>>)
  BY <1>3 DEF InsertTrip
<1>4. CASE UNCHANGED vars
  BY <1>4 DEF vars
<1> QED
  BY <1>1, <1>2, <1>3, <1>4 DEF Next

(* A pool that lists validators lists some for ever, if every archiver     *)
(* answers some that the filter keeps (FilterKeepsNodes says when).        *)
THEOREM NeverEmpty == ASSUME AnswersListSomeone PROVE Spec => NeverEmptied
<1>1. Init => TypeOK /\ (\A t \in Tasks : TaskData(t)) /\ Nonempty
  BY InitTypes DEF Init, Nonempty
<1>2. /\ TypeOK /\ (\A t \in Tasks : TaskData(t)) /\ Nonempty /\ [Next]_vars
      => /\ (TypeOK /\ (\A t \in Tasks : TaskData(t)) /\ Nonempty)'
         /\ [nodelist # <<>> => nodelist' # <<>>]_nodelist
  BY NextTypes, NextNonempty
<1> QED
  BY <1>1, <1>2, PTL DEF Spec, NeverEmptied

-----------------------------------------------------------------------------
(* The weighted pick: what the fold of the cumulative weights computes *)

(* What a fold over the first n entries of w unfolds to.                   *)
SumsFirst(g, w, n) ==
  g = [s \in SUBSET (1..n) |-> IF s = {} THEN 0 ELSE g[s \ {Max(s)}] + w[Max(s)]]

LEMMA GreatestIsMax ==
  ASSUME NEW n \in Nat, NEW s \in SUBSET (1..n), n \in s
  PROVE  Max(s) = n
<1>1. \A y \in s : n >= y
  OBVIOUS
<1>2. \A x \in s : (\A y \in s : x >= y) => x = n
  OBVIOUS
<1> QED
  BY <1>1, <1>2 DEF Max

LEMMA SumsExist ==
  ASSUME NEW w, NEW n \in Nat
  PROVE  \E g : SumsFirst(g, w, n)
<1> DEFINE T == {k \in Nat : \E g : SumsFirst(g, w, k)}
<1>1. 0 \in T
  <2> DEFINE g == [s \in SUBSET (1..0) |-> 0]
  <2>1. \A s \in SUBSET (1..0) : s = {}
    OBVIOUS
  <2>2. SumsFirst(g, w, 0)
    BY <2>1 DEF SumsFirst
  <2> QED
    BY <2>2
<1>2. ASSUME NEW k \in T PROVE k + 1 \in T
  <2>1. PICK g : SumsFirst(g, w, k)
    OBVIOUS
  <2> DEFINE h == [s \in SUBSET (1..(k + 1)) |->
                     IF k + 1 \in s THEN g[s \ {k + 1}] + w[k + 1] ELSE g[s]]
             rhs(s) == IF s = {} THEN 0 ELSE h[s \ {Max(s)}] + w[Max(s)]
  <2>2. ASSUME NEW s \in SUBSET (1..(k + 1)) PROVE h[s] = rhs(s)
    <3>1. CASE k + 1 \in s
      <4>1. Max(s) = k + 1
        BY <3>1, GreatestIsMax
      <4>2. s \ {k + 1} \in SUBSET (1..k) /\ s \ {k + 1} \in SUBSET (1..(k + 1))
        OBVIOUS
      <4>3. h[s \ {k + 1}] = g[s \ {k + 1}]
        BY <4>2
      <4> QED
        BY <3>1, <4>1, <4>3
    <3>2. CASE k + 1 \notin s
      <4>1. s \in SUBSET (1..k)
        BY <3>2
      <4>2. g[s] = IF s = {} THEN 0 ELSE g[s \ {Max(s)}] + w[Max(s)]
        BY <2>1, <4>1 DEF SumsFirst
      <4>3. h[s \ {Max(s)}] = g[s \ {Max(s)}]
        BY <4>1, <3>2
      <4>4. h[s] = g[s]
        BY <3>2
      <4> QED
        BY <4>2, <4>3, <4>4
    <3> QED
      BY <3>1, <3>2
  <2>3. SumsFirst(h, w, k + 1)
    <3> DEFINE r == [s \in SUBSET (1..(k + 1)) |-> rhs(s)]
    <3>1. h = r
      BY <2>2
    <3> QED
      BY <3>1, Zenon DEF SumsFirst
  <2> HIDE DEF h
  <2> QED
    BY <2>3
<1>3. T = Nat
  <2> T \in SUBSET Nat
    OBVIOUS
  <2> HIDE DEF T
  <2> QED
    BY <1>1, <1>2, SetInduction
<1> QED
  BY <1>3

(* Two folds agree on the prefix their sequences share. *)
LEMMA SumsAgree ==
  ASSUME NEW g, NEW h, NEW v, NEW w, NEW n \in Nat, NEW k \in 0..n,
         SumsFirst(g, v, k), SumsFirst(h, w, n), \A i \in 1..k : v[i] = w[i]
  PROVE  g[1..k] = h[1..k]
<1> DEFINE T == {j \in Nat : j <= k => \A s \in SUBSET (1..j) : g[s] = h[s]}
<1>1. 0 \in T
  BY DEF SumsFirst
<1>2. ASSUME NEW j \in T PROVE j + 1 \in T
  <2> SUFFICES ASSUME j + 1 <= k, NEW s \in SUBSET (1..(j + 1)) PROVE g[s] = h[s]
    OBVIOUS
  <2>1. CASE j + 1 \in s
    <3>1. Max(s) = j + 1
      BY <2>1, GreatestIsMax
    <3>2. s \in SUBSET (1..k) /\ s \in SUBSET (1..n) /\ s # {}
      BY <2>1
    <3>3. g[s] = g[s \ {j + 1}] + v[j + 1]
      BY <3>1, <3>2 DEF SumsFirst
    <3>4. h[s] = h[s \ {j + 1}] + w[j + 1]
      BY <3>1, <3>2 DEF SumsFirst
    <3>5. s \ {j + 1} \in SUBSET (1..j)
      OBVIOUS
    <3>7. j + 1 \in 1..k
      OBVIOUS
    <3>8. v[j + 1] = w[j + 1]
      BY <3>7
    <3>6. g[s \ {j + 1}] = h[s \ {j + 1}]
      BY <3>5
    <3> QED
      BY <3>3, <3>4, <3>6, <3>8
  <2>2. CASE j + 1 \notin s
    BY <2>2, s \in SUBSET (1..j)
  <2> QED
    BY <2>1, <2>2
<1>3. T = Nat
  <2> T \in SUBSET Nat
    OBVIOUS
  <2> HIDE DEF T
  <2> QED
    BY <1>1, <1>2, SetInduction
<1>4. k \in T
  BY <1>3
<1> QED
  BY <1>4

LEMMA CumulativeIsSum ==
  ASSUME NEW w \in Seq(Int), NEW i \in 0..Len(w)
  PROVE  \E g : SumsFirst(g, w, i) /\ Cumulative(w, i) = g[1..i]
<1> DEFINE u == SubSeq(w, 1, i)
           g == CHOOSE f : SumsFirst(f, u, i)
<1>1. i \in Nat /\ DOMAIN u = 1..i /\ \A j \in 1..i : u[j] = w[j]
  OBVIOUS
<1>2. SumsFirst(g, u, i)
  <2> HIDE DEF u
  <2> QED
    BY <1>1, SumsExist
<1>3. Cumulative(w, i) = g[1..i]
  <2> HIDE DEF u
  <2>1. FoldLeft(LAMBDA a, b : a + b, 0, u) = g[1..i]
    BY <1>1 DEF FoldLeft, MapThenFoldSet, SumsFirst
  <2> QED
    BY <2>1, Zenon DEF Cumulative, u
<1>4. PICK h : SumsFirst(h, w, i)
  BY <1>1, SumsExist
<1>5. g[1..i] = h[1..i]
  <2>1. \A j \in 1..i : u[j] = w[j]
    BY <1>1
  <2>2. i \in Nat /\ i \in 0..i
    BY <1>1
  <2> HIDE DEF g, u
  <2> QED
    BY <1>2, <1>4, <2>1, <2>2, SumsAgree
<1> QED
  BY <1>3, <1>4, <1>5

LEMMA CumulativeStart ==
  ASSUME NEW w \in Seq(Int)
  PROVE  Cumulative(w, 0) = 0
<1>1. PICK g : SumsFirst(g, w, 0) /\ Cumulative(w, 0) = g[1..0]
  BY CumulativeIsSum
<1> QED
  BY <1>1 DEF SumsFirst

LEMMA CumulativeNext ==
  ASSUME NEW w \in Seq(Int), NEW i \in 0..(Len(w) - 1)
  PROVE  Cumulative(w, i + 1) = Cumulative(w, i) + w[i + 1]
<1>1. i \in 0..Len(w) /\ i + 1 \in 0..Len(w)
  OBVIOUS
<1>2. PICK g : SumsFirst(g, w, i) /\ Cumulative(w, i) = g[1..i]
  BY <1>1, CumulativeIsSum
<1>3. PICK h : SumsFirst(h, w, i + 1) /\ Cumulative(w, i + 1) = h[1..(i + 1)]
  BY <1>1, CumulativeIsSum
<1>4. g[1..i] = h[1..i]
  <2>1. i \in Nat /\ i + 1 \in Nat /\ i \in 0..(i + 1)
    OBVIOUS
  <2> QED
    BY <1>2, <1>3, <2>1, SumsAgree
<1>5. Max(1..(i + 1)) = i + 1
  BY GreatestIsMax
<1>6. h[1..(i + 1)] = h[(1..(i + 1)) \ {i + 1}] + w[i + 1]
  <2> DEFINE s == 1..(i + 1)
  <2>1. s \in SUBSET (1..(i + 1)) /\ s # {}
    BY 1 \in s
  <2>2. h[s] = h[s \ {Max(s)}] + w[Max(s)]
    <3> HIDE DEF s
    <3> QED
      BY <1>3, <2>1 DEF SumsFirst
  <2> QED
    BY <2>2, <1>5
<1>7. (1..(i + 1)) \ {i + 1} = 1..i
  OBVIOUS
<1> QED
  BY <1>2, <1>3, <1>4, <1>6, <1>7

LEMMA CumulativeType ==
  ASSUME NEW w \in Seq(Int)
  PROVE  \A i \in 0..Len(w) : Cumulative(w, i) \in Int
<1> DEFINE T == {k \in Nat : k <= Len(w) => Cumulative(w, k) \in Int}
<1>1. 0 \in T
  BY CumulativeStart
<1>2. ASSUME NEW k \in T PROVE k + 1 \in T
  <2> SUFFICES ASSUME k + 1 <= Len(w) PROVE Cumulative(w, k + 1) \in Int
    OBVIOUS
  <2>1. k \in 0..(Len(w) - 1) /\ Cumulative(w, k) \in Int /\ w[k + 1] \in Int
    OBVIOUS
  <2> QED
    BY <2>1, CumulativeNext
<1>3. T = Nat
  <2> T \in SUBSET Nat
    OBVIOUS
  <2> HIDE DEF T
  <2> QED
    BY <1>1, <1>2, SetInduction
<1>4. \A i \in 0..Len(w) : i \in T
  BY <1>3
<1> QED
  BY <1>4

(* Weights that are not negative do not add up to a negative total: the    *)
(* range of gen_range is not empty (liberdus.rs 300-312, 362-366).         *)
LEMMA TotalNotNegative ==
  ASSUME NEW w \in Seq(Int), \A i \in DOMAIN w : w[i] >= 0
  PROVE  Cumulative(w, Len(w)) >= 0
<1> DEFINE T == {k \in Nat : k <= Len(w) => Cumulative(w, k) >= 0}
<1>1. 0 \in T
  BY CumulativeStart
<1>2. ASSUME NEW k \in T PROVE k + 1 \in T
  <2> SUFFICES ASSUME k + 1 <= Len(w) PROVE Cumulative(w, k + 1) >= 0
    OBVIOUS
  <2>1. /\ k \in 0..(Len(w) - 1) /\ k \in 0..Len(w) /\ Cumulative(w, k) >= 0
        /\ w[k + 1] \in Int /\ w[k + 1] >= 0
    OBVIOUS
  <2>2. Cumulative(w, k + 1) = Cumulative(w, k) + w[k + 1] /\ Cumulative(w, k) \in Int
    BY <2>1, CumulativeNext, CumulativeType
  <2> QED
    BY <2>1, <2>2
<1>3. T = Nat
  <2> T \in SUBSET Nat
    OBVIOUS
  <2> HIDE DEF T
  <2> QED
    BY <1>1, <1>2, SetInduction
<1>4. Len(w) \in T
  BY <1>3
<1> QED
  BY <1>4

(* A weighted pick from a positive total has an entry to return: of the    *)
(* cumulative weights the first that reaches the total ends an interval    *)
(* (liberdus.rs 362-375).                                                  *)
THEOREM SomeReachable ==
  ASSUME NEW w \in Seq(Int), Cumulative(w, Len(w)) > 0
  PROVE  Reachable(w) # {}
<1> DEFINE total == Cumulative(w, Len(w))
           T == {k \in 0..Len(w) : Cumulative(w, k) >= total}
<1>1. Len(w) \in Nat /\ total \in Int
  BY CumulativeType
<1>2. PICK k \in T : \A j \in T : k <= j
  <2>1. T \in SUBSET Nat /\ Len(w) \in T
    BY <1>1
  <2> HIDE DEF T
  <2> QED
    BY <2>1, LeastElement
<1>3. k > 0
  <2>1. Cumulative(w, k) >= total /\ total > 0 /\ k \in Nat
    BY <1>1, <1>2
  <2>2. k # 0
    BY <1>1, <2>1, CumulativeStart
  <2> QED
    BY <2>1, <2>2
<1>4. k - 1 \in 0..(Len(w) - 1) /\ k - 1 \in 0..Len(w) /\ k \in DOMAIN w
  BY <1>2, <1>3
<1>5. Cumulative(w, k - 1) < total
  BY <1>1, <1>2, <1>4, CumulativeType
<1>6. Cumulative(w, k) = Cumulative(w, k - 1) + w[k]
  BY <1>4, CumulativeNext, (k - 1) + 1 = k
<1>7. w[k] > 0
  BY <1>2, <1>4, <1>5, <1>6, <1>1, CumulativeType
<1> QED
  BY <1>4, <1>5, <1>7 DEF Reachable

(* A pick meets an empty range only among weights of which one is negative. *)
LEMMA RequestRange ==
  ASSUME TypeOK, \A b \in Biases : b >= 0, NEW r \in Tasks, Request(r),
         NEW t \in Tasks, pc[t] # "rangePanic"
  PROVE  pc'[t] # "rangePanic"
<1> USE DEF Goto
<1>1. pc \in [Tasks -> Labels] /\ weights \in Seq(Biases)
  BY DEF TypeOK
<1>2. CASE PickLoadWeights(r)
  <2>1. ~PickFromEmptyRange(r)
    <3>1. weights \in Seq(Int) /\ \A i \in DOMAIN weights : weights[i] >= 0
      <4>1. \A i \in 1..Len(weights) : weights[i] \in Biases
        BY <1>1
      <4>2. \A i \in 1..Len(weights) : weights[i] \in Int /\ weights[i] >= 0
        BY <4>1, BiasType
      <4>3. Len(weights) \in Nat /\ weights = [i \in 1..Len(weights) |-> weights[i]]
        BY <1>1
      <4>4. weights \in Seq(Int)
        BY <4>2, <4>3
      <4> QED
        BY <1>1, <4>2, <4>4
    <3>2. Total >= 0 /\ Total \in Int
      BY <3>1, TotalNotNegative, CumulativeType DEF Total
    <3> QED
      BY <3>2 DEF PickFromEmptyRange
  <2> QED
    BY <1>1, <1>2, <2>1 DEF PickLoadWeights, PickMisses, PickUnweighted, PickWeighted, Miss
<1>3. CASE ~PickLoadWeights(r)
  BY <1>1, <1>3
  DEF Request, Begin, CheckEmpty, GatePrepared, GateWeights, GateLength, TakeIndex, Select,
      CheckPrepared, PrepareLoadList, PrepareLoadTrips, PrepareStoreList, PrepareStoreWeights,
      PrepareSetFlag, PickCheck, PickLoadList, RestartIndex, RestartPrepared, Forward, Refuse,
      Reconnect, Miss
<1> QED
  BY <1>2, <1>3

(* gen_range(0.0..total) is never given an empty range (liberdus.rs 366)   *)
(* as long as no round trip exceeds max_http_timeout_ms.                   *)
RangePanicOnlyLate ==
  (\A r \in RTTs : r <= MaxTimeout) => \A t \in Tasks : pc[t] # "rangePanic"

(* A range panic needs a late answer: without one no pick draws from an    *)
(* empty range, whatever lists and weights the races leave.                *)
THEOREM RangeNotEmpty == Spec => []RangePanicOnlyLate
<1>1. Init => RangePanicOnlyLate
  BY DEF Init, RangePanicOnlyLate
<1>2. ASSUME TypeOK, RangePanicOnlyLate, [Next]_vars
      PROVE  RangePanicOnlyLate'
  <2> SUFFICES ASSUME \A r \in RTTs : r <= MaxTimeout, NEW t \in Tasks
               PROVE  pc'[t] # "rangePanic"
    BY DEF RangePanicOnlyLate
  <2>1. pc[t] # "rangePanic" /\ \A b \in Biases : b >= 0
    BY <1>2, BiasType DEF RangePanicOnlyLate
  <2>2. CASE Refresh
    BY <2>1, <2>2 DEF Refresh, StoreNodelist, ClearWeights, ClearTrips, ResetIndex,
                      ClearPrepared, OpenListeners
  <2>3. ASSUME NEW r \in Tasks, Request(r) PROVE pc'[t] # "rangePanic"
    BY <1>2, <2>1, <2>3, RequestRange
  <2>4. ASSUME NEW i \in inserts, InsertTrip(i) PROVE pc'[t] # "rangePanic"
    BY <2>1, <2>4 DEF InsertTrip
  <2>5. CASE UNCHANGED vars
    BY <2>1, <2>5 DEF vars
  <2> QED
    BY <1>2, <2>2, <2>3, <2>4, <2>5 DEF Next
<1> QED
  BY <1>1, <1>2, TypeCorrect, PTL DEF Spec

=============================================================================
