------------------------- MODULE ArchiverDiscovery -------------------------
(***************************************************************************)
(* How the proxy starts and how it keeps knowing archivers and validators: *)
(* ArchiverUtil of src/src/archivers.rs, the loop over the archivers in    *)
(* update_active_nodelist (src/src/liberdus.rs), and main of               *)
(* src/src/main.rs, which runs both once, then from two tickers, and opens *)
(* the listeners when a validator is known.                                *)
(*                                                                         *)
(* A round of discovery asks the archivers of the cache file and the seeds *)
(* all at once, merges the valid answers in the order they arrive, and     *)
(* leaves the new cache file to a task of its own, which the next round,   *)
(* the next such task and a crash may meet half-way.  What a list of       *)
(* validators does to the pool is NodePool's subject.                      *)
(***************************************************************************)
EXTENDS Integers, Sequences, FiniteSets, Functions

CONSTANTS
  Archivers,       \* [key, ip] records; keys are numbers, for their order
  Seeds,           \* the sequence of the seed file
  Answers,         \* the lists an archiver may answer
  Standalone,      \* standalone_network.enabled
  ReplacementIp,   \*   and replacement_ip
  MaxWriters       \* bound: the tasks that write the cache file at one time

ASSUME ArchiverDiscoveryAssumption ==
  /\ \A a \in Archivers : a.key \in Nat /\ a \in [key : {a.key}, ip : {a.ip}]
  /\ Standalone \in BOOLEAN
  /\ Standalone => \A a \in Archivers : [a EXCEPT !.ip = ReplacementIp] \in Archivers
  /\ Seeds \in Seq(Archivers) /\ Answers \subseteq Seq(Archivers)
  /\ MaxWriters \in Nat \ {0}

VARIABLES
  boot,            \* main: "down", "discover", "update", "wait", "serving"
  discovering,     \* the round: "idle", "collect"
  pending,         \* how many of those it asks have not ended,
  merged,          \*   and the answers so far
  active,          \* active_archivers
  file,            \* known_archiver_cache.json: "absent", "empty", "junk", or a "list"
  writing,         \* where a writer stands, "off", "new" or "open", and its list
  updating,        \* update_active_nodelist: "idle", "fetch", "dead"
  left,            \* how many archivers it has still to ask
  filled,          \* whether active_nodelist has a validator
  heard,           \* history: archivers named by valid answers since the start
  inherited,       \* history: the file is still that of an earlier process
  calm             \* history: archivers answer well and nothing crashes any more

round == <<discovering, pending, merged>>
disk == <<file, writing, inherited>>
nodes == <<updating, left, filled>>
vars == <<boot, round, active, disk, nodes, heard, calm>>

-----------------------------------------------------------------------------
(* Lists of archivers. *)

KeyOf(a) == a.key

(* sort_by is stable: whether the list's entry i goes before its entry j.  *)
Before(list, i, j) ==
  \/ KeyOf(list[i]) < KeyOf(list[j])
  \/ KeyOf(list[i]) = KeyOf(list[j]) /\ i < j

SortByKey(list) ==
  [n \in DOMAIN list |->
     list[CHOOSE i \in DOMAIN list :
            Cardinality({j \in DOMAIN list : Before(list, j, i)}) = n - 1]]

(* dedup_by drops an element whose key is that of the one before it.       *)
Dedup(list) ==
  LET kept[n \in 0..Len(list)] ==
        IF n = 0 THEN <<>>
        ELSE IF n > 1 /\ KeyOf(list[n]) = KeyOf(list[n - 1]) THEN kept[n - 1]
        ELSE Append(kept[n - 1], list[n])
  IN  kept[Len(list)]

(* A seeded bug, as every definition with an underscore suffix: the       *)
(* merged list is not sorted.                                              *)
Merge_Unsorted(list) ==
  LET found == Dedup(list)
  IN  IF Standalone
      THEN [n \in DOMAIN found |-> [found[n] EXCEPT !.ip = ReplacementIp]]
      ELSE found

Merge(list) ==
  LET found == Dedup(SortByKey(list))
  IN  IF Standalone
      THEN [n \in DOMAIN found |-> [found[n] EXCEPT !.ip = ReplacementIp]]
      ELSE found

(* A file cut short or overwritten in part does not parse, and counts as   *)
(* empty.                                                                  *)
Cached == IF file.text = "list" THEN file.list ELSE <<>>

File(text, list) == [text |-> text, list |-> list]

-----------------------------------------------------------------------------
(* The process. *)

Writers == 1..MaxWriters
NoWriter == [at |-> "off", list |-> <<>>]

(* ArchiverUtil::new prunes the cache file.  It does not mind a file that  *)
(* cannot be removed; the first round then reads what is in it.            *)
Start ==
  /\ boot = "down"
  /\ boot' = "discover"
  /\ \/ file' = File("absent", <<>>) /\ inherited' = FALSE
     \/ file.text # "absent" /\ inherited' = TRUE /\ UNCHANGED file
  /\ active' = <<>> /\ heard' = {} /\ filled' = FALSE
  /\ UNCHANGED <<round, writing, updating, left, calm>>

(* The process ends, and with it all its tasks. *)
Die ==
  /\ boot' = "down"
  /\ discovering' = "idle" /\ pending' = 0 /\ merged' = <<>>
  /\ writing' = [w \in Writers |-> NoWriter]
  /\ updating' = "idle" /\ left' = 0
  /\ active' = <<>> /\ heard' = {} /\ filled' = FALSE
  /\ inherited' = FALSE
  /\ UNCHANGED <<file, calm>>

Crash == boot # "down" /\ ~calm /\ Die

(* main waits for a first validator, then opens the listeners. *)
Listen ==
  /\ boot = "wait" /\ filled
  /\ boot' = "serving"
  /\ UNCHANGED <<round, active, disk, nodes, heard, calm>>

Tickers == boot \in {"wait", "serving"}

-----------------------------------------------------------------------------
(* A round of discovery, of main first and then of the ticker. *)

(* The seeds only serve when there is no cache. *)
Base_CacheFirst == Dedup(IF Cached = <<>> THEN Seeds ELSE Cached)

(* The ticker's rounds trust the cache alone. *)
Base_CacheOnly == Dedup(IF Tickers THEN Cached ELSE Cached \o Seeds)

(* Whom a round asks: the cached archivers and the seeds; only neighbours  *)
(* are deduplicated.                                                       *)
Base == Dedup(Cached \o Seeds)

(* They are asked all at once. *)
Discover ==
  /\ discovering = "idle" /\ (boot = "discover" \/ Tickers)
  /\ discovering' = "collect"
  /\ pending' = Len(Base)
  /\ merged' = <<>>
  /\ UNCHANGED <<boot, active, disk, nodes, heard, calm>>

(* A list whose signature is that of the owner it names. *)
Answer(list) ==
  /\ pending > 0
  /\ pending' = pending - 1
  /\ merged' = merged \o list
  /\ heard' = heard \cup Range(list)
  /\ UNCHANGED <<boot, discovering, active, disk, nodes, calm>>

(* No connection, a body that does not parse, a signature that is wrong,   *)
(* or one that is malformed and panics the task: nothing is entered.       *)
AnswerFails ==
  /\ pending > 0 /\ ~calm
  /\ pending' = pending - 1
  /\ UNCHANGED <<boot, discovering, merged, active, disk, nodes, heard, calm>>

(* A new task; which is all the same. *)
Free(w) == writing[w] = NoWriter /\ \A v \in 1..(w - 1) : writing[v] # NoWriter

(* When nobody answered, the cached archivers serve instead. *)
Finish_KeepsCache(w) ==
  /\ discovering = "collect" /\ pending = 0 /\ Free(w)
  /\ discovering' = "idle" /\ merged' = <<>>
  /\ active' = Merge(IF merged = <<>> THEN Cached ELSE merged)
  /\ writing' = [writing EXCEPT ![w] = [at |-> "new", list |-> active']]
  /\ boot' = IF boot = "discover" THEN "update" ELSE boot
  /\ UNCHANGED <<pending, file, inherited, nodes, heard, calm>>

(* The list replaces the active one, also when nobody answered.            *)
Finish(w) ==
  /\ discovering = "collect" /\ pending = 0 /\ Free(w)
  /\ discovering' = "idle" /\ merged' = <<>>
  /\ active' = Merge(merged)
  /\ writing' = [writing EXCEPT ![w] = [at |-> "new", list |-> active']]
  /\ boot' = IF boot = "discover" THEN "update" ELSE boot
  /\ UNCHANGED <<pending, file, inherited, nodes, heard, calm>>

(* create truncates the file ... *)
Create(w) ==
  /\ writing[w].at = "new"
  /\ file' = File("empty", <<>>) /\ inherited' = FALSE
  /\ writing' = [writing EXCEPT ![w].at = "open"]
  /\ UNCHANGED <<boot, round, active, nodes, heard, calm>>

(* ... and write_all writes from its beginning.  What another writer has   *)
(* put there since may be longer, and its end stays.                       *)
WriteAll(w) ==
  /\ writing[w].at = "open"
  /\ \/ file' = File("list", writing[w].list)
     \/ file.text # "empty" /\ file' = File("junk", <<>>)
  /\ writing' = [writing EXCEPT ![w] = NoWriter]
  /\ UNCHANGED <<boot, round, active, inherited, nodes, heard, calm>>

(* The file cannot be created or written. *)
WriterPanics(w) ==
  /\ writing[w] # NoWriter /\ ~calm
  /\ writing' = [writing EXCEPT ![w] = NoWriter]
  /\ UNCHANGED <<boot, round, active, file, inherited, nodes, heard, calm>>

-----------------------------------------------------------------------------
(* update_active_nodelist, of main first and then of the ticker. *)

Update ==
  /\ updating = "idle" /\ (boot = "update" \/ Tickers)
  /\ updating' = "fetch"
  /\ left' = Len(active)
  /\ UNCHANGED <<boot, round, active, disk, filled, heard, calm>>

UpdateEnds ==
  /\ updating' = "idle" /\ left' = 0
  /\ boot' = IF boot = "update" THEN "wait" ELSE boot

(* The first archiver that answers a list decides; it may be empty.        *)
Fetch ==
  /\ updating = "fetch" /\ left > 0
  /\ filled' \in (IF calm THEN {TRUE} ELSE BOOLEAN)
  /\ UpdateEnds
  /\ UNCHANGED <<round, active, disk, heard, calm>>

(* The end of the list is not noticed. *)
FetchFails_Past ==
  /\ updating = "fetch" /\ ~calm
  /\ left' = left - 1
  /\ UNCHANGED <<boot, round, active, disk, updating, filled, heard, calm>>

FetchFails ==
  /\ updating = "fetch" /\ left > 0 /\ ~calm
  /\ left' = left - 1
  /\ UNCHANGED <<boot, round, active, disk, updating, filled, heard, calm>>

(* The update that finds no archiver does not come back. *)
NobodyLeft_GivesUp ==
  /\ updating = "fetch" /\ left = 0
  /\ updating' = "dead"
  /\ boot' = IF boot = "update" THEN "wait" ELSE boot
  /\ UNCHANGED <<round, active, disk, left, filled, heard, calm>>

NobodyLeft ==
  /\ updating = "fetch" /\ left = 0
  /\ UpdateEnds
  /\ UNCHANGED <<round, active, disk, filled, heard, calm>>

(* A body that breaks off is unwrapped: the ticker's task is over, and in  *)
(* main the process.                                                       *)
FetchPanics ==
  /\ updating = "fetch" /\ left > 0 /\ ~calm
  /\ IF boot = "update" THEN Die
     ELSE /\ updating' = "dead" /\ left' = 0
          /\ UNCHANGED <<boot, round, active, disk, filled, heard, calm>>

-----------------------------------------------------------------------------
(* From some time on the archivers answer and nothing crashes. *)
Calm ==
  /\ ~calm /\ calm' = TRUE
  /\ UNCHANGED <<boot, round, active, disk, nodes, heard>>

Init ==
  /\ boot = "down"
  /\ discovering = "idle" /\ pending = 0 /\ merged = <<>>
  /\ active = <<>>
  /\ file = File("absent", <<>>) /\ writing = [w \in Writers |-> NoWriter]
  /\ updating = "idle" /\ left = 0 /\ filled = FALSE
  /\ heard = {} /\ inherited = FALSE /\ calm = FALSE

Round ==
  \/ Discover
  \/ (\E list \in Answers : Answer(list)) \/ AnswerFails
  \/ \E w \in Writers : Finish(w)

Refresh == Update \/ Fetch \/ FetchFails \/ NobodyLeft \/ FetchPanics

Next ==
  \/ Start \/ Crash \/ Listen \/ Calm
  \/ Round \/ Refresh
  \/ \E w \in Writers : Create(w) \/ WriteAll(w) \/ WriterPanics(w)

Spec == Init /\ [][Next]_vars

(* The tickers tick and the runtime polls what is ready.  An answer is     *)
(* only certain in calm times, for the requests have no time-out.          *)
Fairness ==
  /\ WF_vars(Listen)
  /\ WF_vars(Discover \/ (\E w \in Writers : Finish(w))
               \/ (calm /\ \E list \in Answers : Answer(list)))
  /\ WF_vars(\E w \in Writers : Create(w) \/ WriteAll(w))
  /\ WF_vars(Update \/ (calm /\ Fetch) \/ NobodyLeft)

FairSpec == Spec /\ Fairness

-----------------------------------------------------------------------------
(* Properties *)

Keys(list) == {KeyOf(a) : a \in Range(list)}

TypeOK ==
  /\ boot \in {"down", "discover", "update", "wait", "serving"}
  /\ discovering \in {"idle", "collect"} /\ pending \in Nat
  /\ merged \in Seq(Archivers) /\ active \in Seq(Archivers)
  /\ file \in [text : {"absent", "empty", "junk", "list"}, list : Seq(Archivers)]
  /\ writing \in [Writers -> [at : {"off", "new", "open"}, list : Seq(Archivers)]]
  /\ updating \in {"idle", "fetch", "dead"} /\ left \in Nat /\ filled \in BOOLEAN
  /\ heard \subseteq Archivers /\ inherited \in BOOLEAN /\ calm \in BOOLEAN

(* A round leaves one archiver for each key that a valid answer of this    *)
(* round named, in the order of the keys, and of several with one key that *)
(* whose answer arrived first (archivers.rs 137-159).                      *)
First(list, n) == \A i \in 1..(n - 1) : KeyOf(list[i]) # KeyOf(list[n])
IsMergeOf(result, list) ==
  /\ Keys(result) = Keys(list)
  /\ \A m, n \in DOMAIN result : m < n => KeyOf(result[m]) < KeyOf(result[n])
  /\ \A n \in DOMAIN list : First(list, n) =>
       \E m \in DOMAIN result :
         result[m] = IF Standalone THEN [list[n] EXCEPT !.ip = ReplacementIp] ELSE list[n]
MergesByArrival ==
  [][discovering = "collect" /\ discovering' = "idle" /\ boot' # "down" =>
       IsMergeOf(active', merged)]_vars

(* Every archiver in use was named by a valid answer to this process, and  *)
(* so was every one in the cache file unless that is still the file of an  *)
(* earlier process, which could not be removed and is only asked           *)
(* (archivers.rs 54-56, 82-85, 111-118, 161-167).                          *)
Named(a) == \E h \in heard : a = IF Standalone THEN [h EXCEPT !.ip = ReplacementIp] ELSE h
Trusted == Range(active) \cup (IF inherited THEN {} ELSE Range(Cached))
OnlyNamed == boot # "down" => \A a \in Trusted : Named(a)

(* Whatever the file holds, a round asks an archiver of each seed's key    *)
(* (archivers.rs 82-88).                                                   *)
SeedsAsked == Keys(Seeds) \subseteq Keys(Base)

(* Why OnlyNamed holds: nothing of a process outlives it but the file, and *)
(* whatever it merges or writes was named, also while it waits for that.   *)
NothingRuns ==
  /\ discovering = "idle" /\ pending = 0 /\ updating = "idle"
  /\ merged = <<>> /\ active = <<>>
  /\ \A w \in Writers : writing[w] = NoWriter

EverythingNamed ==
  /\ Range(merged) \subseteq heard
  /\ \A a \in Trusted : Named(a)
  /\ \A w \in Writers : \A a \in Range(writing[w].list) : Named(a)

(* The inductive invariant of the proofs.                                  *)
Inv ==
  /\ TypeOK
  /\ boot = "down" => NothingRuns
  /\ boot # "down" => EverythingNamed

(* Rounds that nobody answered, torn files and archivers that fail do no   *)
(* lasting harm: once the archivers answer, the list fills and stays full  *)
(* (archivers.rs 81-168, main.rs 118-129).                                 *)
Recovers == <>[](calm /\ boot # "down" => active # <<>>)

(* ... and the listeners open, unless a body that broke off has ended the  *)
(* refresh ticker (main.rs 100-139, liberdus.rs 79-121).                   *)
Serves == calm /\ updating # "dead" ~> boot \in {"serving", "down"}
=============================================================================
