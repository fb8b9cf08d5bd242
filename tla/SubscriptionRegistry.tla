------------------------ MODULE SubscriptionRegistry ------------------------
(***************************************************************************)
(* What the subscription manager promises, without its maps, locks and     *)
(* tasks: a relation between sockets and accounts, the newest timestamp of *)
(* every account somebody subscribes to, and sockets that leave for good.  *)
(***************************************************************************)
EXTENDS Integers

CONSTANTS Sockets, Accounts, Times

VARIABLES
  subscribed,   \* the pairs <<socket, account>>
  newest,       \* of each subscribed account, the newest timestamp seen
  left          \* the sockets that closed

registry == <<subscribed, newest, left>>

Followed(pairs) == {p[2] : p \in pairs}

Init ==
  /\ subscribed = {}
  /\ newest = [a \in {} |-> 0]
  /\ left = {}

(* The first subscriber of an account brings the timestamp it has now.     *)
Subscribe(s, a) ==
  /\ s \notin left /\ <<s, a>> \notin subscribed
  /\ subscribed' = subscribed \cup {<<s, a>>}
  /\ \E ts \in Times :
       newest' = [b \in Followed(subscribed') |->
                    IF b \in Followed(subscribed) THEN newest[b] ELSE ts]
  /\ UNCHANGED left

Unsubscribe(s, a) ==
  /\ <<s, a>> \in subscribed
  /\ subscribed' = subscribed \ {<<s, a>>}
  /\ newest' = [b \in Followed(subscribed') |-> newest[b]]
  /\ UNCHANGED left

Advance(a) ==
  /\ a \in Followed(subscribed)
  /\ \E ts \in Times : ts > newest[a] /\ newest' = [newest EXCEPT ![a] = ts]
  /\ UNCHANGED <<subscribed, left>>

(* Only a socket without subscriptions leaves. *)
Leave(s) ==
  /\ \A a \in Accounts : <<s, a>> \notin subscribed
  /\ left' = left \cup {s}
  /\ UNCHANGED <<subscribed, newest>>

Next ==
  \/ \E s \in Sockets, a \in Accounts : Subscribe(s, a) \/ Unsubscribe(s, a)
  \/ \E a \in Accounts : Advance(a)
  \/ \E s \in Sockets : Leave(s)

Spec == Init /\ [][Next]_registry
=============================================================================
