-------------------------- MODULE MCHttpConnection --------------------------
(* An instance of HttpConnection for TLC: heads of two units and bodies of *)
(* none, two or four, read two at a time, four being over the limit.       *)
EXTENDS HttpConnection, TLC

Plain(app) == [app |-> app, head |-> 2, body |-> 0, length |-> None]
Posted(app, n) == [app |-> app, head |-> 2, body |-> n, length |-> n]

Asking(resource, method, params) ==
  [app |-> "observer", head |-> 1, body |-> 0, length |-> None,
   ask |-> [resource |-> resource, method |-> method, params |-> params]]

Bridgeout(params) ==
  [Asking("notify-bridgeout", "POST", params) EXCEPT !.body = 1, !.length = 1]

NoParams == [p \in {} |-> 0]

MCRequests ==
  {Plain(app) : app \in Apps \ {"observer"}}
    \cup {Posted("validator", n) : n \in {2, 4}} \cup {Posted("notifier", 2)}
    \cup {Bridgeout(params) : params \in {[chainId |-> 1], [chainId |-> None]}}
    \cup {Asking("notify-bridgeout", m, NoParams) : m \in {"OPTIONS", "GET"}}
    \cup {Asking("transaction", "GET", params) :
            params \in {NoParams, [page |-> 0], [type |-> 2, txId |-> "formed"]}}
    \cup {Asking("other", "GET", NoParams)}

MCResponses ==
  {[head |-> 2, body |-> n, length |-> n] : n \in {0, 2, 4}}
    \cup {[head |-> 2, body |-> 2, length |-> None]}
=============================================================================
