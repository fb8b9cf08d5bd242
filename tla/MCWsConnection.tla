--------------------------- MODULE MCWsConnection ---------------------------
(* The instance of WsConnection for TLC. *)
EXTENDS WsConnection

CONSTANTS c2, h1

(* Beside the first websocket there is another one or an HTTP connection.  *)
(* Only an Accept leads out of this constraint, and none has fairness.     *)
OneBeside == main[c2] = "new" \/ http[h1] = "new"
=============================================================================
