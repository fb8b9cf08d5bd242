--------------------------- MODULE MCMonitorCache ---------------------------
(* An instance of MonitorCache for TLC: the report, kept for its tick, and *)
(* a page kept for one more.                                               *)
EXTENDS MonitorCache, TLC

CONSTANTS report, page

MCLifespan == [r \in Routes |-> IF r = report THEN 0 ELSE 1]

Untouched(r) ==
  /\ cache[r] = Empty /\ upstream[r] = 0
  /\ \A c \in Clients : route[c] # r

(* Routes share nothing but the clock: what can happen to one can happen   *)
(* while nothing happens to the others.                                    *)
OneRoute == \E r \in Routes : \A q \in Routes \ {r} : Untouched(q)

ClientSymmetry == Permutations(Clients)
=============================================================================
