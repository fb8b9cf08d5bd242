------------------------ MODULE MCArchiverDiscovery ------------------------
(* Instances of ArchiverDiscovery for TLC. *)
EXTENDS ArchiverDiscovery

Archiver(k, i) == [key |-> k, ip |-> i]

(* One seed, whose entry in the cache may bear another ip; answers that    *)
(* share a key, differ in its ip and are not in the order of the keys.     *)
MCSeeds == <<Archiver(2, "a")>>
MCAnswers == {<<Archiver(1, "a")>>, <<Archiver(2, "b"), Archiver(1, "b")>>}

MCArchivers == {Archiver(k, i) : k \in {1, 2}, i \in {"a", "b", "r"}}
=============================================================================
