---------------------------- MODULE MCApiProcess ----------------------------
(* ApiProcess with one pool connection and three clients: one that makes a    *)
(* change, which reads the session and then runs a transaction, and two that *)
(* probe readiness.                                                          *)
EXTENDS ApiProcess

CONSTANTS c1, c2, c3

MCClients == {c1, c2, c3}
MCRequests == {"ready", "change"}
MCUnits == [r \in MCRequests |-> IF r = "change" THEN <<"query", "tx">> ELSE <<"query">>]
MCAsks == [c \in MCClients |-> IF c = c1 THEN {"change"} ELSE {"ready"}]
MCProbes == {"ready"}
=============================================================================
