--------------------------- MODULE MCSessionCache ---------------------------
(* The instance of SessionCache that is checked: two connections, two       *)
(* buckets; the ids a and c share a bucket, b has one of its own.           *)
EXTENDS SessionCache

CONSTANTS c1, c2, a, b, c

MCHashCode(id) == IF id = b THEN 2 ELSE 1

ServerAndClient == {[x \in Conns |-> IF x = c1 THEN "server" ELSE "client"]}
Both2 == {[mode |-> "both", size |-> 2, timeout |-> 1]}
TwoServers == {[x \in Conns |-> "server"]}
Twice1Once2 == [x \in Conns |-> IF x = c1 THEN 2 ELSE 1]
=============================================================================
