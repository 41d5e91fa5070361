----------------------------- MODULE MCTcpNet ------------------------------
(* TcpNet with concrete payloads: bytes are the numbers the two sides count. *)
EXTENDS TcpNet

MCWrites == {<<b>> : b \in 1..MaxWrites}

\* A connection carries data one way, as in a download and in an upload, and is
\* reset only after a single write.
OneWay ==
  /\ writes' = 0 \/ pNxt' = 0
  /\ (\E seg \in s2c' : seg.rst) => pNxt' = 0 /\ writes' <= 1

MCSpec == NetInit /\ [][NetNext /\ OneWay]_netvars /\ Fairness
============================================================================
