----------------------------- MODULE MCGateway -----------------------------
(* Instances of Gateway for TLC: two clients of one match, one of all. *)
EXTENDS Gateway

CONSTANTS c1, c2, c3, m1, m2

MCClients == {c1, c2, c3}
MCMatches == {m1, m2}
MCWants == [c \in MCClients |-> IF c = c3 THEN AllMatches ELSE m1]
=============================================================================
