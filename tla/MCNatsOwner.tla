---------------------------- MODULE MCNatsOwner ----------------------------
EXTENDS NatsOwner

CONSTANTS n1, n2, o1, o2

MCSkew == [n \in Node |-> IF n = n2 THEN 1 ELSE 0]
MCAt == [o \in Op |-> IF o = o2 THEN n2 ELSE n1]

=============================================================================
