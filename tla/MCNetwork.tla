----------------------------- MODULE MCNetwork ------------------------------
EXTENDS Network

MCWindows == {2, 10}
MCHosts == 1..2
MCTags == 1..2

\* Windows, hosts and tags are interchangeable: the first job uses the first.
Canonical == /\ issuer # <<>> => issuer[1] = [win |-> 2, host |-> 1]
             /\ tags # {} => 1 \in tags
=============================================================================
