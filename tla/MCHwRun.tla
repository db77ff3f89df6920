------------------------------ MODULE MCHwRun ------------------------------
EXTENDS HwRunInv, TLC

CONSTANTS p1, p2, t1, t2, u1, u2, root

OneUpstream == [t \in Tasks |-> IF t = t1 THEN {u1} \intersect Upstreams ELSE {}]
NoChain == [u \in Upstreams |-> {}]
Chain == [u \in Upstreams |-> IF u = u1 THEN {u2} \intersect Upstreams ELSE {}]
=============================================================================
