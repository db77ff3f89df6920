----------------------------- MODULE MCCloudRun -----------------------------
EXTENDS CloudRunInv, TLC

CONSTANTS p1, t1, t2, u1, root

OneUpstream == [t \in Tasks |-> IF t = t1 THEN {u1} \intersect Upstreams ELSE {}]
NoChain == [u \in Upstreams |-> {}]
=============================================================================
