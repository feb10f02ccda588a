--------------------------- MODULE MCControlPlane ---------------------------
(* Small instances of ControlPlane for TLC. *)
EXTENDS ControlPlane

CONSTANTS a1, a2

Req(t, d, s, p, c, j) ==
    [type |-> t, duration |-> d, start |-> s, parallel |-> p, count |-> c,
     json |-> j]

TwoEndpoints == <<a1, a2>>

\* Requests of every kind: accepted without validation, accepted by it and
\* refused by it; immediate and delayed; to one agent and to more than
\* there are.
MixedRequests ==
    {Req("network-latency", 1, 0, FALSE, 0, FALSE),
     Req("network-loss", 0, 1, TRUE, 3, FALSE),
     Req("process-kill", 0, 0, FALSE, 1, FALSE),
     Req("mem-stress", 0, 0, FALSE, 1, FALSE),
     Req("cpu_stress", 1, 0, FALSE, 1, TRUE),
     Req("cpu-stress", 1, 0, FALSE, 1, TRUE)}
=============================================================================
