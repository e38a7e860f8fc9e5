------------------------- MODULE MCCertificationRun -------------------------
(***************************************************************************)
(* Three cells with every mix of shared scopes, keys, dependencies (cycles *)
(* among them) and warm transitions, on a host that fits two units, or one *)
(* unit of another schedule.                                               *)
(***************************************************************************)
EXTENDS CertificationRun, TLC

CONSTANTS c1, c2, c3, k1, k2, k3, s1, s2, f1, f2

MCCellOrder == <<c1, c2, c3>>
MCKeys == {k1, k2, k3}
MCQuota == [k \in {k1, k3} |-> IF k = k1 THEN 1 ELSE 0]
MCOrders == {<<c1, c2, c3>>, <<c3, c2, c1>>}

Cell(scope, fingerprint, keys, dependencies, warmFrom, runnable) ==
    [scope |-> scope, fingerprint |-> fingerprint, keys |-> keys,
     dependencies |-> dependencies, warmFrom |-> warmFrom,
     runnable |-> runnable]

MCMatrices ==
    {   (c1 :> Cell(s1, f1, {k1}, {}, None, TRUE))
     @@ (c2 :> Cell(scope2, fp2, keys2, deps2, warm2, TRUE))
     @@ (c3 :> Cell(s1, fp3, keys3, deps3, warm3, run3)) :
        scope2 \in {s1, s2}, fp2 \in {f1, f2}, keys2 \in {{k1}, {k2}},
        deps2 \in {{}, {c3}}, warm2 \in {None, c1},
        fp3 \in {f1, f2}, keys3 \in {{k1, k2}, {k3}},
        deps3 \in {{}, {c2}}, warm3 \in {None, c2}, run3 \in BOOLEAN}

MCClients == (SUBSET {c1, c2, c3}) \cup Others
MCCapacity == [cpu |-> 2, memory |-> 2]
MCRequest(client) ==
    IF client \in Others THEN [cpu |-> 2, memory |-> 1]
    ELSE [cpu |-> 1, memory |-> 1]
=============================================================================
