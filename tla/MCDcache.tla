------------------------------ MODULE MCDcache ------------------------------
(* Each mode offers the cache one small mix of requests and other masters'    *)
(* writes; the state space of a run is the sum over the modes it names.       *)
EXTENDS Dcache

CONSTANT Modes

VARIABLE mode

Q(op, line, row, data) == [op |-> op, line |-> line, row |-> row, data |-> data, sel |-> TRUE,
                           ok |-> TRUE, mmu |-> FALSE]
LoadA == Q("load", "A", 0, 0)
LoadB == Q("load", "B", 0, 0)

Reqs ==
    [share  |-> {LoadA, LoadB, Q("store", "A", 0, 1)},
     rows   |-> {Q("load", "B", 1, 0), Q("touch", "B", 0, 0), Q("store", "B", 1, 1)},
     stores |-> {Q("store", "A", 0, 0), Q("store", "A", 1, 1), Q("sync", "A", 0, 0), LoadA},
     byte   |-> {Q("store", "A", 0, 1), [Q("store", "A", 0, 2) EXCEPT !.sel = FALSE], LoadA},
     flush  |-> {Q("dcbf", "A", 0, 0), LoadA, Q("store", "A", 0, 1)},
     link   |-> {Q("larx", "A", 0, 0), Q("stcx", "A", 0, 1), LoadB},
     zero   |-> {Q("dcbz", "A", 0, 0), LoadA, Q("load", "A", 1, 0)},
     other  |-> {Q("ncload", "A", 0, 0), Q("ncstore", "A", 0, 1), [LoadA EXCEPT !.mmu = TRUE],
                 [LoadA EXCEPT !.ok = FALSE], LoadA},
     dcbz_store |-> {Q("dcbz", "A", 0, 0), Q("store", "B", 0, 1), Q("load", "A", 1, 0)},
     touch_link |-> {Q("larx", "A", 0, 0), Q("stcx", "A", 0, 1), Q("touch", "B", 0, 0), LoadB}]

W(line, row, data) == {[line |-> line, row |-> row, data |-> data]}
Snooped == [share  |-> W("A", 0, 0), rows |-> {}, stores |-> {}, byte |-> {}, flush |-> {},
           link |-> W("A", 0, 0), zero |-> W("A", 1, 1), other |-> {}, dcbz_store |-> {},
           touch_link |-> W("A", 0, 0)]

MCInit == Init /\ mode \in Modes
MCNext == /\ \/ mode \in {"other", "zero"} /\ Reset
             \/ Edge(Reqs[mode], Snooped[mode], mode \in {"byte", "stores"})
          /\ UNCHANGED mode
MCSpec == MCInit /\ [][MCNext]_<<vars, mode>>
MCPage == [l \in Lines |-> IF l = "A" THEN 0 ELSE 1]
=============================================================================
