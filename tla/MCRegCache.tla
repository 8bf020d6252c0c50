------------------------------ MODULE MCRegCache ------------------------------
(* Instances of RegCache for TLC.                                           *)
EXTENDS RegCache, TLC

Setting(r, bufs, faults, aborts) ==
    [register |-> r, buffers |-> bufs, faults |-> faults, aborts |-> aborts]

Settings ==
    {Setting("async", {{1}}, TRUE, TRUE), Setting("async", {{1, 2}}, FALSE, FALSE),
     Setting("eager", {{1}}, TRUE, FALSE), Setting("eager", {{1, 2}}, FALSE, FALSE),
     Setting("lazy", {{1}, {2}}, FALSE, TRUE)}

Symmetry == Permutations(Comms) \cup Permutations(Addrs)
=============================================================================
