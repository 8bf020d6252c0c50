------------------------------ MODULE MCCtranIb ------------------------------
(* An instance of CtranIbVc for TLC: two puts of one write each, of which only   *)
(* the last asks to notify, on two queue pairs.                                  *)
EXTENDS CtranIbVc

LastModes ==
    {[vcMode |-> "dqplb", numQps |-> 2, devices |-> 1, maxQpMsgs |-> 2, sendWrs |-> 2,
      recvWrs |-> 2, seqMod |-> 8,
      puts |-> <<[wqes |-> 1, notify |-> FALSE], [wqes |-> 1, notify |-> TRUE]>>,
      calls |-> [k \in 1 .. 2 |-> [kind |-> "put", ids |-> <<k>>, wait |-> FALSE]]]}
=============================================================================
