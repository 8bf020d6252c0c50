---------------------------- MODULE MCCtranGpe ----------------------------
(* Instances of CtranGpe for TLC.                                           *)
EXTENDS CtranGpe

CONSTANTS i1, i2, i3, s1, s2

Shape(k, n, s, cap, t) ==
    [kind |-> k, groups |-> n, stream |-> s, captured |-> cap, timeout |-> t]
Mode(e, p, sh, ff, lf) ==
    [enabled |-> e, pool |-> p, shapes |-> sh, funcFails |-> ff, launchFails |-> lf,
     maxCaptured |-> 1]

Wait1 == Shape("wait", 1, s1, FALSE, FALSE)
Wait1Other == Shape("wait", 1, s2, FALSE, TRUE)
Wait2 == Shape("wait", 2, s1, FALSE, FALSE)
Exit1 == Shape("exit", 1, s1, FALSE, FALSE)
Exit2 == Shape("exit", 2, s1, FALSE, FALSE)
Captured1 == Shape("wait", 1, s1, TRUE, FALSE)

\* Two items, and one that every command needs; CUDA calls that fail, on two streams and
\* beside a graph; a graph beside another stream, with as many items as commands and with
\* fewer.
PassModes ==
    {Mode(e, {i1, i2}, {Wait1Other, Wait2, Exit2}, TRUE, FALSE) : e \in BOOLEAN} \cup
    {Mode(TRUE, {i1}, {Wait1Other, Wait2}, TRUE, FALSE),
     Mode(FALSE, {i1}, {Wait1, Shape("host", 1, s1, FALSE, FALSE),
                        Shape("bare", 1, s2, FALSE, FALSE)}, FALSE, TRUE),
     Mode(FALSE, {i1, i2}, {Exit1, Wait1Other}, FALSE, TRUE),
     Mode(FALSE, {i1}, {Captured1, Wait1Other}, FALSE, TRUE),
     Mode(FALSE, {i1, i2, i3}, {Captured1, Wait1Other}, FALSE, FALSE),
     Mode(FALSE, {i1, i2}, {Captured1, Wait1Other}, FALSE, FALSE)}
=============================================================================
