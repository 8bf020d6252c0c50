-------------------------- MODULE MCAllocatorHook --------------------------
(* Instances of AllocatorHook for TLC.  Segments are interchangeable: no    *)
(* action compares them or orders them.  Communicators are not: std::set    *)
(* visits them in the order of their addresses.                             *)
EXTENDS AllocatorHook, TLC

CONSTANTS s1, s2

Symmetry == Permutations({s1, s2})

=============================================================================
