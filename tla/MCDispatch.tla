------------------------------- MODULE MCDispatch -------------------------------
(* Dispatch on modules with up to four functions and two stubs at          *)
(* addresses 2, 4, 6 and 8, with every overlap and duplication; a seen     *)
(* table of two slots in which most keys collide.                          *)
EXTENDS Dispatch

SortedLists(n) ==
  { s \in UNION { [1 .. k -> {2, 4, 6, 8}] : k \in 0 .. n } : Nondecreasing(s) }

(* NID 0 is keyed by the stub's address, NID 3 is shared. *)
MCModules ==
  { [funcs |-> f, emitted |-> e, stubs |-> s,
     nids |-> [i \in DOMAIN s |-> IF i = 1 THEN 0 ELSE 3], implemented |-> d] :
      f \in { l \in SortedLists(4) : Increasing(l) },
      s \in SortedLists(2), e \in { {2, 4, 6, 8}, {4} }, d \in { {}, {2} } }

MCHash == [k \in 0 .. 9 |-> k % 2]
================================================================================
