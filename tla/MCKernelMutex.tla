---------------------------- MODULE MCKernelMutex ----------------------------
(* The three tasks of the mutex programs, the lowest with a second mutex     *)
(* around the first, and a fourth task of the lowest priority.               *)
EXTENDS KernelMutex

CONSTANTS low, other, mid, high, idle, outer, inner

MCBase == [t \in Task |->
    CASE t = idle -> 0 [] t \in {low, other} -> 2 [] t = mid -> 3 [] OTHER -> 4]

MCTakes == [t \in Task |->
    CASE t = low   -> {<<outer>>, <<inner>>, <<outer, inner>>}
      [] t = other -> {<<outer>>}
      [] t = mid   -> {<<inner>>, <<outer>>}
      [] t = high  -> {<<inner>>}
      [] OTHER     -> {}]
=============================================================================
