---------------------------- MODULE MCKernelQueue ----------------------------
(* Values for KernelQueue: three application tasks, two of them equal. *)
EXTENDS KernelQueue

CONSTANTS high, low, low2, idle, a, b

MCPrio == [t \in Task |-> CASE t = high           -> 2
                            [] t \in {low, low2} -> 1
                            [] OTHER              -> 0]
=============================================================================
